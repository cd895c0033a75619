----------------------------- MODULE TemporalJoin -----------------------------
(***************************************************************************)
(* The macro that joins two change histories (sqlmesh/macros/              *)
(* temporal_join.py), as the query it writes: `left` holds the versions of *)
(* the items, each with the join key it points with, `right` those of what *)
(* they point to.  The sources grow, in any order of time.                 *)
(***************************************************************************)
EXTENDS Naturals, FiniteSets

CONSTANTS
    Items,       \* values of `key`
    JoinKeys,    \* values of the columns `on` compares
    Values,      \* values of the other columns
    LastTime,    \* timestamps are 1 .. LastTime
    MaxVersions, \* bound: how many rows both sources have together
    NoVersion    \* a lookup that finds nothing, NULL in every column

Times == 1 .. LastTime
LeftVersion == [item : Items, time : Times, joins : JoinKeys]
RightVersion == [joins : JoinKeys, time : Times, value : Values]

ASSUME JoinAssumption ==
    /\ LastTime \in Nat
    /\ NoVersion \notin LeftVersion \cup RightVersion

VARIABLES left, right

joinVars == <<left, right>>

JoinInit == left = {} /\ right = {}

\* Both sources are unique on what they are looked up by and the timestamp.
RecordLeft(version) ==
    /\ Cardinality(left) + Cardinality(right) < MaxVersions
    /\ \A other \in left : other.item = version.item => other.time # version.time
    /\ left' = left \cup {version}
    /\ UNCHANGED right

RecordRight(version) ==
    /\ Cardinality(left) + Cardinality(right) < MaxVersions
    /\ \A other \in right : other.joins = version.joins => other.time # version.time
    /\ right' = right \cup {version}
    /\ UNCHANGED left

JoinNext ==
    \/ \E version \in LeftVersion : RecordLeft(version)
    \/ \E version \in RightVersion : RecordRight(version)

JoinSpec == JoinInit /\ [][JoinNext]_joinVars

-----------------------------------------------------------------------------
(* The query.                                                              *)

\* A mutant of Ticks: what an item points to now is all that counts.
TicksOfLatest ==
    {<<l.item, l.time>> : l \in left} \cup
    {<<pair[1].item, pair[2].time>> :
        pair \in {p \in left \X right : /\ p[1].joins = p[2].joins
                                        /\ \A l \in left : l.item = p[1].item => l.time <= p[1].time}}

\* The item's own timestamps, and those of the right rows that any of its versions reaches.
Ticks ==
    {<<l.item, l.time>> : l \in left} \cup
    {<<pair[1].item, pair[2].time>> : pair \in {p \in left \X right : p[1].joins = p[2].joins}}

\* A mutant of Latest: the time of the tick is not asked for.
LatestEver(versions, time) ==
    IF versions = {} THEN NoVersion
    ELSE CHOOSE v \in versions : \A other \in versions : other.time <= v.time

\* Both forms of a lookup: the latest row at or before the tick.
Latest(versions, time) ==
    LET due == {v \in versions : v.time <= time} IN
    IF due = {} THEN NoVersion
    ELSE CHOOSE v \in due : \A other \in due : other.time <= v.time

LeftAt(tick) == Latest({l \in left : l.item = tick[1]}, tick[2])

\* Looked up through the left row in effect, and not found without one.
RightAt(tick) ==
    LET l == LeftAt(tick) IN
    Latest({r \in right : l # NoVersion /\ r.joins = l.joins}, tick[2])

\* Every column of both rows except the timestamps.
Columns(tick) ==
    <<IF LeftAt(tick) = NoVersion THEN NoVersion ELSE LeftAt(tick).joins,
      IF RightAt(tick) = NoVersion THEN NoVersion ELSE RightAt(tick).value>>

\* The window of an item; ticks without a left row are gone before.
Before(tick) == {other \in Ticks : other[1] = tick[1] /\ other[2] < tick[2]
                                   /\ LeftAt(other) # NoVersion}

\* A mutant of Changed: what the item has been before is not reported again.
ChangedOnce(tick) == \A other \in Before(tick) : Columns(other) # Columns(tick)

\* LAG: the tick before differs, or there is none.
Changed(tick) ==
    \A last \in Before(tick) :
        (\A other \in Before(tick) : other[2] <= last[2]) => Columns(last) # Columns(tick)

Changes == {tick \in Ticks : LeftAt(tick) # NoVersion /\ Changed(tick)}

\* What the calling model selects from.
Joined == {<<tick, Columns(tick)>> : tick \in Changes}

-----------------------------------------------------------------------------
(* Properties.                                                             *)

\* The table has a row for exactly the moments at which the item, or what it points to at
\* that moment, changed: stepping through every moment of time finds the same rows
\* (temporal_join.py:3-6, 18-21; audits/assert_every_row_is_a_change.sql).
JoinIsEveryChange ==
    Changes = {moment \in Items \X Times :
                 /\ LeftAt(moment) # NoVersion
                 /\ \/ moment[2] = 1
                    \/ LeftAt(<<moment[1], moment[2] - 1>>) = NoVersion
                    \/ Columns(<<moment[1], moment[2] - 1>>) # Columns(moment)}

\* A version that arrives, late or not, leaves the table as it was before the version's time:
\* what has been read of the past changes only if the past does.
PastStays ==
    \A version \in (left' \cup right') \ (left \cup right) :
        {row \in Joined' : row[1][2] < version.time} = {row \in Joined : row[1][2] < version.time}

PastIsKept == [][PastStays]_joinVars
=============================================================================
