------------------------------- MODULE VisitLog -------------------------------
(***************************************************************************)
(* The proxy's log of page visits and the collector that drains it once a  *)
(* minute (serverstats/collect.sh).                                        *)
(*                                                                         *)
(* The proxy appends one line per visit, and a line may be there in part.  *)
(* The collector keeps how far it has read in a file, reads what was added *)
(* since, stores the whole lines and writes the file anew.  It may be      *)
(* killed between any two of these steps; the log may be begun again at    *)
(* any time, in the middle of a line too.                                  *)
(***************************************************************************)
EXTENDS Naturals, Sequences, FiniteSets

CONSTANTS
    Visits,        \* the visits, each of which the proxy logs once
    NoVisit,
    Torn,          \* a cursor file that was emptied and not written
    MaxKills,      \* bound: how often the collector is killed
    MaxRotations   \* bound: how often the log is begun again

ASSUME VisitsAssumption ==
    /\ NoVisit \notin Visits
    /\ Torn \notin Nat

\* A line is a head and a tail that ends in the newline.
Piece == [visit : Visits, part : {"head", "tail"}]

VARIABLES
    log,        \* visits.log
    writing,    \* the visit whose line the proxy has begun
    cursor,     \* the offset file
    tick,       \* the collector's run
    stored,     \* dashboard_visit: how often each visit is in it
    kills, rotations,
    begun,      \* history: visits the proxy has begun to log
    repeated,   \* history: visits stored by a run that did not come to write the cursor
    astray      \* history: the cursor belongs to an earlier log

visitVars == <<log, writing, cursor, tick, stored, kills, rotations, begun, repeated, astray>>

\* `from` is prev_size, `lines` NEW_BYTES, `noticed` tells that the run starts at the
\* beginning of the log it reads.
NoRun == [at |-> "idle", from |-> 0, lines |-> <<>>, noticed |-> FALSE]

VisitsInit ==
    /\ log = <<>> /\ writing = NoVisit
    /\ cursor = 0
    /\ tick = NoRun
    /\ stored = [v \in Visits |-> 0]
    /\ kills = 0 /\ rotations = 0
    /\ begun = {} /\ repeated = {} /\ astray = FALSE

-----------------------------------------------------------------------------
(* The proxy.                                                              *)

BeginLine(v) ==
    /\ writing = NoVisit /\ v \notin begun
    /\ log' = Append(log, [visit |-> v, part |-> "head"])
    /\ writing' = v
    /\ begun' = begun \cup {v}
    /\ UNCHANGED <<cursor, tick, stored, kills, rotations, repeated, astray>>

EndLine ==
    /\ writing # NoVisit
    /\ log' = Append(log, [visit |-> writing, part |-> "tail"])
    /\ writing' = NoVisit
    /\ UNCHANGED <<cursor, tick, stored, kills, rotations, begun, repeated, astray>>

Rotate ==
    /\ rotations < MaxRotations
    /\ log' = <<>>
    /\ rotations' = rotations + 1
    /\ astray' = (astray \/ cursor # 0 \/ tick.at # "idle")
    /\ tick' = [tick EXCEPT !.noticed = FALSE]
    /\ UNCHANGED <<writing, cursor, stored, kills, begun, repeated>>

-----------------------------------------------------------------------------
(* The collector.                                                          *)

\* A mutant of Shrunk: a log that has not grown counts as begun again.
NotGrown == Len(log) <= cursor

\* A file that shrank was begun again.
Shrunk == Len(log) < cursor

\* An empty cursor file makes both comparisons fail, and nothing is read.
Measure ==
    /\ tick.at = "idle" /\ cursor # Torn
    /\ LET from == IF Shrunk THEN 0 ELSE cursor IN
          /\ Len(log) > from
          /\ tick' = [NoRun EXCEPT !.at = "measured", !.from = from, !.noticed = (from = 0)]
    /\ UNCHANGED <<log, writing, cursor, stored, kills, rotations, begun, repeated, astray>>

\* tail -c: to the end of what is there by now.
Read ==
    /\ tick.at = "measured"
    /\ tick' = [tick EXCEPT !.at = "read", !.lines = SubSeq(log, tick.from + 1, Len(log))]
    /\ UNCHANGED <<log, writing, cursor, stored, kills, rotations, begun, repeated, astray>>

\* A mutant of Consumed: a line that is not complete yet is consumed with the others.
ConsumedAll(lines) == Len(lines)

\* Up to the last newline.
Consumed(lines) ==
    CHOOSE n \in 0 .. Len(lines) :
        /\ n = 0 \/ lines[n].part = "tail"
        /\ \A i \in n + 1 .. Len(lines) : lines[i].part = "head"

\* The lines among the first n pieces of a text that parse; a tail alone does not.
Whole(text, n) ==
    {text[i].visit : i \in {i \in 2 .. n : /\ text[i].part = "tail"
                                          /\ text[i - 1] = [text[i] EXCEPT !.part = "head"]}}

\* The visits a run stores, and then moves the cursor past.
Batch == Whole(tick.lines, Consumed(tick.lines))

\* One script, and so one INSERT; it fails as a whole.
Insert ==
    /\ tick.at = "read"
    /\ \/ /\ Consumed(tick.lines) > 0
          /\ stored' = [v \in Visits |-> IF v \in Batch THEN stored[v] + 1 ELSE stored[v]]
          /\ tick' = [tick EXCEPT !.at = "stored"]
       \/ tick' = NoRun /\ UNCHANGED stored
    /\ UNCHANGED <<log, writing, cursor, kills, rotations, begun, repeated, astray>>

\* The redirection empties the file before anything is written to it.
EmptyCursor ==
    /\ tick.at = "stored"
    /\ cursor' = Torn
    /\ tick' = [tick EXCEPT !.at = "emptied"]
    /\ UNCHANGED <<log, writing, stored, kills, rotations, begun, repeated, astray>>

WriteCursor ==
    /\ tick.at = "emptied"
    /\ cursor' = tick.from + Consumed(tick.lines)
    /\ astray' = (astray /\ ~tick.noticed)
    /\ tick' = NoRun
    /\ UNCHANGED <<log, writing, stored, kills, rotations, begun, repeated>>

\* The unit is stopped, or the disk is full when the cursor is written.
Killed ==
    /\ tick.at # "idle" /\ kills < MaxKills
    /\ kills' = kills + 1
    /\ repeated' = IF tick.at \in {"stored", "emptied"}
                   THEN repeated \cup Batch ELSE repeated
    /\ tick' = NoRun
    /\ UNCHANGED <<log, writing, cursor, stored, rotations, begun, astray>>

VisitsNext ==
    \/ \E v \in Visits : BeginLine(v)
    \/ EndLine \/ Rotate \/ Measure \/ Read \/ Insert \/ EmptyCursor \/ WriteCursor \/ Killed

VisitsSpec == VisitsInit /\ [][VisitsNext]_visitVars

-----------------------------------------------------------------------------
(* Properties.                                                             *)

\* A visit is in the statistics once (the byte offset of collect.sh): one that is there twice
\* was stored by a run that was killed before it had written the cursor.
VisitsStoredOnce == \A v \in Visits : stored[v] > 1 => v \in repeated

\* The cursor passes over nothing (consumed): it stands behind a newline, and every whole
\* line before it is in the statistics, unless the log was begun again and has grown past
\* the cursor before the collector could see it shrunk.
CursorPassesNothing ==
    cursor # Torn /\ ~astray =>
        /\ cursor <= Len(log)
        /\ cursor # 0 => log[cursor].part = "tail"
        /\ \A v \in Whole(log, cursor) : stored[v] > 0
=============================================================================
