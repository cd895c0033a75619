---------------------------- MODULE AnalyticsProofs ----------------------------
(***************************************************************************)
(* What holds of the analytics for every value of the constants: of the    *)
(* temporal join for any items, join keys, values, span of time and number *)
(* of versions, and of the lineage graph for any models in any order.      *)
(***************************************************************************)
EXTENDS TemporalJoin, Lineage, SequenceTheorems, FiniteSetTheorems, WellFoundedInduction, TLAPS

-----------------------------------------------------------------------------
(* The temporal join.                                                      *)

\* The sources hold versions.
Typed == left \subseteq LeftVersion /\ right \subseteq RightVersion

\* The sources begin empty.
LEMMA TypedInit == JoinInit => Typed
  BY DEF JoinInit, Typed

\* Only versions are recorded.
LEMMA TypedStep == Typed /\ [JoinNext]_joinVars => Typed'
  BY DEF Typed, JoinNext, RecordLeft, RecordRight, joinVars

-----------------------------------------------------------------------------
(* Lookups.                                                                *)

\* A set of numbers below a bound has a greatest one.
LEMMA Greatest ==
    ASSUME NEW S, S # {}, NEW bound \in Nat, S \subseteq 0 .. bound
    PROVE  \E n \in S : \A m \in S : m <= n
<1> DEFINE T == {bound - n : n \in S}
<1>1. T \subseteq Nat /\ T # {}
  <2>1. \A n \in S : bound - n \in Nat
    OBVIOUS
  <2> QED BY <2>1
<1>2. \E n \in T : \A m \in T : ~(<<m, n>> \in OpToRel(<, Nat))
  <2> HIDE DEF T
  <2> QED BY <1>1, NatLessThanWellFounded, WFMin
<1>3. PICK d \in T : \A e \in T : ~(e < d)
  BY <1>1, <1>2 DEF OpToRel
<1>4. PICK n \in S : d = bound - n
  BY <1>3
<1>5. \A m \in S : ~(bound - m < bound - n)
  BY <1>3, <1>4
<1> QED BY <1>5

\* A lookup finds a latest row that is due, or there is none.
LEMMA LatestFound ==
    ASSUME NEW versions, \A v \in versions : v.time \in Times, NoVersion \notin versions,
           NEW time \in Nat
    PROVE  \/ /\ Latest(versions, time) = NoVersion
              /\ \A v \in versions : v.time > time
           \/ /\ Latest(versions, time) \in versions /\ Latest(versions, time) # NoVersion
              /\ Latest(versions, time).time <= time
<1> DEFINE due == {v \in versions : v.time <= time}
<1>1. CASE due = {}
  BY <1>1 DEF Latest, Times
<1>2. CASE due # {}
  <2> DEFINE moments == {v.time : v \in due}
  <2>1. moments # {} /\ moments \subseteq 0 .. time
    BY <1>2, JoinAssumption DEF Times
  <2>2. \E n \in moments : \A m \in moments : m <= n
    <3> HIDE DEF moments
    <3> QED BY <2>1, Greatest
  <2>3. PICK v \in due : \A m \in moments : m <= v.time
    BY <2>2
  <2>4. \A other \in due : other.time <= v.time
    BY <2>3
  <2>5. Latest(versions, time) \in due
    BY <1>2, <2>3, <2>4 DEF Latest
  <2> QED BY <2>5
<1> QED BY <1>1, <1>2

\* A lookup depends on the rows that are due and on nothing else.
LEMMA LatestSame ==
    ASSUME NEW versions, NEW others, NEW s, NEW t,
           {v \in versions : v.time <= s} = {v \in others : v.time <= t}
    PROVE  Latest(versions, s) = Latest(others, t)
<1> DEFINE due == {v \in versions : v.time <= s}
           also == {v \in others : v.time <= t}
           Last(rows) == IF rows = {} THEN NoVersion
                         ELSE CHOOSE v \in rows : \A other \in rows : other.time <= v.time
<1>1. Latest(versions, s) = Last(due) /\ Latest(others, t) = Last(also)
  BY DEF Latest
<1>2. due = also
  OBVIOUS
<1> HIDE DEF due, also, Last
<1> QED BY <1>1, <1>2

\* The rows of an item are versions.
LEMMA LeftFound ==
    ASSUME Typed, NEW i \in Items, NEW t \in Nat
    PROVE  \/ /\ LeftAt(<<i, t>>) = NoVersion
              /\ \A l \in left : l.item = i => l.time > t
           \/ /\ LeftAt(<<i, t>>) \in left /\ LeftAt(<<i, t>>) # NoVersion
              /\ LeftAt(<<i, t>>).item = i /\ LeftAt(<<i, t>>).time <= t
<1> DEFINE versions == {l \in left : l.item = i}
<1>1. (\A v \in versions : v.time \in Times) /\ NoVersion \notin versions
  BY JoinAssumption DEF Typed, LeftVersion
<1>2. LeftAt(<<i, t>>) = Latest(versions, t)
  BY DEF LeftAt
<1> QED BY <1>1, <1>2, LatestFound

\* An item that is there stays there.
LEMMA LeftStays ==
    ASSUME Typed, NEW i \in Items, NEW s \in Nat, NEW t \in Nat, s <= t,
           LeftAt(<<i, s>>) # NoVersion
    PROVE  LeftAt(<<i, t>>) # NoVersion
<1>1. PICK l \in left : l.item = i /\ l.time <= s
  BY LeftFound
<1>2. l.time <= t
  BY <1>1, JoinAssumption DEF Typed, LeftVersion, Times
<1>3. l.time \in Int
  BY JoinAssumption DEF Typed, LeftVersion, Times
<1> QED BY <1>1, <1>2, <1>3, LeftFound

\* A tick is an item and a time.
LEMMA TicksTyped == ASSUME Typed PROVE Ticks \subseteq Items \X Times
  BY DEF Ticks, Typed, LeftVersion, RightVersion

\* While no tick of an item comes, what a lookup finds for it stays the same.
LEMMA QuietStretch ==
    ASSUME Typed, NEW i \in Items, NEW s \in Nat, NEW t \in Nat, s <= t,
           \A u \in s + 1 .. t : <<i, u>> \notin Ticks
    PROVE  LeftAt(<<i, s>>) = LeftAt(<<i, t>>) /\ Columns(<<i, s>>) = Columns(<<i, t>>)
<1>1. LeftAt(<<i, s>>) = LeftAt(<<i, t>>)
  <2> DEFINE versions == {l \in left : l.item = i}
  <2>1. \A l \in versions : l.time \in Times /\ ~(s < l.time /\ l.time <= t)
    <3> SUFFICES ASSUME NEW l \in versions, s < l.time /\ l.time <= t PROVE l.time \in Times /\ FALSE
      BY DEF Typed, LeftVersion
    <3>1. l.time \in Times
      BY DEF Typed, LeftVersion
    <3>2. <<i, l.time>> \in Ticks /\ l.time \in s + 1 .. t
      BY <3>1 DEF Ticks, Times
    <3> QED BY <3>2
  <2>2. {l \in versions : l.time <= s} = {l \in versions : l.time <= t}
    BY <2>1, JoinAssumption DEF Times
  <2>3. Latest(versions, s) = Latest(versions, t)
    BY <2>2, LatestSame
  <2> QED BY <2>3 DEF LeftAt
<1>2. RightAt(<<i, s>>) = RightAt(<<i, t>>)
  <2> DEFINE l == LeftAt(<<i, t>>)
             versions == {r \in right : l # NoVersion /\ r.joins = l.joins}
  <2>1. \A r \in versions : r.time \in Times /\ ~(s < r.time /\ r.time <= t)
    <3> SUFFICES ASSUME NEW r \in versions, s < r.time /\ r.time <= t PROVE r.time \in Times /\ FALSE
      BY DEF Typed, RightVersion
    <3>1. r.time \in Times /\ r \in right /\ r.joins = l.joins
      BY DEF Typed, RightVersion
    <3>2. l \in left /\ l.item = i
      BY LeftFound
    <3>3. <<l, r>> \in {p \in left \X right : p[1].joins = p[2].joins}
      BY <3>1, <3>2
    <3>4. <<l.item, r.time>> \in Ticks
      BY <3>3 DEF Ticks
    <3>5. <<i, r.time>> \in Ticks /\ r.time \in s + 1 .. t
      BY <3>1, <3>2, <3>4, JoinAssumption DEF Times
    <3> QED BY <3>5
  <2>2. {r \in versions : r.time <= s} = {r \in versions : r.time <= t}
    BY <2>1, JoinAssumption DEF Times
  <2>3. Latest(versions, s) = Latest(versions, t)
    BY <2>2, LatestSame
  <2> QED BY <1>1, <2>3 DEF RightAt
<1> QED BY <1>1, <1>2 DEF Columns

-----------------------------------------------------------------------------
(* The rows of the joined table.                                           *)

\* Between the last tick before a moment and the moment nothing changes.
LEMMA SinceLastTick ==
    ASSUME Typed, NEW i \in Items, NEW t \in Times, NEW last \in Before(<<i, t>>),
           \A other \in Before(<<i, t>>) : other[2] <= last[2]
    PROVE  /\ LeftAt(last) = LeftAt(<<i, t - 1>>) /\ LeftAt(last) # NoVersion
           /\ Columns(last) = Columns(<<i, t - 1>>)
<1> DEFINE s == last[2]
<1>1. last = <<i, s>> /\ s \in Times /\ s < t /\ LeftAt(last) # NoVersion
  BY TicksTyped DEF Before
<1>2. s \in Nat /\ t - 1 \in Nat /\ s <= t - 1
  BY <1>1, JoinAssumption DEF Times
<1>3. ASSUME NEW u \in s + 1 .. t - 1 PROVE <<i, u>> \notin Ticks
  <2>1. u \in Nat /\ s <= u /\ s < u /\ u < t
    BY <1>2, JoinAssumption DEF Times
  <2>2. LeftAt(<<i, u>>) # NoVersion
    BY <1>1, <1>2, <2>1, LeftStays
  <2>3. <<i, u>> \in Ticks => <<i, u>> \in Before(<<i, t>>)
    BY <2>1, <2>2 DEF Before
  <2>4. <<i, u>> \notin Before(<<i, t>>)
    BY <1>2, <2>1
  <2> QED BY <2>3, <2>4
<1> HIDE DEF s
<1>4. LeftAt(<<i, s>>) = LeftAt(<<i, t - 1>>) /\ Columns(<<i, s>>) = Columns(<<i, t - 1>>)
  BY <1>2, <1>3, QuietStretch
<1> QED BY <1>1, <1>4

\* Nothing is there before the first moment.
LEMMA NothingAtFirst == ASSUME Typed, NEW i \in Items PROVE LeftAt(<<i, 0>>) = NoVersion
<1>1. \A l \in left : ~(l.time <= 0)
  BY JoinAssumption DEF Typed, LeftVersion, Times
<1> QED BY <1>1, LeftFound

\* An item that is there has had a tick before, and so a last one.
LEMMA LastTickFound ==
    ASSUME Typed, NEW i \in Items, NEW t \in Times, LeftAt(<<i, t - 1>>) # NoVersion
    PROVE  \E last \in Before(<<i, t>>) : \A other \in Before(<<i, t>>) : other[2] <= last[2]
<1>0. t \in Nat /\ t - 1 \in Nat
  BY JoinAssumption DEF Times
<1>1. PICK l \in left : l.item = i /\ l.time <= t - 1
  BY <1>0, LeftFound
<1>2. l.time \in Times /\ l.time \in Nat /\ l.time < t
  BY <1>0, <1>1, JoinAssumption DEF Typed, LeftVersion, Times
<1>3. <<i, l.time>> \in Before(<<i, t>>)
  <2>1. LeftAt(<<i, l.time>>) # NoVersion
    BY <1>1, <1>2, LeftFound
  <2>2. <<i, l.time>> \in Ticks
    BY <1>1 DEF Ticks
  <2> QED BY <1>2, <2>1, <2>2 DEF Before
<1> DEFINE moments == {other[2] : other \in Before(<<i, t>>)}
<1>4. moments # {} /\ moments \subseteq 0 .. t
  <2>1. \A other \in Before(<<i, t>>) : other[2] \in Times /\ other[2] < t
    BY TicksTyped DEF Before
  <2> QED BY <1>0, <1>3, <2>1, JoinAssumption DEF Times
<1>5. \E n \in moments : \A m \in moments : m <= n
  <2> HIDE DEF moments
  <2> QED BY <1>0, <1>4, Greatest
<1> QED BY <1>5

\* What is reported as a change is one: the row in effect a moment before was another.
LEMMA ReportedIsChange ==
    ASSUME Typed, NEW i \in Items, NEW t \in Times, <<i, t>> \in Changes,
           LeftAt(<<i, t - 1>>) # NoVersion
    PROVE  Columns(<<i, t - 1>>) # Columns(<<i, t>>)
<1>1. PICK last \in Before(<<i, t>>) : \A other \in Before(<<i, t>>) : other[2] <= last[2]
  BY LastTickFound
<1>2. Columns(last) # Columns(<<i, t>>)
  BY <1>1 DEF Changes, Changed
<1>3. Columns(last) = Columns(<<i, t - 1>>)
  BY <1>1, SinceLastTick
<1> QED BY <1>2, <1>3

\* Every change is reported, and has a tick of its own.
LEMMA ChangeIsReported ==
    ASSUME Typed, NEW i \in Items, NEW t \in Times, LeftAt(<<i, t>>) # NoVersion,
           \/ LeftAt(<<i, t - 1>>) = NoVersion
           \/ Columns(<<i, t - 1>>) # Columns(<<i, t>>)
    PROVE  <<i, t>> \in Changes
<1>0. t \in Nat /\ t - 1 \in Nat /\ t - 1 <= t
  BY JoinAssumption DEF Times
<1>1. <<i, t>> \in Ticks
  <2> SUFFICES ASSUME <<i, t>> \notin Ticks PROVE FALSE
    OBVIOUS
  <2>1. \A u \in (t - 1) + 1 .. t : <<i, u>> \notin Ticks
    <3>1. \A u \in (t - 1) + 1 .. t : u = t
      BY <1>0
    <3> QED BY <3>1
  <2>2. LeftAt(<<i, t - 1>>) = LeftAt(<<i, t>>) /\ Columns(<<i, t - 1>>) = Columns(<<i, t>>)
    BY <1>0, <2>1, QuietStretch
  <2> QED BY <2>2
<1>2. Changed(<<i, t>>)
  <2> SUFFICES ASSUME NEW last \in Before(<<i, t>>),
                      \A other \in Before(<<i, t>>) : other[2] <= last[2]
               PROVE  Columns(last) # Columns(<<i, t>>)
    BY DEF Changed
  <2>1. /\ LeftAt(last) = LeftAt(<<i, t - 1>>) /\ LeftAt(last) # NoVersion
        /\ Columns(last) = Columns(<<i, t - 1>>)
    BY SinceLastTick
  <2> QED BY <2>1
<1> QED BY <1>1, <1>2 DEF Changes

\* The comparison with the tick before finds what stepping through every moment finds.
LEMMA EveryChange == ASSUME Typed PROVE JoinIsEveryChange
<1>1. Changes \subseteq Items \X Times
  BY TicksTyped DEF Changes
<1>2. ASSUME NEW i \in Items, NEW t \in Times
      PROVE  <<i, t>> \in Changes <=>
                /\ LeftAt(<<i, t>>) # NoVersion
                /\ \/ t = 1
                   \/ LeftAt(<<i, t - 1>>) = NoVersion
                   \/ Columns(<<i, t - 1>>) # Columns(<<i, t>>)
  <2>1. t = 1 => LeftAt(<<i, t - 1>>) = NoVersion
    BY NothingAtFirst
  <2>2. <<i, t>> \in Changes => LeftAt(<<i, t>>) # NoVersion
    BY DEF Changes
  <2> QED BY <2>1, <2>2, ReportedIsChange, ChangeIsReported
<1> QED BY <1>1, <1>2 DEF JoinIsEveryChange

\* For any histories, however they grew: the table has a row for exactly the moments at which
\* the item, or what it points to at that moment, changed (temporal_join.py:3-6, 18-21).
THEOREM JoinCorrect == JoinSpec => []JoinIsEveryChange
<1>1. JoinInit => Typed
  BY TypedInit
<1>2. Typed /\ [JoinNext]_joinVars => Typed'
  BY TypedStep
<1>3. Typed => JoinIsEveryChange
  BY EveryChange
<1> QED BY <1>1, <1>2, <1>3, PTL DEF JoinSpec

-----------------------------------------------------------------------------
(* What is known of the past.                                              *)

\* It holds after a step as before it.
LEMMA EveryChangeAfter == Typed' => JoinIsEveryChange'
<1>1. Typed => JoinIsEveryChange
  BY EveryChange
<1> QED BY <1>1, PTL

\* A step records one version.
LEMMA OneVersion ==
    ASSUME Typed, JoinNext, NEW version \in (left' \cup right') \ (left \cup right)
    PROVE  /\ left \subseteq left' /\ left' \ left \subseteq {version}
           /\ right \subseteq right' /\ right' \ right \subseteq {version}
           /\ version.time \in Times
<1>1. ASSUME NEW added \in LeftVersion, RecordLeft(added)
      PROVE  /\ left \subseteq left' /\ left' \ left \subseteq {version}
             /\ right \subseteq right' /\ right' \ right \subseteq {version}
             /\ version.time \in Times
  BY <1>1 DEF RecordLeft, LeftVersion
<1>2. ASSUME NEW added \in RightVersion, RecordRight(added)
      PROVE  /\ left \subseteq left' /\ left' \ left \subseteq {version}
             /\ right \subseteq right' /\ right' \ right \subseteq {version}
             /\ version.time \in Times
  BY <1>2 DEF RecordRight, RightVersion
<1> QED BY <1>1, <1>2 DEF JoinNext

\* A lookup at an earlier moment does not meet the version.
LEMMA PastLookup ==
    ASSUME Typed, Typed', NEW version, version.time \in Times,
           left \subseteq left', left' \ left \subseteq {version},
           right \subseteq right', right' \ right \subseteq {version},
           NEW i \in Items, NEW t \in Nat, t < version.time
    PROVE  LeftAt(<<i, t>>)' = LeftAt(<<i, t>>) /\ Columns(<<i, t>>)' = Columns(<<i, t>>)
<1>0. ~(version.time <= t)
  BY JoinAssumption DEF Times
<1>1. LeftAt(<<i, t>>)' = LeftAt(<<i, t>>)
  <2> DEFINE before == {l \in left : l.item = i}
             after == {l \in left' : l.item = i}
  <2>1. {l \in before : l.time <= t} = {l \in after : l.time <= t}
    BY <1>0
  <2>2. Latest(before, t) = Latest(after, t)
    BY <2>1, LatestSame
  <2> QED BY <2>2 DEF LeftAt
<1>2. RightAt(<<i, t>>)' = RightAt(<<i, t>>)
  <2> DEFINE found == LeftAt(<<i, t>>)
             before == {r \in right : found # NoVersion /\ r.joins = found.joins}
             after == {r \in right' : found # NoVersion /\ r.joins = found.joins}
  <2>1. {r \in before : r.time <= t} = {r \in after : r.time <= t}
    BY <1>0
  <2>2. Latest(before, t) = Latest(after, t)
    BY <2>1, LatestSame
  <2> QED BY <1>1, <2>2 DEF RightAt
<1> QED BY <1>1, <1>2 DEF Columns

\* A version that arrives, however late, leaves the table as it was before its time.
LEMMA PastStaysStep == Typed /\ [JoinNext]_joinVars => [PastStays]_joinVars
<1> SUFFICES ASSUME Typed, JoinNext, NEW version \in (left' \cup right') \ (left \cup right)
             PROVE  {row \in Joined' : row[1][2] < version.time}
                    = {row \in Joined : row[1][2] < version.time}
  BY DEF PastStays
<1>1. Typed'
  BY TypedStep
<1>2. /\ left \subseteq left' /\ left' \ left \subseteq {version}
      /\ right \subseteq right' /\ right' \ right \subseteq {version}
      /\ version.time \in Times
  BY OneVersion
<1>3. ASSUME NEW i \in Items, NEW t \in Nat, t < version.time
      PROVE  LeftAt(<<i, t>>)' = LeftAt(<<i, t>>) /\ Columns(<<i, t>>)' = Columns(<<i, t>>)
  BY <1>1, <1>2, <1>3, PastLookup
<1>4. JoinIsEveryChange /\ JoinIsEveryChange'
  BY <1>1, EveryChange, EveryChangeAfter
<1>5. Changes \subseteq Items \X Times /\ Changes' \subseteq Items \X Times
  BY <1>4 DEF JoinIsEveryChange
<1>6. ASSUME NEW i \in Items, NEW t \in Times, t < version.time
      PROVE  (<<i, t>> \in Changes)' <=> <<i, t>> \in Changes
  <2>1. t \in Nat /\ t - 1 \in Nat /\ t - 1 < version.time
    BY <1>2, <1>6, JoinAssumption DEF Times
  <2>2. /\ LeftAt(<<i, t>>)' = LeftAt(<<i, t>>) /\ Columns(<<i, t>>)' = Columns(<<i, t>>)
        /\ LeftAt(<<i, t - 1>>)' = LeftAt(<<i, t - 1>>)
        /\ Columns(<<i, t - 1>>)' = Columns(<<i, t - 1>>)
    BY <1>3, <1>6, <2>1
  <2> QED BY <1>4, <2>2 DEF JoinIsEveryChange
<1>7. ASSUME NEW i \in Items, NEW t \in Times, t < version.time
      PROVE  Columns(<<i, t>>)' = Columns(<<i, t>>)
  BY <1>3, <1>7, JoinAssumption DEF Times
<1> QED BY <1>5, <1>6, <1>7 DEF Joined

\* Whatever arrives late, what has been read of the past changes only if the past does: a
\* version leaves every row before its own time as it is.
THEOREM PastIsSettled == JoinSpec => PastIsKept
<1>1. JoinInit => Typed
  BY TypedInit
<1>2. Typed /\ [JoinNext]_joinVars => Typed'
  BY TypedStep
<1>3. Typed /\ [JoinNext]_joinVars => [PastStays]_joinVars
  BY PastStaysStep
<1> QED BY <1>1, <1>2, <1>3, PTL DEF JoinSpec, PastIsKept

-----------------------------------------------------------------------------
(* Lineage: depths.  The recursion goes over calls, and every call of a    *)
(* call is a smaller one: it has more models above it, or as many and      *)
(* fewer still to ask.                                                     *)

\* A set of numbers that has 0 and with each number the next has all of them.
LEMMA AllNumbers ==
    ASSUME NEW P \in SUBSET Nat, 0 \in P, \A n \in P : n + 1 \in P
    PROVE  \A n \in Nat : n \in P
<1> DEFINE T == Nat \ P
<1>1. SUFFICES ASSUME T # {} PROVE FALSE
  OBVIOUS
<1>2. PICK n \in T : \A m \in T : ~(m < n)
  <2>1. T \subseteq Nat
    OBVIOUS
  <2> HIDE DEF T
  <2>2. \E n \in T : \A m \in T : ~(<<m, n>> \in OpToRel(<, Nat))
    BY <1>1, <2>1, NatLessThanWellFounded, WFMin
  <2> QED BY <2>1, <2>2 DEF OpToRel
<1>3. n - 1 \in Nat /\ n - 1 < n
  BY <1>2
<1> QED BY <1>2, <1>3, (n - 1) + 1 = n

\* The export is a list of models.
OrderTyped == order \in Seq(Models)

\* Only models are exported.
LEMMA OrderTypedInit == LineageInit => OrderTyped
  BY DEF LineageInit, OrderTyped

\* No step puts anything else on the list.
LEMMA OrderTypedStep == OrderTyped /\ [LineageNext]_lineageVars => OrderTyped'
  BY DEF OrderTyped, LineageNext, ExportModel, ExportDependency, lineageVars

\* There are finitely many models in the export, and they are numbers.
LEMMA KnownFinite ==
    ASSUME OrderTyped
    PROVE  /\ Len(order) \in Nat /\ \A i \in 1 .. Len(order) : order[i] \in Known
           /\ Known \subseteq Nat
           /\ IsFiniteSet(Known) /\ Cardinality(Known) \in Nat
<1>1. Len(order) \in Nat /\ \A i \in 1 .. Len(order) : order[i] \in Models
  BY LenProperties, ElementOfSeq DEF OrderTyped
<1> DEFINE f == [i \in 1 .. Len(order) |-> order[i]]
<1>2. f \in Surjection(1 .. Len(order), Known)
  BY DEF Known, Surjection
<1>3. IsFiniteSet(1 .. Len(order))
  BY <1>1, FS_Interval
<1>4. IsFiniteSet(Known)
  BY <1>2, <1>3, FS_Surjection
<1> QED BY <1>1, <1>4, FS_CardinalityType, LineageAssumption DEF Known

Memos == [Known -> Nat \cup {None}]
Answers == [depths : Memos, answer : Nat \cup {None}]

First(c) == CHOOSE m \in c.models : \A p \in c.models : m <= p
Behind(c, m) == [depths |-> c.depths, models |-> Parents(m), seen |-> c.seen \cup {m}]
Rest(c, m, own) == [depths |-> own.depths, models |-> c.models \ {m}, seen |-> c.seen]

Size(c) == Cardinality(Known \ c.seen) * (Cardinality(Known) + 1) + Cardinality(c.models)

\* The calls of a call.
LEMMA CallsOfCall ==
    ASSUME NEW c \in Calls, NEW m \in c.models
    PROVE  /\ m \in Known
           /\ c.depths \in Memos /\ c.models \in SUBSET Known /\ c.seen \in SUBSET Known
           /\ Behind(c, m) \in Calls
           /\ \A own \in Answers : Rest(c, m, own) \in Calls
  BY DEF Calls, Behind, Rest, Answers, Memos, Parents

\* How large a call is, in the numbers of its models and of those not above it.
LEMMA Sizes ==
    ASSUME OrderTyped, NEW c \in Calls
    PROVE  /\ Cardinality(Known \ c.seen) \in Nat /\ Cardinality(c.models) \in Nat
           /\ Cardinality(c.models) <= Cardinality(Known)
           /\ Size(c) \in Nat
<1>1. c.models \in SUBSET Known /\ Known \ c.seen \in SUBSET Known
  BY DEF Calls
<1>2. /\ IsFiniteSet(c.models) /\ Cardinality(c.models) <= Cardinality(Known)
      /\ IsFiniteSet(Known \ c.seen)
  BY <1>1, KnownFinite, FS_Subset
<1>3. Cardinality(Known \ c.seen) \in Nat /\ Cardinality(c.models) \in Nat
  BY <1>2, FS_CardinalityType
<1> QED BY <1>2, <1>3, KnownFinite DEF Size

\* The size of a call is a number.
LEMMA SizesAreNumbers == OrderTyped => \A c \in Calls : Size(c) \in Nat
  BY Sizes

\* A model that is asked for has one model less left above it, so its parents are a smaller
\* call, however many they are.
LEMMA BehindIsSmaller ==
    ASSUME OrderTyped, NEW c \in Calls, NEW m \in c.models, m \notin c.seen
    PROVE  Size(Behind(c, m)) < Size(c)
<1>1. m \in Known /\ Behind(c, m) \in Calls
  BY CallsOfCall
<1> DEFINE above == Cardinality(Known \ c.seen)
           w == Cardinality(Known) + 1
<1>2. Cardinality(Known \ Behind(c, m).seen) = above - 1
  <2>1. Known \ Behind(c, m).seen = (Known \ c.seen) \ {m}
    BY DEF Behind
  <2>2. IsFiniteSet(Known \ c.seen)
    BY KnownFinite, FS_Difference
  <2> QED BY <1>1, <2>1, <2>2, FS_RemoveElement
<1>3. /\ above \in Nat /\ above - 1 \in Nat /\ w \in Nat
      /\ Cardinality(Behind(c, m).models) \in Nat /\ Cardinality(c.models) \in Nat
      /\ Cardinality(Behind(c, m).models) < w
  BY <1>1, <1>2, Sizes, KnownFinite
<1>4. Size(c) = above * w + Cardinality(c.models)
  BY DEF Size
<1>5. Size(Behind(c, m)) = (above - 1) * w + Cardinality(Behind(c, m).models)
  BY <1>2 DEF Size
<1> HIDE DEF above, w
<1>6. (above - 1) * w = above * w - w
  BY <1>3
<1> QED BY <1>3, <1>4, <1>5, <1>6

\* What is left to ask has one model less.
LEMMA RestIsSmaller ==
    ASSUME OrderTyped, NEW c \in Calls, NEW m \in c.models, NEW own \in Answers
    PROVE  Size(Rest(c, m, own)) < Size(c)
<1>1. IsFiniteSet(c.models)
  BY KnownFinite, FS_Subset, CallsOfCall
<1>2. Cardinality(c.models \ {m}) = Cardinality(c.models) - 1
  BY <1>1, FS_RemoveElement
<1>3. Rest(c, m, own).seen = c.seen /\ Rest(c, m, own).models = c.models \ {m}
  BY DEF Rest
<1> DEFINE above == Cardinality(Known \ c.seen) * (Cardinality(Known) + 1)
<1>4. above \in Int /\ Cardinality(c.models) \in Nat
  BY Sizes, KnownFinite
<1>5. Size(c) = above + Cardinality(c.models)
  BY DEF Size
<1>6. Size(Rest(c, m, own)) = above + (Cardinality(c.models) - 1)
  BY <1>2, <1>3 DEF Size
<1> HIDE DEF above
<1> QED BY <1>4, <1>5, <1>6

\* Models are asked in their order: there is a first one.
LEMMA FirstFound ==
    ASSUME OrderTyped, NEW c \in Calls, c.models # {}
    PROVE  First(c) \in c.models
<1> DEFINE S == c.models
<1>1. S \subseteq Nat /\ S # {}
  BY KnownFinite DEF Calls
<1>2. \E n \in S : \A m \in S : n <= m
  <2> HIDE DEF S
  <2>1. \E n \in S : \A m \in S : ~(<<m, n>> \in OpToRel(<, Nat))
    BY <1>1, NatLessThanWellFounded, WFMin
  <2>2. PICK n \in S : \A m \in S : ~(m < n)
    BY <1>1, <2>1 DEF OpToRel
  <2> QED BY <1>1, <2>2
<1> QED BY <1>2 DEF First

\* The answer for one model: remembered, being asked for, or one more than its parents.
Owns(c, m, behind, own) ==
    \/ /\ c.depths[m] # None
       /\ own = [depths |-> c.depths, answer |-> c.depths[m]]
    \/ /\ c.depths[m] = None /\ m \in c.seen
       /\ own = [depths |-> c.depths, answer |-> 0]
    \/ /\ c.depths[m] = None /\ m \notin c.seen
       /\ own = [depths |-> [behind.depths EXCEPT ![m] = behind.answer + 1],
                 answer |-> behind.answer + 1]

\* depth takes one of these three ways.
LEMMA DepthOwns ==
    ASSUME NEW c \in Calls, NEW m \in c.models, NEW behind
    PROVE  Owns(c, m, behind, Depth(c, m, behind))
  BY DEF Owns, Depth

\* The answer for one model is an answer, if that for its parents is.
LEMMA OwnTyped ==
    ASSUME NEW c \in Calls, NEW m \in c.models, NEW behind, NEW own,
           Owns(c, m, behind, own), m \notin c.seen => behind \in Answers
    PROVE  own \in Answers
<1>1. m \in Known /\ c.depths \in Memos
  BY CallsOfCall
<1>2. CASE c.depths[m] # None
  <2>1. own = [depths |-> c.depths, answer |-> c.depths[m]]
    BY <1>2 DEF Owns
  <2> QED BY <1>1, <2>1 DEF Answers, Memos
<1>3. CASE c.depths[m] = None /\ m \in c.seen
  <2>1. own = [depths |-> c.depths, answer |-> 0]
    BY <1>3 DEF Owns
  <2> QED BY <1>1, <2>1 DEF Answers, Memos
<1>4. CASE c.depths[m] = None /\ m \notin c.seen
  <2>1. own = [depths |-> [behind.depths EXCEPT ![m] = behind.answer + 1],
               answer |-> behind.answer + 1]
    BY <1>4 DEF Owns
  <2>2. behind.depths \in Memos /\ behind.answer + 1 \in Nat
    BY <1>4 DEF Answers, None
  <2>3. [behind.depths EXCEPT ![m] = behind.answer + 1] \in Memos
    BY <1>1, <2>2 DEF Memos
  <2> QED BY <2>1, <2>2, <2>3 DEF Answers
<1> QED BY <1>2, <1>3, <1>4

\* What a call answers, `ask` being asked for its calls, once its first model is `m` and the
\* answer for that model `own`.
Combined(ask, c, m, own) ==
    [depths |-> ask[Rest(c, m, own)].depths,
     answer |-> IF own.answer > ask[Rest(c, m, own)].answer
                THEN own.answer ELSE ask[Rest(c, m, own)].answer]

\* A call of no models changes nothing, any other asks for its first.
LEMMA DeepestUnfolds ==
    ASSUME NEW ask, NEW c
    PROVE  /\ c.models = {} => Deepest(ask, c) = [depths |-> c.depths, answer |-> None]
           /\ c.models # {} =>
                 LET m == First(c)
                     own == Depth(c, m, ask[Behind(c, m)])
                 IN  Deepest(ask, c) = Combined(ask, c, m, own)
  BY DEF Deepest, Combined, First, Behind, Rest

\* It is an answer, and depends on smaller calls alone.
LEMMA DeepestOf ==
    ASSUME OrderTyped, NEW c \in Calls, NEW g, NEW h,
           \A d \in Calls : Size(d) < Size(c) => g[d] \in Answers /\ h[d] = g[d]
    PROVE  Deepest(g, c) \in Answers /\ Deepest(h, c) = Deepest(g, c)
<1>1. CASE c.models = {}
  BY <1>1, DeepestUnfolds DEF Answers, Calls, Memos
<1>2. CASE c.models # {}
  <2> DEFINE m == First(c)
             own(ask) == Depth(c, m, ask[Behind(c, m)])
  <2>1. m \in c.models
    BY <1>2, FirstFound
  <2>2. Deepest(g, c) = Combined(g, c, m, own(g)) /\ Deepest(h, c) = Combined(h, c, m, own(h))
    BY <1>2, DeepestUnfolds
  <2> HIDE DEF m
  <2>3. m \notin c.seen => g[Behind(c, m)] \in Answers /\ h[Behind(c, m)] = g[Behind(c, m)]
    BY <2>1, BehindIsSmaller, CallsOfCall
  <2>4. Owns(c, m, g[Behind(c, m)], own(g)) /\ Owns(c, m, h[Behind(c, m)], own(h))
    BY <2>1, DepthOwns
  <2>5. own(g) \in Answers
    BY <2>1, <2>3, <2>4, OwnTyped
  <2>6. own(h) = own(g)
    BY <2>3 DEF Depth
  <2> HIDE DEF own
  <2>7. /\ g[Rest(c, m, own(g))] \in Answers
        /\ h[Rest(c, m, own(g))] = g[Rest(c, m, own(g))]
    BY <2>1, <2>5, RestIsSmaller, CallsOfCall
  <2>8. Deepest(h, c) = Deepest(g, c)
    BY <2>2, <2>6, <2>7 DEF Combined
  <2>9. Combined(g, c, m, own(g)) \in Answers
    BY <2>5, <2>7 DEF Combined, Answers
  <2> QED BY <2>2, <2>8, <2>9
<1> QED BY <1>1, <1>2

\* The recursion, as far as calls of a size below n.
Below(n) == {c \in Calls : Size(c) < n}
AskedTo(n, ask) ==
    /\ ask = [c \in Below(n) |-> Deepest(ask, c)]
    /\ \A c \in Below(n) : ask[c] \in Answers

\* As far as any size the recursion has a solution.
LEMMA AsksExist ==
    ASSUME OrderTyped, NEW n \in Nat
    PROVE  \E ask : AskedTo(n, ask)
<1> DEFINE P == {k \in Nat : \E ask : AskedTo(k, ask)}
<1>1. 0 \in P
  <2>1. Below(0) = {}
    BY SizesAreNumbers DEF Below
  <2>2. AskedTo(0, [c \in {} |-> 0])
    BY <2>1 DEF AskedTo
  <2> QED BY <2>2
<1>2. ASSUME NEW k \in P PROVE k + 1 \in P
  <2>1. PICK ask : AskedTo(k, ask)
    OBVIOUS
  <2> DEFINE more == [c \in Below(k + 1) |-> Deepest(ask, c)]
  <2>2. ASSUME NEW c \in Below(k + 1)
        PROVE  more[c] = Deepest(more, c) /\ more[c] \in Answers
    <3>1. c \in Calls /\ Size(c) \in Nat /\ Size(c) < k + 1
      BY SizesAreNumbers DEF Below
    <3>2. ASSUME NEW d \in Calls, Size(d) < Size(c)
          PROVE  ask[d] \in Answers /\ more[d] = ask[d]
      <4>1. Size(d) < k /\ Size(d) < k + 1
        BY <3>1, <3>2, SizesAreNumbers
      <4>2. d \in Below(k) /\ d \in Below(k + 1)
        BY <4>1 DEF Below
      <4>3. ask[d] \in Answers /\ ask[d] = Deepest(ask, d)
        BY <2>1, <4>2 DEF AskedTo
      <4> QED BY <4>2, <4>3
    <3>3. more[c] = Deepest(ask, c)
      OBVIOUS
    <3> HIDE DEF more
    <3> QED BY <3>1, <3>2, <3>3, DeepestOf
  <2>3. more = [c \in Below(k + 1) |-> more[c]]
    OBVIOUS
  <2> HIDE DEF more
  <2>4. AskedTo(k + 1, more)
    BY <2>2, <2>3 DEF AskedTo
  <2> QED BY <2>4
<1> HIDE DEF P
<1>3. P \in SUBSET Nat
  BY DEF P
<1>4. n \in P
  BY <1>1, <1>2, <1>3, AllNumbers
<1> QED BY <1>4 DEF P

\* So every call has an answer, which is what the code computes from those of its calls.
LEMMA EveryCallIsAnswered ==
    ASSUME OrderTyped
    PROVE  \A c \in Calls : Ask[c] = Deepest(Ask, c) /\ Ask[c] \in Answers
<1> DEFINE all == Cardinality(Known)
           n == all * (all + 1) + all + 1
<1>1. n \in Nat /\ all \in Nat
  BY KnownFinite
<1>2. Below(n) = Calls
  <2>1. ASSUME NEW c \in Calls PROVE Size(c) < n
    <3> DEFINE a == Cardinality(Known \ c.seen)
               q == Cardinality(c.models)
    <3>1. a \in Nat /\ q \in Nat /\ q <= all /\ a <= all
      BY Sizes, KnownFinite, FS_Subset, Known \ c.seen \in SUBSET Known
    <3>2. Size(c) = a * (all + 1) + q
      BY DEF Size
    <3>3. PICK b \in Nat : all = a + b
      <4>1. all - a \in Nat /\ all = a + (all - a)
        BY <1>1, <3>1
      <4> QED BY <4>1
    <3> HIDE DEF a, q
    <3>4. a * (all + 1) \in Nat /\ b * (all + 1) \in Nat
      BY <1>1, <3>1, <3>3
    <3>5. all * (all + 1) = a * (all + 1) + b * (all + 1)
      <4> HIDE DEF all
      <4> QED BY <1>1, <3>1, <3>3
    <3> HIDE DEF all
    <3> QED BY <1>1, <3>1, <3>2, <3>4, <3>5
  <2> QED BY <2>1 DEF Below
<1> HIDE DEF n
<1>3. PICK ask : AskedTo(n, ask)
  BY <1>1, AsksExist
<1> DEFINE Solves(f) == f = [c \in Calls |-> Deepest(f, c)]
<1>4. Ask = CHOOSE f : Solves(f)
  BY DEF Ask
<1>5. Solves(ask)
  BY <1>2, <1>3 DEF AskedTo
<1>6. Solves(Ask)
  <2> HIDE DEF Solves
  <2> QED BY <1>4, <1>5
<1>7. \A c \in Calls : Ask[c] = Deepest(Ask, c)
  BY <1>6
<1> DEFINE P == {k \in Nat : \A c \in Below(k) : Ask[c] \in Answers}
<1>8. 0 \in P
  BY SizesAreNumbers DEF Below
<1>9. ASSUME NEW k \in P PROVE k + 1 \in P
  <2>1. ASSUME NEW c \in Below(k + 1) PROVE Ask[c] \in Answers
    <3>1. c \in Calls /\ Size(c) \in Nat /\ Size(c) < k + 1
      BY SizesAreNumbers DEF Below
    <3>2. ASSUME NEW d \in Calls, Size(d) < Size(c) PROVE Ask[d] \in Answers
      <4>1. d \in Below(k)
        BY <3>1, <3>2, SizesAreNumbers DEF Below
      <4> QED BY <4>1
    <3> QED BY <1>7, <3>1, <3>2, DeepestOf
  <2> QED BY <2>1
<1> HIDE DEF P
<1>10. n \in P
  BY <1>1, <1>8, <1>9, AllNumbers, P \in SUBSET Nat DEF P
<1> QED BY <1>2, <1>7, <1>10 DEF P

\* A set of calls that has every call all of whose calls it has, has all of them.
LEMMA EveryCall ==
    ASSUME OrderTyped, NEW P \in SUBSET Calls,
           \A c \in Calls : (\A d \in Calls : Size(d) < Size(c) => d \in P) => c \in P
    PROVE  \A c \in Calls : c \in P
<1> DEFINE Q == {k \in Nat : \A c \in Calls : Size(c) < k => c \in P}
<1>1. 0 \in Q
  BY SizesAreNumbers
<1>2. ASSUME NEW k \in Q PROVE k + 1 \in Q
  <2>1. ASSUME NEW c \in Calls, Size(c) < k + 1 PROVE c \in P
    <3>1. ASSUME NEW d \in Calls, Size(d) < Size(c) PROVE d \in P
      BY <2>1, <3>1, SizesAreNumbers
    <3> QED BY <3>1
  <2> QED BY <2>1
<1>3. Q \in SUBSET Nat
  OBVIOUS
<1>4. \A k \in Nat : k \in Q
  <2> HIDE DEF Q
  <2> QED BY <1>1, <1>2, <1>3, AllNumbers
<1>5. ASSUME NEW c \in Calls PROVE c \in P
  <2>1. Size(c) + 1 \in Q /\ Size(c) < Size(c) + 1
    BY <1>4, SizesAreNumbers
  <2> QED BY <2>1
<1> QED BY <1>5

\* How a call of models comes to its answer: that for the first of them, and for the rest.
AnsweredBy(c, m, own) ==
    /\ m \in c.models /\ own \in Answers /\ Ask[c] \in Answers
    /\ Owns(c, m, Ask[Behind(c, m)], own)
    /\ Behind(c, m) \in Calls /\ Rest(c, m, own) \in Calls
    /\ m \notin c.seen =>
          Ask[Behind(c, m)] \in Answers /\ Size(Behind(c, m)) < Size(c)
    /\ Ask[Rest(c, m, own)] \in Answers /\ Size(Rest(c, m, own)) < Size(c)
    /\ Ask[c] = Combined(Ask, c, m, own)

\* Every call of models comes to its answer so.
LEMMA Answered ==
    ASSUME OrderTyped, NEW c \in Calls, c.models # {}
    PROVE  \E m, own : AnsweredBy(c, m, own)
<1> DEFINE m == First(c)
           own == Depth(c, m, Ask[Behind(c, m)])
<1>1. m \in c.models
  BY FirstFound
<1>2. Ask[c] = Deepest(Ask, c) /\ Ask[c] \in Answers
  BY EveryCallIsAnswered
<1>3. Deepest(Ask, c) = Combined(Ask, c, m, own)
  BY DeepestUnfolds
<1> HIDE DEF m
<1>4. Owns(c, m, Ask[Behind(c, m)], own)
  BY <1>1, DepthOwns
<1> HIDE DEF own
<1>5. Behind(c, m) \in Calls
  BY <1>1, CallsOfCall
<1>6. Ask[Behind(c, m)] \in Answers
  BY <1>5, EveryCallIsAnswered
<1>7. own \in Answers
  BY <1>1, <1>4, <1>6, OwnTyped
<1>8. Rest(c, m, own) \in Calls
  BY <1>1, <1>7, CallsOfCall
<1>9. Ask[Rest(c, m, own)] \in Answers
  BY <1>8, EveryCallIsAnswered
<1>10. Size(Rest(c, m, own)) < Size(c) /\ (m \notin c.seen => Size(Behind(c, m)) < Size(c))
  BY <1>1, <1>7, RestIsSmaller, BehindIsSmaller
<1>11. AnsweredBy(c, m, own)
  BY <1>1, <1>2, <1>3, <1>4, <1>5, <1>6, <1>7, <1>8, <1>9, <1>10 DEF AnsweredBy
<1> QED BY <1>11

\* A call of no models changes nothing.
LEMMA NoneAsked ==
    ASSUME OrderTyped, NEW c \in Calls, c.models = {}
    PROVE  Ask[c].depths = c.depths /\ Ask[c].answer = None
<1>1. Ask[c] = [depths |-> c.depths, answer |-> None]
  BY EveryCallIsAnswered, DeepestUnfolds
<1> QED BY <1>1

\* The three ways a model comes to its answer.
OwnMemo(c, m, own) ==
    c.depths[m] # None /\ own = [depths |-> c.depths, answer |-> c.depths[m]]
OwnSeen(c, m, own) ==
    c.depths[m] = None /\ m \in c.seen /\ own = [depths |-> c.depths, answer |-> 0]
OwnNew(c, m, own) ==
    /\ c.depths[m] = None /\ m \notin c.seen
    /\ own = [depths |-> [Ask[Behind(c, m)].depths EXCEPT ![m] = Ask[Behind(c, m)].answer + 1],
              answer |-> Ask[Behind(c, m)].answer + 1]

\* What that means, one fact at a time.
LEMMA AnswerCases ==
    ASSUME NEW c \in Calls, NEW m, NEW own, AnsweredBy(c, m, own)
    PROVE  /\ m \in c.models /\ m \in Known
           /\ OwnMemo(c, m, own) \/ OwnSeen(c, m, own) \/ OwnNew(c, m, own)
           /\ Ask[c].depths = Ask[Rest(c, m, own)].depths
           /\ Ask[c].answer = IF own.answer > Ask[Rest(c, m, own)].answer
                              THEN own.answer ELSE Ask[Rest(c, m, own)].answer
           /\ own.answer \in Nat \cup {None} /\ Ask[Rest(c, m, own)].answer \in Nat \cup {None}
           /\ own.depths \in Memos /\ c.depths \in Memos
           /\ Ask[Rest(c, m, own)].depths \in Memos
<1>1. m \in c.models /\ m \in Known /\ c.depths \in Memos
  BY CallsOfCall DEF AnsweredBy
<1>2. OwnMemo(c, m, own) \/ OwnSeen(c, m, own) \/ OwnNew(c, m, own)
  BY DEF AnsweredBy, Owns, OwnMemo, OwnSeen, OwnNew
<1>3. Ask[c] = Combined(Ask, c, m, own)
  BY DEF AnsweredBy
<1>4. /\ Ask[c].depths = Ask[Rest(c, m, own)].depths
      /\ Ask[c].answer = IF own.answer > Ask[Rest(c, m, own)].answer
                         THEN own.answer ELSE Ask[Rest(c, m, own)].answer
  BY <1>3 DEF Combined
<1>5. /\ own.answer \in Nat \cup {None} /\ Ask[Rest(c, m, own)].answer \in Nat \cup {None}
      /\ own.depths \in Memos /\ Ask[Rest(c, m, own)].depths \in Memos
  BY DEF AnsweredBy, Answers
<1> QED BY <1>1, <1>2, <1>4, <1>5

-----------------------------------------------------------------------------
(* Lineage: what a call leaves.                                            *)

\* What is remembered stays, what is being asked for is not touched, and what was asked for
\* is remembered unless it is being asked for.
Keeps(c) ==
    /\ \A x \in Known : c.depths[x] # None \/ x \in c.seen => Ask[c].depths[x] = c.depths[x]
    /\ \A x \in c.models : x \in c.seen \/ Ask[c].depths[x] # None

\* Every call keeps what is remembered.
LEMMA CallsKeep ==
    ASSUME OrderTyped
    PROVE  \A c \in Calls : Keeps(c)
<1> DEFINE P == {c \in Calls : Keeps(c)}
<1>1. ASSUME NEW c \in Calls, \A d \in Calls : Size(d) < Size(c) => d \in P
      PROVE  c \in P
  <2>1. CASE c.models = {}
    <3>1. Ask[c].depths = c.depths
      BY <2>1, NoneAsked
    <3>2. Keeps(c)
      BY <2>1, <3>1 DEF Keeps
    <3> QED BY <3>2
  <2>2. CASE c.models # {}
    <3>1. PICK m, own : AnsweredBy(c, m, own)
      BY <2>2, Answered
    <3> DEFINE b == Behind(c, m)
               r == Rest(c, m, own)
    <3>2. /\ m \in c.models /\ m \in Known
          /\ OwnMemo(c, m, own) \/ OwnSeen(c, m, own) \/ OwnNew(c, m, own)
          /\ Ask[c].depths = Ask[r].depths
          /\ c.depths \in Memos /\ c.models \in SUBSET Known /\ c.seen \in SUBSET Known
      BY <3>1, AnswerCases, CallsOfCall
    <3>3. Keeps(r)
      BY <1>1, <3>1 DEF AnsweredBy
    <3>4. r.seen = c.seen /\ r.models = c.models \ {m} /\ r.depths = own.depths
      BY DEF Rest
    <3>5. /\ \A x \in Known : c.depths[x] # None \/ x \in c.seen => own.depths[x] = c.depths[x]
          /\ m \in c.seen \/ own.depths[m] # None
      <4>1. CASE OwnMemo(c, m, own)
        BY <4>1 DEF OwnMemo
      <4>2. CASE OwnSeen(c, m, own)
        BY <4>2 DEF OwnSeen
      <4>3. CASE OwnNew(c, m, own)
        <5>1. m \notin c.seen /\ c.depths[m] = None
          BY <4>3 DEF OwnNew
        <5>2. Keeps(b) /\ Ask[b] \in Answers
          BY <1>1, <3>1, <5>1 DEF AnsweredBy
        <5>3. b.depths = c.depths /\ b.seen = c.seen \cup {m}
          BY DEF Behind
        <5>4. own.depths = [Ask[b].depths EXCEPT ![m] = Ask[b].answer + 1]
          BY <4>3 DEF OwnNew
        <5>5. Ask[b].answer + 1 \in Nat /\ Ask[b].depths \in Memos
          BY <5>2 DEF Answers, None
        <5> HIDE DEF b, r
        <5>6. \A x \in Known : own.depths[x] = IF x = m THEN Ask[b].answer + 1 ELSE Ask[b].depths[x]
          BY <5>4, <5>5 DEF Memos
        <5>7. own.depths[m] # None
          BY <3>2, <5>5, <5>6 DEF None
        <5> QED BY <5>1, <5>2, <5>3, <5>6, <5>7 DEF Keeps
      <4> QED BY <3>2, <4>1, <4>2, <4>3
    <3> HIDE DEF b, r
    <3>6. Keeps(c)
      BY <3>2, <3>3, <3>4, <3>5 DEF Keeps
    <3> QED BY <3>6
  <2> QED BY <2>1, <2>2
<1> HIDE DEF P
<1>2. P \in SUBSET Calls
  BY DEF P
<1>3. \A c \in Calls : c \in P
  BY <1>1, <1>2, EveryCall
<1> QED BY <1>3 DEF P

\* The models with a depth, and no depth above their number.
Done(depths) == {x \in Known : depths[x] # None}
Bounded(depths) == \A x \in Done(depths) : depths[x] <= Cardinality(Done(depths))

Shallow(c) ==
    Bounded(c.depths) =>
        Bounded(Ask[c].depths) /\ Ask[c].answer <= Cardinality(Done(Ask[c].depths))

\* What is remembered grows.
LEMMA DoneGrows ==
    ASSUME OrderTyped, NEW old \in Memos, NEW new \in Memos,
           \A x \in Known : old[x] # None => new[x] = old[x]
    PROVE  /\ Cardinality(Done(old)) \in Nat /\ Cardinality(Done(new)) \in Nat
           /\ Cardinality(Done(old)) <= Cardinality(Done(new))
           /\ IsFiniteSet(Done(old))
<1>1. Done(old) \in SUBSET Done(new) /\ Done(new) \in SUBSET Known
  BY DEF Done
<1>2. IsFiniteSet(Done(new))
  BY <1>1, KnownFinite, FS_Subset
<1>3. IsFiniteSet(Done(old)) /\ Cardinality(Done(old)) <= Cardinality(Done(new))
  BY <1>1, <1>2, FS_Subset
<1> QED BY <1>2, <1>3, FS_CardinalityType

\* No call makes a depth greater than the number of models that have one.
LEMMA CallsAreShallow ==
    ASSUME OrderTyped
    PROVE  \A c \in Calls : Shallow(c)
<1> DEFINE P == {c \in Calls : Shallow(c)}
<1>1. ASSUME NEW c \in Calls, \A d \in Calls : Size(d) < Size(c) => d \in P
      PROVE  c \in P
  <2>1. SUFFICES ASSUME Bounded(c.depths)
                 PROVE  /\ Bounded(Ask[c].depths)
                        /\ Ask[c].answer <= Cardinality(Done(Ask[c].depths))
    BY DEF Shallow
  <2>2. CASE c.models = {}
    <3>1. Ask[c].depths = c.depths /\ Ask[c].answer = None
      BY <2>2, NoneAsked
    <3>2. c.depths \in Memos
      BY DEF Calls, Memos
    <3>3. Cardinality(Done(c.depths)) \in Nat
      BY <3>2, DoneGrows
    <3> QED BY <2>1, <3>1, <3>3 DEF None
  <2>3. CASE c.models # {}
    <3>1. PICK m, own : AnsweredBy(c, m, own)
      BY <2>3, Answered
    <3> DEFINE b == Behind(c, m)
               r == Rest(c, m, own)
    <3>2. /\ m \in Known
          /\ OwnMemo(c, m, own) \/ OwnSeen(c, m, own) \/ OwnNew(c, m, own)
          /\ Ask[c].depths = Ask[r].depths
          /\ Ask[c].answer = IF own.answer > Ask[r].answer THEN own.answer ELSE Ask[r].answer
          /\ own.answer \in Nat \cup {None} /\ Ask[r].answer \in Nat \cup {None}
          /\ own.depths \in Memos /\ c.depths \in Memos /\ Ask[r].depths \in Memos
      BY <3>1, AnswerCases
    <3>3. Shallow(r) /\ Keeps(r)
      BY <1>1, <3>1, CallsKeep DEF AnsweredBy
    <3>4. r.depths = own.depths
      BY DEF Rest
    <3>5. Bounded(own.depths) /\ own.answer <= Cardinality(Done(own.depths))
      <4>1. CASE OwnMemo(c, m, own)
        <5>1. own.depths = c.depths /\ own.answer = c.depths[m] /\ m \in Done(c.depths)
          BY <3>2, <4>1 DEF OwnMemo, Done
        <5> QED BY <2>1, <5>1 DEF Bounded
      <4>2. CASE OwnSeen(c, m, own)
        <5>1. own.depths = c.depths /\ own.answer = 0
          BY <4>2 DEF OwnSeen
        <5>2. Cardinality(Done(c.depths)) \in Nat
          BY <3>2, DoneGrows
        <5> QED BY <2>1, <5>1, <5>2
      <4>3. CASE OwnNew(c, m, own)
        <5>1. m \notin c.seen /\ c.depths[m] = None
          BY <4>3 DEF OwnNew
        <5>2. Shallow(b) /\ Keeps(b) /\ Ask[b] \in Answers
          BY <1>1, <3>1, <5>1, CallsKeep DEF AnsweredBy
        <5>3. b.depths = c.depths /\ b.seen = c.seen \cup {m}
          BY DEF Behind
        <5> DEFINE before == Ask[b].depths
                   a == Ask[b].answer
        <5>4. own.depths = [before EXCEPT ![m] = a + 1] /\ own.answer = a + 1
          BY <4>3 DEF OwnNew
        <5>5. a \in Nat \cup {None} /\ a + 1 \in Nat /\ before \in Memos
          BY <5>2 DEF Answers, None
        <5>6. Bounded(before) /\ a <= Cardinality(Done(before)) /\ before[m] = None
          BY <2>1, <3>2, <5>1, <5>2, <5>3 DEF Shallow, Keeps
        <5> HIDE DEF b, r, before, a
        <5>7. \A x \in Known : own.depths[x] = IF x = m THEN a + 1 ELSE before[x]
          BY <5>4, <5>5 DEF Memos
        <5>8. Done(own.depths) = Done(before) \cup {m} /\ m \notin Done(before)
          BY <3>2, <5>5, <5>6, <5>7 DEF Done, None
        <5>9. IsFiniteSet(Done(before)) /\ Cardinality(Done(before)) \in Nat
          BY <5>5, DoneGrows
        <5>10. Cardinality(Done(own.depths)) = Cardinality(Done(before)) + 1
          BY <5>8, <5>9, FS_AddElement
        <5>11. \A x \in Done(own.depths) : own.depths[x] <= Cardinality(Done(own.depths))
          <6>1. TAKE x \in Done(own.depths)
          <6>2. CASE x = m
            BY <3>2, <5>5, <5>6, <5>7, <5>9, <5>10, <6>2 DEF None
          <6>3. CASE x # m
            <7>1. x \in Done(before) /\ x \in Known /\ own.depths[x] = before[x]
              BY <5>7, <5>8, <6>1, <6>3 DEF Done
            <7>2. before[x] <= Cardinality(Done(before)) /\ before[x] \in Int
              BY <5>5, <5>6, <7>1 DEF Bounded, Memos, None
            <7> QED BY <5>9, <5>10, <7>1, <7>2
          <6> QED BY <6>2, <6>3
        <5>12. own.answer <= Cardinality(Done(own.depths))
          BY <5>4, <5>5, <5>6, <5>9, <5>10 DEF None
        <5> QED BY <5>11, <5>12 DEF Bounded
      <4> QED BY <3>2, <4>1, <4>2, <4>3
    <3>6. Bounded(Ask[r].depths) /\ Ask[r].answer <= Cardinality(Done(Ask[r].depths))
      BY <3>3, <3>4, <3>5 DEF Shallow
    <3>7. \A x \in Known : own.depths[x] # None => Ask[r].depths[x] = own.depths[x]
      BY <3>3, <3>4 DEF Keeps
    <3> HIDE DEF b, r
    <3>8. /\ Cardinality(Done(own.depths)) \in Nat /\ Cardinality(Done(Ask[r].depths)) \in Nat
          /\ Cardinality(Done(own.depths)) <= Cardinality(Done(Ask[r].depths))
      BY <3>2, <3>7, DoneGrows
    <3> QED BY <3>2, <3>5, <3>6, <3>8 DEF None
  <2> QED BY <2>2, <2>3
<1> HIDE DEF P
<1>2. P \in SUBSET Calls
  BY DEF P
<1>3. \A c \in Calls : c \in P
  BY <1>1, <1>2, EveryCall
<1> QED BY <1>3 DEF P

-----------------------------------------------------------------------------
(* Lineage: chains.                                                        *)

\* A chain of n models, each read by the next.
Chain(s, n) ==
    /\ n \in Nat \ {0} /\ s \in [1 .. n -> Known]
    /\ \A i, k \in 1 .. n : s[i] = s[k] => i = k
    /\ \A i \in 2 .. n : <<s[i - 1], s[i]>> \in Links

\* Such a chain is one of Chains, which are no longer than there are models.
LEMMA ChainIsInChains ==
    ASSUME OrderTyped, NEW n, NEW s, Chain(s, n)
    PROVE  s \in Chains /\ Len(s) = n /\ n <= Cardinality(Known)
<1>1. n \in Nat \ {0} /\ s \in [1 .. n -> Known]
  BY DEF Chain
<1>2. s \in Seq(Known) /\ Len(s) = n
  BY <1>1
<1>3. n <= Cardinality(Known)
  <2>1. SUFFICES ASSUME Cardinality(Known) < n PROVE FALSE
    BY <1>1, KnownFinite
  <2>2. IsFiniteSet(1 .. n) /\ Cardinality(1 .. n) = n
    BY <1>1, FS_Interval
  <2>3. s \in [1 .. n -> Known] /\ IsFiniteSet(Known) /\ Cardinality(Known) < n
    BY <1>1, <2>1, KnownFinite
  <2>4. \E i, k \in 1 .. n : i # k /\ s[i] = s[k]
    BY ONLY <2>2, <2>3, FS_PigeonHole
  <2> QED BY <2>4 DEF Chain
<1>4. n \in 1 .. Cardinality(Known)
  BY <1>1, <1>3, KnownFinite
<1>5. IsInjective(s)
  BY <1>1 DEF Chain, IsInjective
<1>6. \A i \in 2 .. Len(s) : <<s[i - 1], s[i]>> \in Links
  BY <1>2 DEF Chain
<1> QED BY <1>1, <1>2, <1>3, <1>4, <1>5, <1>6 DEF Chains

\* And so is every one of Chains.
LEMMA ChainsAreChain ==
    ASSUME OrderTyped, NEW s \in Chains
    PROVE  Chain(s, Len(s))
<1>1. PICK n \in 1 .. Cardinality(Known) : s \in [1 .. n -> Known]
  BY DEF Chains
<1>2. n \in Nat \ {0}
  BY KnownFinite
<1>3. Len(s) = n
  BY <1>1, <1>2
<1>4. IsInjective(s) /\ \A i \in 2 .. Len(s) : <<s[i - 1], s[i]>> \in Links
  BY DEF Chains
<1> QED BY <1>1, <1>2, <1>3, <1>4 DEF Chain, IsInjective

\* What is being asked for is a chain, and what it asks for is read by its first model.
Stack(c) ==
    \/ c.seen = {}
    \/ \E s, n : /\ Chain(s, n) /\ c.seen = {s[i] : i \in 1 .. n}
                 /\ \A m \in c.models : <<m, s[1]>> \in Links

\* Without cycles, a call never comes back to what is being asked for.
LEMMA NothingTwice ==
    ASSUME OrderTyped, Acyclic, NEW c \in Calls, Stack(c), NEW m \in c.models
    PROVE  m \notin c.seen
<1>1. SUFFICES ASSUME m \in c.seen PROVE FALSE
  OBVIOUS
<1>2. PICK s, n : /\ Chain(s, n) /\ c.seen = {s[i] : i \in 1 .. n}
                  /\ \A p \in c.models : <<p, s[1]>> \in Links
  BY <1>1 DEF Stack
<1>3. PICK j \in 1 .. n : m = s[j]
  BY <1>1, <1>2
<1> DEFINE t == [i \in 1 .. j |-> s[i]]
<1>4. n \in Nat \ {0} /\ j \in Nat \ {0} /\ j <= n
  BY <1>2, <1>3 DEF Chain
<1>5. Chain(t, j)
  <2>1. t \in [1 .. j -> Known]
    BY <1>2, <1>4 DEF Chain
  <2>2. \A i, k \in 1 .. j : t[i] = t[k] => i = k
    BY <1>2, <1>4 DEF Chain
  <2>3. \A i \in 2 .. j : <<t[i - 1], t[i]>> \in Links
    <3>1. TAKE i \in 2 .. j
    <3>2. i \in 2 .. n /\ i - 1 \in 1 .. j /\ i \in 1 .. j
      BY <1>4
    <3>3. t[i - 1] = s[i - 1] /\ t[i] = s[i]
      BY <3>2
    <3> QED BY <1>2, <3>2, <3>3 DEF Chain
  <2> QED BY <1>4, <2>1, <2>2, <2>3 DEF Chain
<1>6. t \in Chains /\ Len(t) = j
  BY <1>5, ChainIsInChains
<1>7. t[1] = s[1] /\ t[j] = m
  BY <1>3, <1>4
<1> HIDE DEF t
<1>8. <<t[j], t[1]>> \notin Links
  BY <1>6 DEF Acyclic
<1> QED BY <1>2, <1>7, <1>8

\* Asking the parents of a model puts it in front of the chain.
LEMMA StackGrows ==
    ASSUME OrderTyped, NEW c \in Calls, Stack(c), NEW m \in c.models, m \notin c.seen
    PROVE  Stack(Behind(c, m))
<1>1. m \in Known
  BY CallsOfCall
<1>2. Behind(c, m).seen = c.seen \cup {m} /\ Behind(c, m).models = Parents(m)
  BY DEF Behind
<1>3. \A p \in Parents(m) : <<p, m>> \in Links
  BY <1>1 DEF Parents, Links
<1>4. CASE c.seen = {}
  <2> DEFINE t == [i \in 1 .. 1 |-> m]
  <2>1. Chain(t, 1)
    BY <1>1 DEF Chain
  <2>2. {t[i] : i \in 1 .. 1} = {m} /\ t[1] = m
    OBVIOUS
  <2> HIDE DEF t
  <2> QED BY <1>2, <1>3, <1>4, <2>1, <2>2 DEF Stack
<1>5. CASE c.seen # {}
  <2>1. PICK s, n : /\ Chain(s, n) /\ c.seen = {s[i] : i \in 1 .. n}
                    /\ \A p \in c.models : <<p, s[1]>> \in Links
    BY <1>5 DEF Stack
  <2> DEFINE t == [i \in 1 .. (n + 1) |-> IF i = 1 THEN m ELSE s[i - 1]]
  <2>2. n \in Nat \ {0} /\ s \in [1 .. n -> Known]
    BY <2>1 DEF Chain
  <2>3. /\ t[1] = m
        /\ \A i \in 1 .. (n + 1) : i # 1 => i - 1 \in 1 .. n /\ t[i] = s[i - 1]
    BY <2>2
  <2>4. t \in [1 .. (n + 1) -> Known]
    BY <1>1, <2>2
  <2>5. \A i \in 1 .. n : s[i] = t[i + 1] /\ i + 1 \in 1 .. (n + 1) /\ s[i] # m
    BY <2>1, <2>2
  <2> HIDE DEF t
  <2>6. \A i, k \in 1 .. (n + 1) : t[i] = t[k] => i = k
    <3>1. TAKE i, k \in 1 .. (n + 1)
    <3>2. CASE i = 1 \/ k = 1
      <4>1. i # 1 => t[i] # m
        BY <2>3, <2>5
      <4>2. k # 1 => t[k] # m
        BY <2>3, <2>5
      <4> QED BY <2>3, <3>2, <4>1, <4>2
    <3>3. CASE i # 1 /\ k # 1
      <4>1. s[i - 1] = s[k - 1] => i - 1 = k - 1
        BY <2>1, <2>3, <3>3 DEF Chain
      <4> QED BY <2>2, <2>3, <3>3, <4>1
    <3> QED BY <3>2, <3>3
  <2>7. \A i \in 2 .. (n + 1) : <<t[i - 1], t[i]>> \in Links
    <3>1. TAKE i \in 2 .. (n + 1)
    <3>2. CASE i = 2
      <4>1. t[i - 1] = m /\ t[i] = s[1]
        BY <2>2, <2>3, <3>2
      <4> QED BY <2>1, <4>1
    <3>3. CASE i # 2
      <4>1. i - 1 \in 2 .. n /\ t[i - 1] = s[(i - 1) - 1] /\ t[i] = s[i - 1]
        BY <2>2, <2>3, <3>3
      <4> QED BY <2>1, <4>1 DEF Chain
    <3> QED BY <3>2, <3>3
  <2>8. Chain(t, n + 1)
    BY <2>2, <2>4, <2>6, <2>7 DEF Chain
  <2>9. {t[i] : i \in 1 .. (n + 1)} = c.seen \cup {m}
    <3>1. ASSUME NEW x \in c.seen PROVE \E i \in 1 .. (n + 1) : x = t[i]
      BY <2>1, <2>5
    <3>2. ASSUME NEW i \in 1 .. (n + 1) PROVE t[i] \in c.seen \cup {m}
      BY <2>1, <2>3
    <3>3. 1 \in 1 .. (n + 1)
      BY <2>2
    <3> QED BY <2>3, <3>1, <3>2, <3>3
  <2> QED BY <1>2, <1>3, <2>3, <2>8, <2>9 DEF Stack
<1> QED BY <1>4, <1>5

\* What is left to ask is read by the same model.
LEMMA StackStays ==
    ASSUME NEW c \in Calls, Stack(c), NEW m, NEW own
    PROVE  Stack(Rest(c, m, own))
<1>1. Rest(c, m, own).seen = c.seen /\ Rest(c, m, own).models = c.models \ {m}
  BY DEF Rest
<1> QED BY <1>1 DEF Stack

-----------------------------------------------------------------------------
(* Lineage: what a depth says.                                             *)

\* Each model with a depth comes after everything it reads, and right after one of them.
Correct(depths) ==
    \A x \in Known : depths[x] # None =>
        /\ \A p \in Parents(x) : depths[p] # None /\ depths[p] < depths[x]
        /\ depths[x] = 0 \/ \E p \in Parents(x) : depths[x] = depths[p] + 1

\* The answer is the greatest of what was asked for.
AnswersDeepest(c) ==
    /\ \A x \in c.models : Ask[c].depths[x] # None /\ Ask[c].depths[x] <= Ask[c].answer
    /\ \/ c.models = {} /\ Ask[c].answer = None
       \/ \E x \in c.models : Ask[c].depths[x] = Ask[c].answer

Right(c) ==
    Stack(c) /\ Correct(c.depths) => Correct(Ask[c].depths) /\ AnswersDeepest(c)

\* One model more is remembered, one column after its parents.
LEMMA NewIsCorrect ==
    ASSUME NEW before \in Memos, Correct(before), NEW m \in Known, before[m] = None,
           NEW a \in Nat \cup {None},
           \A p \in Parents(m) : before[p] # None /\ before[p] <= a,
           (Parents(m) = {} /\ a = None) \/ \E p \in Parents(m) : before[p] = a
    PROVE  Correct([before EXCEPT ![m] = a + 1])
<1> DEFINE after == [before EXCEPT ![m] = a + 1]
<1>1. \A x \in Known : after[x] = IF x = m THEN a + 1 ELSE before[x]
  BY DEF Memos
<1>2. a + 1 \in Nat /\ a \in Int /\ \A x \in Known : before[x] \in Int
  BY DEF None, Memos
<1>3. Parents(m) \subseteq Known /\ \A x \in Known : Parents(x) \subseteq Known
  BY DEF Parents
<1> HIDE DEF after
<1>4. ASSUME NEW x \in Known, after[x] # None
      PROVE  /\ \A p \in Parents(x) : after[p] # None /\ after[p] < after[x]
             /\ after[x] = 0 \/ \E p \in Parents(x) : after[x] = after[p] + 1
  <2>1. CASE x = m
    <3>1. after[x] = a + 1 /\ \A p \in Parents(m) : after[p] = before[p]
      BY <1>1, <1>3, <2>1
    <3>2. \A p \in Parents(m) : after[p] # None /\ after[p] < after[x]
      BY <1>2, <1>3, <3>1
    <3>3. after[x] = 0 \/ \E p \in Parents(m) : after[x] = after[p] + 1
      BY <1>2, <3>1 DEF None
    <3> QED BY <2>1, <3>2, <3>3
  <2>2. CASE x # m
    <3>1. after[x] = before[x] /\ before[x] # None
      BY <1>1, <1>4, <2>2
    <3>2. \A p \in Parents(x) : before[p] # None /\ before[p] < before[x]
      BY <3>1 DEF Correct
    <3>3. before[x] = 0 \/ \E p \in Parents(x) : before[x] = before[p] + 1
      BY <3>1 DEF Correct
    <3>4. \A p \in Parents(x) : after[p] = before[p]
      BY <1>1, <1>3, <3>2
    <3> QED BY <3>1, <3>2, <3>3, <3>4
  <2> QED BY <2>1, <2>2
<1>5. Correct(after)
  BY <1>4 DEF Correct
<1> QED BY <1>5 DEF after

\* How the model that is asked first comes to its depth.
LEMMA OwnIsRight ==
    ASSUME OrderTyped, Acyclic, NEW c \in Calls, NEW m, NEW own, AnsweredBy(c, m, own),
           m \notin c.seen => Right(Behind(c, m)),
           Stack(c), Correct(c.depths)
    PROVE  Correct(own.depths) /\ own.depths[m] = own.answer /\ own.answer \in Nat
<1> DEFINE b == Behind(c, m)
<1>1. /\ m \in c.models /\ m \in Known
      /\ OwnMemo(c, m, own) \/ OwnSeen(c, m, own) \/ OwnNew(c, m, own)
      /\ c.depths \in Memos
  BY AnswerCases
<1>2. m \notin c.seen
  BY <1>1, NothingTwice
<1>3. CASE OwnMemo(c, m, own)
  BY <1>1, <1>3 DEF OwnMemo, Memos
<1>4. CASE OwnSeen(c, m, own)
  BY <1>2, <1>4 DEF OwnSeen
<1>5. CASE OwnNew(c, m, own)
  <2>1. c.depths[m] = None
    BY <1>5 DEF OwnNew
  <2>2. Right(b) /\ Ask[b] \in Answers /\ b \in Calls
    BY <1>2 DEF AnsweredBy
  <2>3. b.depths = c.depths /\ b.seen = c.seen \cup {m} /\ b.models = Parents(m)
    BY DEF Behind
  <2>4. Stack(b)
    BY <1>1, <1>2, StackGrows
  <2>5. Keeps(b)
    BY <2>2, CallsKeep
  <2> DEFINE before == Ask[b].depths
             a == Ask[b].answer
  <2>6. own.depths = [before EXCEPT ![m] = a + 1] /\ own.answer = a + 1
    BY <1>5 DEF OwnNew
  <2>7. a \in Nat \cup {None} /\ a + 1 \in Nat /\ before \in Memos
    BY <2>2 DEF Answers, None
  <2>8. Correct(before) /\ AnswersDeepest(b)
    BY <2>2, <2>3, <2>4 DEF Right
  <2>9. before[m] = None
    BY <1>1, <2>1, <2>3, <2>5 DEF Keeps
  <2>10. /\ \A p \in Parents(m) : before[p] # None /\ before[p] <= a
         /\ (Parents(m) = {} /\ a = None) \/ \E p \in Parents(m) : before[p] = a
    BY <2>3, <2>8 DEF AnswersDeepest
  <2> HIDE DEF b, before, a
  <2>11. Correct(own.depths)
    BY <1>1, <2>6, <2>7, <2>8, <2>9, <2>10, NewIsCorrect
  <2>12. own.depths[m] = a + 1
    BY <1>1, <2>6, <2>7 DEF Memos
  <2> QED BY <2>6, <2>7, <2>11, <2>12
<1> QED BY <1>1, <1>3, <1>4, <1>5

\* Without cycles, every call leaves correct depths and answers with the greatest.
LEMMA CallsAreRight ==
    ASSUME OrderTyped, Acyclic
    PROVE  \A c \in Calls : Right(c)
<1> DEFINE P == {c \in Calls : Right(c)}
<1>1. ASSUME NEW c \in Calls, \A d \in Calls : Size(d) < Size(c) => d \in P
      PROVE  c \in P
  <2>1. SUFFICES ASSUME Stack(c), Correct(c.depths)
                 PROVE  Correct(Ask[c].depths) /\ AnswersDeepest(c)
    BY DEF Right
  <2>2. CASE c.models = {}
    <3>1. Ask[c].depths = c.depths /\ Ask[c].answer = None
      BY <2>2, NoneAsked
    <3> QED BY <2>1, <2>2, <3>1 DEF AnswersDeepest
  <2>3. CASE c.models # {}
    <3>1. PICK m, own : AnsweredBy(c, m, own)
      BY <2>3, Answered
    <3> DEFINE r == Rest(c, m, own)
    <3>2. /\ m \in c.models /\ m \in Known
          /\ Ask[c].depths = Ask[r].depths
          /\ Ask[c].answer = IF own.answer > Ask[r].answer THEN own.answer ELSE Ask[r].answer
          /\ Ask[r].answer \in Nat \cup {None} /\ Ask[r].depths \in Memos
      BY <3>1, AnswerCases
    <3>3. m \notin c.seen => Right(Behind(c, m))
      BY <1>1, <3>1 DEF AnsweredBy
    <3>4. Correct(own.depths) /\ own.depths[m] = own.answer /\ own.answer \in Nat
      BY <2>1, <3>1, <3>3, OwnIsRight
    <3>5. Right(r) /\ Keeps(r)
      BY <1>1, <3>1, CallsKeep DEF AnsweredBy
    <3>6. r.depths = own.depths /\ r.models = c.models \ {m}
      BY DEF Rest
    <3>7. Stack(r)
      BY <2>1, StackStays
    <3>8. Correct(Ask[r].depths) /\ AnswersDeepest(r)
      BY <3>4, <3>5, <3>6, <3>7 DEF Right
    <3>9. Ask[r].depths[m] = own.answer
      BY <3>2, <3>4, <3>5, <3>6 DEF Keeps, None
    <3> HIDE DEF r
    <3>10. c.models \subseteq Known /\ \A x \in Known : Ask[r].depths[x] \in Int
      BY <3>2 DEF Calls, Memos, None
    <3>11. ASSUME NEW x \in c.models
           PROVE  Ask[c].depths[x] # None /\ Ask[c].depths[x] <= Ask[c].answer
      <4>1. CASE x = m
        BY <3>2, <3>4, <3>9, <4>1 DEF None
      <4>2. CASE x # m
        <5>1. Ask[r].depths[x] # None /\ Ask[r].depths[x] <= Ask[r].answer
          BY <3>6, <3>8, <4>2 DEF AnswersDeepest
        <5> QED BY <3>2, <3>4, <3>10, <5>1 DEF None
      <4> QED BY <4>1, <4>2
    <3>12. \E x \in c.models : Ask[c].depths[x] = Ask[c].answer
      <4>1. CASE own.answer > Ask[r].answer
        BY <3>2, <3>9, <4>1
      <4>2. CASE ~(own.answer > Ask[r].answer)
        <5>1. Ask[r].answer # None
          BY <3>2, <3>4, <4>2 DEF None
        <5>2. \E x \in r.models : Ask[r].depths[x] = Ask[r].answer
          BY <3>8, <5>1 DEF AnswersDeepest
        <5> QED BY <3>2, <3>6, <4>2, <5>2
      <4> QED BY <4>1, <4>2
    <3> QED BY <3>2, <3>8, <3>11, <3>12 DEF AnswersDeepest
  <2> QED BY <2>2, <2>3
<1> HIDE DEF P
<1>2. P \in SUBSET Calls
  BY DEF P
<1>3. \A c \in Calls : c \in P
  BY <1>1, <1>2, EveryCall
<1> QED BY <1>3 DEF P

-----------------------------------------------------------------------------
(* Lineage: the models of the export, one after the other.                 *)

Root(depths, m) == [depths |-> depths, models |-> {m}, seen |-> {}]

\* The depths after the model number i, and after all up to n.
After(i, after) ==
    IF i = 0 THEN [m \in Known |-> None] ELSE Ask[Root(after[i - 1], order[i])].depths

AfterTo(n, after) == after = [i \in 0 .. n |-> After(i, after)]

\* After any number of models there are depths.
LEMMA AftersExist ==
    ASSUME NEW n \in Nat
    PROVE  \E after : AfterTo(n, after)
<1> DEFINE P == {k \in Nat : \E after : AfterTo(k, after)}
<1>1. 0 \in P
  <2> DEFINE f == [i \in 0 .. 0 |-> [m \in Known |-> None]]
  <2>1. \A i \in 0 .. 0 : After(i, f) = [m \in Known |-> None]
    BY DEF After
  <2>2. f = [i \in 0 .. 0 |-> After(i, f)]
    BY <2>1
  <2> HIDE DEF f
  <2> QED BY <2>2 DEF AfterTo
<1>2. ASSUME NEW k \in P PROVE k + 1 \in P
  <2>1. PICK after : AfterTo(k, after)
    OBVIOUS
  <2> DEFINE more == [i \in 0 .. (k + 1) |-> After(i, after)]
  <2>2. \A i \in 0 .. k : more[i] = after[i]
    BY <2>1 DEF AfterTo
  <2>3. \A i \in 0 .. (k + 1) : After(i, after) = After(i, more)
    <3>1. TAKE i \in 0 .. (k + 1)
    <3>2. i # 0 => more[i - 1] = after[i - 1]
      BY <2>2
    <3> HIDE DEF more
    <3> QED BY <3>2 DEF After
  <2>4. more = [i \in 0 .. (k + 1) |-> After(i, more)]
    <3>1. more = [i \in 0 .. (k + 1) |-> more[i]] /\ \A i \in 0 .. (k + 1) : more[i] = After(i, after)
      OBVIOUS
    <3> HIDE DEF more
    <3> QED BY <2>3, <3>1
  <2> HIDE DEF more
  <2> QED BY <2>4 DEF AfterTo
<1> HIDE DEF P
<1>3. n \in P
  BY <1>1, <1>2, AllNumbers, P \in SUBSET Nat DEF P
<1> QED BY <1>3 DEF P

\* Every model of the export has a depth, no greater than there are models; and without
\* cycles it is the one the reads ask for.
LEMMA DepthsAreRight ==
    ASSUME OrderTyped
    PROVE  /\ Depths \in Memos
           /\ \A m \in Known : Depths[m] \in 0 .. Cardinality(Known)
           /\ Acyclic => Correct(Depths)
<1> DEFINE len == Len(order)
           Solves(f) == f = [i \in 0 .. Len(order) |->
                              IF i = 0 THEN [m \in Known |-> None]
                              ELSE Ask[[depths |-> f[i - 1], models |-> {order[i]},
                                        seen |-> {}]].depths]
           all == CHOOSE f : Solves(f)
<1>1. len \in Nat /\ \A i \in 1 .. len : order[i] \in Known
  BY KnownFinite
<1>2. Depths = all[len]
  BY DEF Depths
<1>3. \A f : Solves(f) <=> AfterTo(len, f)
  BY DEF AfterTo, After, Root
<1> HIDE DEF Solves
<1>4. AfterTo(len, all)
  <2>1. \E f : Solves(f)
    BY <1>1, <1>3, AftersExist
  <2>2. Solves(all)
    BY <2>1
  <2> QED BY <1>3, <2>2
<1> HIDE DEF all
<1> DEFINE Fine(i) ==
             /\ all[i] \in Memos
             /\ \A k \in 1 .. i : all[i][order[k]] # None
             /\ Bounded(all[i])
             /\ Acyclic => Correct(all[i])
           P == {i \in Nat : i <= len => Fine(i)}
<1>5. 0 \in P
  <2>1. all[0] = [m \in Known |-> None]
    BY <1>1, <1>4 DEF AfterTo, After
  <2>2. all[0] \in Memos /\ Done(all[0]) = {}
    BY <2>1 DEF Memos, Done
  <2>3. Bounded(all[0]) /\ Correct(all[0])
    BY <2>1, <2>2 DEF Bounded, Correct
  <2> QED BY <2>2, <2>3
<1>6. ASSUME NEW i \in P PROVE i + 1 \in P
  <2>1. SUFFICES ASSUME i + 1 <= len PROVE Fine(i + 1)
    OBVIOUS
  <2>2. i \in Nat /\ i + 1 \in 1 .. len /\ Fine(i)
    BY <1>1, <2>1
  <2> DEFINE m == order[i + 1]
             c == Root(all[i], m)
  <2>3. m \in Known
    BY <1>1, <2>2
  <2>4. c.depths = all[i] /\ c.models = {m} /\ c.seen = {}
    BY DEF Root
  <2>5. c \in Calls
    BY <2>2, <2>3 DEF Root, Calls, Memos
  <2>6. all[i + 1] = Ask[c].depths
    <3>1. all[i + 1] = After(i + 1, all)
      BY <1>4, <2>2 DEF AfterTo
    <3>2. (i + 1) - 1 = i /\ i + 1 # 0
      BY <2>2
    <3> QED BY <3>1, <3>2 DEF After
  <2>7. Ask[c] \in Answers /\ Keeps(c) /\ Shallow(c) /\ (Acyclic => Right(c))
    BY <2>5, EveryCallIsAnswered, CallsKeep, CallsAreShallow, CallsAreRight
  <2>8. Stack(c)
    BY <2>4 DEF Stack
  <2> HIDE DEF c
  <2>9. all[i + 1] \in Memos
    BY <2>6, <2>7 DEF Answers
  <2>10. ASSUME NEW k \in 1 .. (i + 1) PROVE all[i + 1][order[k]] # None
    <3>1. CASE k = i + 1
      BY <2>4, <2>6, <2>7, <3>1 DEF Keeps
    <3>2. CASE k # i + 1
      <4>1. k \in 1 .. i /\ k \in 1 .. len
        BY <1>1, <2>2, <3>2
      <4>2. order[k] \in Known /\ all[i][order[k]] # None
        BY <1>1, <2>2, <4>1
      <4> QED BY <2>4, <2>6, <2>7, <4>2 DEF Keeps
    <3> QED BY <3>1, <3>2
  <2>11. Bounded(all[i + 1])
    BY <2>2, <2>4, <2>6, <2>7 DEF Shallow
  <2>12. Acyclic => Correct(all[i + 1])
    BY <2>2, <2>4, <2>6, <2>7, <2>8 DEF Right
  <2> QED BY <2>9, <2>10, <2>11, <2>12
<1>7. Fine(len)
  <2> HIDE DEF Fine
  <2>1. P \in SUBSET Nat
    OBVIOUS
  <2>2. len \in P
    <3> HIDE DEF P, len
    <3> QED BY <1>1, <1>5, <1>6, <2>1, AllNumbers
  <2> QED BY <1>1, <2>2
<1>8. \A m \in Known : Depths[m] # None
  BY <1>2, <1>7 DEF Known
<1>9. ASSUME NEW m \in Known PROVE Depths[m] \in 0 .. Cardinality(Known)
  <2>1. Done(Depths) = Known
    BY <1>8 DEF Done
  <2>2. Depths[m] <= Cardinality(Known)
    BY <1>2, <1>7, <2>1 DEF Bounded
  <2>3. Depths[m] \in Nat
    BY <1>2, <1>7, <1>8 DEF Memos
  <2> QED BY <2>2, <2>3, KnownFinite
<1> QED BY <1>2, <1>7, <1>9

\* To every model leads a chain with a model in each column before it.
LEMMA ChainOfDepth ==
    ASSUME OrderTyped, Depths \in [Known -> Nat], Correct(Depths)
    PROVE  \A m \in Known : \E s : /\ Chain(s, Depths[m] + 1) /\ s[Depths[m] + 1] = m
<1> DEFINE Led(m, d) == \E s : /\ Chain(s, d + 1) /\ s[d + 1] = m
                               /\ \A i \in 1 .. (d + 1) : Depths[s[i]] = i - 1
           P == {d \in Nat : \A m \in Known : Depths[m] = d => Led(m, d)}
<1>1. 0 \in P
  <2>1. ASSUME NEW m \in Known, Depths[m] = 0 PROVE Led(m, 0)
    <3> DEFINE s == [i \in 1 .. 1 |-> m]
    <3>1. Chain(s, 1)
      BY DEF Chain
    <3>2. s[1] = m /\ \A i \in 1 .. 1 : Depths[s[i]] = i - 1
      BY <2>1
    <3> HIDE DEF s
    <3> QED BY <3>1, <3>2
  <2> QED BY <2>1
<1>2. ASSUME NEW d \in P PROVE d + 1 \in P
  <2>1. SUFFICES ASSUME NEW m \in Known, Depths[m] = d + 1 PROVE Led(m, d + 1)
    OBVIOUS
  <2>2. d \in Nat /\ d + 1 # 0 /\ d + 1 # None
    BY DEF None
  <2>3. PICK p \in Parents(m) : Depths[m] = Depths[p] + 1
    BY <2>1, <2>2 DEF Correct
  <2>4. p \in Known /\ <<p, m>> \in Links /\ Depths[p] \in Nat
    BY <2>1 DEF Parents, Links
  <2>5. Depths[p] = d
    BY <2>1, <2>2, <2>3, <2>4
  <2>6. PICK s : /\ Chain(s, d + 1) /\ s[d + 1] = p
                 /\ \A i \in 1 .. (d + 1) : Depths[s[i]] = i - 1
    BY <2>4, <2>5
  <2> DEFINE n == d + 2
             t == [i \in 1 .. n |-> IF i = n THEN m ELSE s[i]]
  <2>7. s \in [1 .. (d + 1) -> Known]
    BY <2>6 DEF Chain
  <2>8. t \in [1 .. n -> Known] /\ t[n] = m /\ \A i \in 1 .. n : i # n => t[i] = s[i] /\ i \in 1 .. (d + 1)
    BY <2>1, <2>2, <2>7
  <2>9. n \in Nat \ {0} /\ n - 1 = d + 1 /\ n = (d + 1) + 1
    BY <2>2
  <2> HIDE DEF t, n
  <2>10. \A i \in 1 .. n : Depths[t[i]] = i - 1
    <3>1. TAKE i \in 1 .. n
    <3>2. CASE i = n
      BY <2>1, <2>8, <2>9, <3>2
    <3>3. CASE i # n
      BY <2>6, <2>8, <3>3
    <3> QED BY <3>2, <3>3
  <2>11. \A i, k \in 1 .. n : t[i] = t[k] => i = k
    <3>1. TAKE i, k \in 1 .. n
    <3>2. i - 1 = k - 1 => i = k
      BY <2>9
    <3> QED BY <2>10, <3>2
  <2>12. \A i \in 2 .. n : <<t[i - 1], t[i]>> \in Links
    <3>1. TAKE i \in 2 .. n
    <3>2. i - 1 \in 1 .. n /\ i - 1 # n /\ i \in 1 .. n
      BY <2>9
    <3>3. t[i - 1] = s[i - 1]
      BY <2>8, <3>2
    <3>4. CASE i = n
      BY <2>4, <2>6, <2>8, <2>9, <3>3, <3>4
    <3>5. CASE i # n
      <4>1. t[i] = s[i] /\ i \in 2 .. (d + 1)
        BY <2>8, <2>9, <3>2, <3>5
      <4> QED BY <2>6, <3>3, <4>1 DEF Chain
    <3> QED BY <3>4, <3>5
  <2>13. Chain(t, n)
    BY <2>8, <2>9, <2>11, <2>12 DEF Chain
  <2> QED BY <2>8, <2>9, <2>10, <2>13
<1> HIDE DEF P
<1>3. \A d \in Nat : d \in P
  BY <1>1, <1>2, AllNumbers, P \in SUBSET Nat DEF P
<1>4. ASSUME NEW m \in Known PROVE Led(m, Depths[m])
  BY <1>3 DEF P
<1> QED BY <1>4

\* And none that is longer.
LEMMA ChainsAreNoDeeper ==
    ASSUME OrderTyped, Depths \in [Known -> Nat], Correct(Depths), NEW n, NEW s, Chain(s, n)
    PROVE  n <= Depths[s[n]] + 1
<1>1. n \in Nat \ {0} /\ s \in [1 .. n -> Known]
  BY DEF Chain
<1> DEFINE P == {i \in Nat : i + 1 \in 1 .. n => Depths[s[i + 1]] >= i}
<1>2. 0 \in P
  BY <1>1
<1>3. ASSUME NEW i \in P PROVE i + 1 \in P
  <2>1. SUFFICES ASSUME (i + 1) + 1 \in 1 .. n PROVE Depths[s[(i + 1) + 1]] >= i + 1
    OBVIOUS
  <2> DEFINE p == s[i + 1]
             m == s[(i + 1) + 1]
  <2>2. i \in Nat /\ i + 1 \in 1 .. n /\ (i + 1) + 1 \in 2 .. n /\ ((i + 1) + 1) - 1 = i + 1
    BY <1>1, <2>1
  <2>3. p \in Known /\ m \in Known
    BY <1>1, <2>1, <2>2
  <2>4. <<p, m>> \in Links
    BY <2>2 DEF Chain
  <2>5. Depths[p] >= i
    BY <2>2
  <2> HIDE DEF p, m
  <2>6. p \in Parents(m)
    BY <2>3, <2>4 DEF Links, Parents
  <2>7. Depths[p] \in Nat /\ Depths[m] \in Nat /\ Depths[m] # None
    BY <2>3 DEF None
  <2>8. Depths[p] < Depths[m]
    BY <2>3, <2>6, <2>7 DEF Correct
  <2>9. Depths[m] >= i + 1
    BY <2>2, <2>5, <2>7, <2>8
  <2> QED BY <2>9 DEF m
<1> HIDE DEF P
<1>4. n - 1 \in P
  BY <1>1, <1>2, <1>3, AllNumbers, P \in SUBSET Nat, n - 1 \in Nat DEF P
<1>5. Depths[s[(n - 1) + 1]] >= n - 1
  BY <1>1, <1>4 DEF P
<1>6. Depths[s[n]] \in Nat
  BY <1>1
<1> QED BY <1>1, <1>5, <1>6, (n - 1) + 1 = n

\* The column of a model is the length of the longest chain that leads to it, whatever the
\* order of the export (levels, lineage.py:49-67); on a cycle it is still a column.
LEMMA FollowReads == OrderTyped => ColumnsFollowReads
<1>1. SUFFICES ASSUME OrderTyped PROVE ColumnsFollowReads
  OBVIOUS
<1>2. /\ Depths \in Memos
      /\ \A m \in Known : Depths[m] \in 0 .. Cardinality(Known)
      /\ Acyclic => Correct(Depths)
  BY <1>1, DepthsAreRight
<1>3. Depths \in [Known -> Nat]
  BY <1>1, <1>2, KnownFinite DEF Memos
<1>4. ASSUME Acyclic, NEW m \in Known
      PROVE  /\ \E s \in Chains : s[Len(s)] = m /\ Len(s) = Depths[m] + 1
             /\ \A s \in Chains : s[Len(s)] = m => Len(s) <= Depths[m] + 1
  <2>1. Correct(Depths)
    BY <1>2, <1>4
  <2>2. \E s \in Chains : s[Len(s)] = m /\ Len(s) = Depths[m] + 1
    <3>1. PICK s : Chain(s, Depths[m] + 1) /\ s[Depths[m] + 1] = m
      BY <1>1, <1>3, <1>4, <2>1, ChainOfDepth
    <3>2. s \in Chains /\ Len(s) = Depths[m] + 1
      BY <1>1, <3>1, ChainIsInChains
    <3> QED BY <3>1, <3>2
  <2>3. \A s \in Chains : s[Len(s)] = m => Len(s) <= Depths[m] + 1
    <3>1. TAKE s \in Chains
    <3>2. Chain(s, Len(s))
      BY <1>1, ChainsAreChain
    <3>3. Len(s) <= Depths[s[Len(s)]] + 1
      BY <1>1, <1>3, <2>1, <3>2, ChainsAreNoDeeper
    <3> QED BY <3>3
  <2> QED BY <2>2, <2>3
<1> QED BY <1>2, <1>4 DEF ColumnsFollowReads

\* What stands in the last column is read by nothing (chart, lineage.py:104-118).
LEMMA LastIsRead == OrderTyped => LabelsStayInside
<1>1. SUFFICES ASSUME OrderTyped, Acyclic, NEW m \in Known, Depths[m] = LastColumn,
                      m \in FeedsSomething
               PROVE  FALSE
  BY DEF LabelsStayInside, LabelledLeft
<1>2. /\ \A x \in Known : Depths[x] \in 0 .. Cardinality(Known)
      /\ Correct(Depths) /\ Cardinality(Known) \in Nat
  BY <1>1, DepthsAreRight, KnownFinite
<1> DEFINE columns == {Depths[x] : x \in Known}
<1>3. \E c \in columns : \A d \in columns : d <= c
  <2>1. columns # {} /\ columns \subseteq 0 .. Cardinality(Known)
    BY <1>1, <1>2
  <2> HIDE DEF columns
  <2> QED BY <1>2, <2>1, Greatest
<1>4. \A x \in Known : Depths[x] <= LastColumn
  BY <1>3 DEF LastColumn
<1>5. PICK link \in Links : m = link[1]
  BY <1>1 DEF FeedsSomething
<1> DEFINE q == link[2]
<1>6. q \in Known /\ m \in Parents(q)
  BY <1>1, <1>5 DEF Links, Parents
<1> HIDE DEF q
<1>7. Depths[q] # None /\ Depths[q] \in Nat /\ Depths[m] \in Nat
  BY <1>1, <1>2, <1>6 DEF None
<1>8. Depths[m] < Depths[q]
  BY <1>2, <1>6, <1>7 DEF Correct
<1> QED BY <1>1, <1>4, <1>6, <1>7, <1>8

\* For any models, however the export orders them and whatever they read: each is drawn in a
\* column, and without cycles in the one right after the longest chain that leads to it.
THEOREM ColumnsCorrect == LineageSpec => []ColumnsFollowReads
<1>1. LineageSpec => []OrderTyped
  BY OrderTypedInit, OrderTypedStep, PTL DEF LineageSpec
<1> QED BY <1>1, FollowReads, PTL

\* No model of the last column is read by another, so no label runs off the right edge.
THEOREM LabelsInside == LineageSpec => []LabelsStayInside
<1>1. LineageSpec => []OrderTyped
  BY OrderTypedInit, OrderTypedStep, PTL DEF LineageSpec
<1> QED BY <1>1, LastIsRead, PTL
=============================================================================
