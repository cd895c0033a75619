----------------------------- MODULE VisitLogProofs -----------------------------
(***************************************************************************)
(* What holds of the visit log and its collector for any number of visits, *)
(* kills and rotations.                                                    *)
(***************************************************************************)
EXTENDS VisitLog, SequenceTheorems, WellFoundedInduction, TLAPS

-----------------------------------------------------------------------------
(* The invariant.                                                          *)

Run == [at : {"idle", "measured", "read", "stored", "emptied"}, from : Nat,
        lines : Seq(Piece), noticed : BOOLEAN]

Typed ==
    /\ log \in Seq(Piece)
    /\ writing \in Visits \cup {NoVisit}
    /\ cursor \in Nat \cup {Torn}
    /\ tick \in Run
    /\ stored \in [Visits -> Nat]
    /\ begun \subseteq Visits /\ repeated \subseteq Visits /\ astray \in BOOLEAN

IsHead(piece, v) == piece.part = "head" /\ piece.visit = v

\* Where the line of a visit starts in the log.
Starts(v) == {i \in 1 .. Len(log) : IsHead(log[i], v)}

\* A visit starts in the log once, and what is stored or read was begun.
LogSound ==
    /\ \A i \in 1 .. Len(log) : log[i].visit \in begun
    /\ writing # NoVisit => writing \in begun
    /\ \A i \in 1 .. Len(tick.lines) : tick.lines[i].visit \in begun
    /\ \A v \in Visits : stored[v] > 0 => v \in begun
    /\ \A v \in Visits : \A i, j \in Starts(v) : i = j

HasRead == tick.at \in {"read", "stored", "emptied"}
HasStored == tick.at \in {"stored", "emptied"}

\* Stored by a run before this one, which has written the cursor.
Settled(v) == stored[v] > 0 /\ v \notin repeated /\ ~(HasStored /\ v \in Batch)

\* What this run has read is still where it was.
StillThere ==
    /\ tick.from + Len(tick.lines) <= Len(log)
    /\ \A i \in 1 .. Len(tick.lines) : log[tick.from + i] = tick.lines[i]

\* The lines of settled visits are behind the cursor, and behind what a run reads.
BehindCursor ==
    \A v \in Visits : Settled(v) =>
        \A i \in Starts(v) : cursor = Torn \/ (i < cursor /\ cursor <= Len(log))

BehindRun ==
    \A v \in Visits : Settled(v) =>
        /\ tick.at # "idle" => \A i \in Starts(v) : i <= tick.from
        /\ tick.at = "read" => \A i \in 1 .. Len(tick.lines) : ~IsHead(tick.lines[i], v)

\* The log was not begun again since a run has looked at it, or nothing in it is old.
RunMeasured ==
    tick.at = "measured" =>
        \/ tick.from <= Len(log)
        \/ \A v \in Visits : stored[v] > 0 => Starts(v) = {}

RunRead ==
    HasRead =>
        \/ StillThere
        \/ \A v \in Visits :
              stored[v] > 0 \/ (\E i \in 1 .. Len(tick.lines) : IsHead(tick.lines[i], v)) =>
                  Starts(v) = {}

\* What a run has stored is stored.
BatchStored ==
    HasStored => Consumed(tick.lines) > 0 /\ \A v \in Batch : stored[v] > 0

\* What relates the statistics to the cursor and to a run.
OncePart ==
    /\ BehindCursor /\ BehindRun /\ RunMeasured /\ RunRead /\ BatchStored
    /\ VisitsStoredOnce

OnceInv == Typed /\ LogSound /\ OncePart

\* The first n pieces of the log end with a line, and every whole line among them is stored.
Passed(n) ==
    /\ n <= Len(log)
    /\ n # 0 => log[n].part = "tail"
    /\ \A v \in Whole(log, n) : stored[v] > 0

\* A run that can make the cursor right again, or keeps it so, passes nothing either.
RunPasses ==
    /\ tick.noticed => tick.from = 0
    /\ tick.at # "idle" /\ (~astray \/ tick.noticed) =>
          Passed(tick.from) /\ (HasRead => StillThere)

PassInv == CursorPassesNothing /\ RunPasses

-----------------------------------------------------------------------------
(* Types.                                                                  *)

\* A set of numbers below a bound has a greatest one.
LEMMA Greatest ==
    ASSUME NEW S, S # {}, NEW bound \in Nat, S \subseteq 0 .. bound
    PROVE  \E n \in S : \A m \in S : m <= n
<1> DEFINE T == {bound - n : n \in S}
<1>1. T \subseteq Nat /\ T # {}
  <2>1. \A n \in S : bound - n \in Nat
    OBVIOUS
  <2> QED BY <2>1
<1>2. \E n \in T : \A m \in T : ~(<<m, n>> \in OpToRel(<, Nat))
  <2> HIDE DEF T
  <2> QED BY <1>1, NatLessThanWellFounded, WFMin
<1>3. PICK d \in T : \A e \in T : ~(e < d)
  BY <1>1, <1>2 DEF OpToRel
<1>4. PICK n \in S : d = bound - n
  BY <1>3
<1>5. \A m \in S : ~(bound - m < bound - n)
  BY <1>3, <1>4
<1> QED BY <1>5

\* What is consumed of a text ends with a line.
LEMMA ConsumedFound ==
    ASSUME NEW lines \in Seq(Piece)
    PROVE  /\ Consumed(lines) \in 0 .. Len(lines)
           /\ Consumed(lines) = 0 \/ lines[Consumed(lines)].part = "tail"
<1> DEFINE ends == {0} \cup {n \in 1 .. Len(lines) : lines[n].part = "tail"}
<1>1. ends # {} /\ Len(lines) \in Nat /\ ends \subseteq 0 .. Len(lines)
  BY LenProperties
<1>2. \E n \in ends : \A m \in ends : m <= n
  <2> HIDE DEF ends
  <2> QED BY <1>1, Greatest
<1>3. PICK n \in ends : \A m \in ends : m <= n
  BY <1>2
<1>4. n \in 0 .. Len(lines) /\ (n = 0 \/ lines[n].part = "tail")
  BY <1>1
<1>5. ASSUME NEW i \in n + 1 .. Len(lines) PROVE lines[i].part = "head"
  <2>1. i \in 1 .. Len(lines) /\ i \notin ends
    BY <1>1, <1>3, <1>4
  <2>2. lines[i] \in Piece
    BY <2>1, ElementOfSeq
  <2> QED BY <2>1, <2>2 DEF Piece
<1> QED BY <1>4, <1>5 DEF Consumed

\* Between its runs the collector is a run of the type.
LEMMA IdleTyped == NoRun \in Run
<1>1. <<>> \in Seq(Piece)
  BY EmptySeq
<1> QED BY <1>1 DEF NoRun, Run

\* A run of the collector goes on to its next step.
LEMMA RunTyped ==
    ASSUME Typed
    PROVE  /\ NoRun \in Run
           /\ [tick EXCEPT !.noticed = FALSE] \in Run
           /\ [tick EXCEPT !.at = "stored"] \in Run
           /\ [tick EXCEPT !.at = "emptied"] \in Run
<1>1. NoRun \in Run
  BY IdleTyped
<1>2. [tick EXCEPT !.noticed = FALSE] \in Run
  BY DEF Typed, Run
<1>3. [tick EXCEPT !.at = "stored"] \in Run
  BY DEF Typed, Run
<1>4. [tick EXCEPT !.at = "emptied"] \in Run
  BY DEF Typed, Run
<1> QED BY <1>1, <1>2, <1>3, <1>4

\* The empty log has the types.
LEMMA TypedInit == VisitsInit => Typed
<1> SUFFICES ASSUME VisitsInit PROVE Typed
  OBVIOUS
<1>1. log \in Seq(Piece)
  BY EmptySeq DEF VisitsInit
<1>2. stored \in [Visits -> Nat]
  BY DEF VisitsInit
<1> QED BY <1>1, <1>2, IdleTyped DEF VisitsInit, Typed

\* What a run stores are visits.
LEMMA BatchTyped == ASSUME Typed PROVE Batch \subseteq Visits
<1>1. tick.lines \in Seq(Piece)
  BY DEF Typed, Run
<1>2. Consumed(tick.lines) \in 0 .. Len(tick.lines)
  BY <1>1, ConsumedFound
<1>3. \A i \in 2 .. Consumed(tick.lines) : tick.lines[i] \in Piece
  BY <1>1, <1>2, ElementOfSeq, LenProperties
<1> QED BY <1>3 DEF Batch, Whole, Piece

\* Every step keeps the types.
LEMMA TypedStep == Typed /\ [VisitsNext]_visitVars => Typed'
<1> SUFFICES ASSUME Typed, [VisitsNext]_visitVars PROVE Typed'
  OBVIOUS
<1>1. ASSUME NEW v \in Visits, BeginLine(v) PROVE Typed'
  <2>1. log' \in Seq(Piece)
    BY <1>1, AppendProperties DEF BeginLine, Typed, Piece
  <2> QED BY <1>1, <2>1 DEF BeginLine, Typed
<1>2. CASE EndLine
  <2>1. log' \in Seq(Piece)
    BY <1>2, AppendProperties DEF EndLine, Typed, Piece
  <2> QED BY <1>2, <2>1 DEF EndLine, Typed
<1>3. CASE Rotate
  BY <1>3, RunTyped DEF Rotate, Typed
<1>4. CASE Measure
  <2>1. tick' \in Run
    <3> DEFINE from == IF Shrunk THEN 0 ELSE cursor
    <3>1. from \in Nat /\ tick' = [NoRun EXCEPT !.at = "measured", !.from = from,
                                              !.noticed = (from = 0)]
      BY <1>4 DEF Measure, Typed
    <3> HIDE DEF from
    <3>2. tick' = [at |-> "measured", from |-> from, lines |-> <<>>, noticed |-> (from = 0)]
      BY <3>1 DEF NoRun
    <3>3. from \in Nat /\ <<>> \in Seq(Piece)
      BY <3>1, EmptySeq
    <3>4. CASE from = 0
      <4>1. tick' = [at |-> "measured", from |-> from, lines |-> <<>>, noticed |-> TRUE]
        BY <3>2, <3>4
      <4>2. [at |-> "measured", from |-> from, lines |-> <<>>, noticed |-> TRUE] \in Run
        BY <3>3 DEF Run
      <4> QED BY <4>1, <4>2
    <3>5. CASE from # 0
      <4>1. tick' = [at |-> "measured", from |-> from, lines |-> <<>>, noticed |-> FALSE]
        BY <3>2, <3>5
      <4>2. [at |-> "measured", from |-> from, lines |-> <<>>, noticed |-> FALSE] \in Run
        BY <3>3 DEF Run
      <4> QED BY <4>1, <4>2
    <3> QED BY <3>4, <3>5
  <2> QED BY <1>4, <2>1 DEF Measure, Typed
<1>5. CASE Read
  <2>1. \A i \in tick.from + 1 .. Len(log) : log[i] \in Piece
    BY ElementOfSeq, LenProperties DEF Typed, Run
  <2>2. SubSeq(log, tick.from + 1, Len(log)) \in Seq(Piece)
    BY <2>1, SubSeqProperties, LenProperties DEF Typed, Run
  <2>3. tick' \in Run
    BY <1>5, <2>2 DEF Read, Typed, Run
  <2> QED BY <1>5, <2>3 DEF Read, Typed
<1>6. CASE Insert
  <2>1. stored' \in [Visits -> Nat]
    BY <1>6 DEF Insert, Typed
  <2>2. tick' \in Run
    BY <1>6, RunTyped DEF Insert
  <2> QED BY <1>6, <2>1, <2>2 DEF Insert, Typed
<1>7. CASE EmptyCursor
  BY <1>7, RunTyped DEF EmptyCursor, Typed
<1>8. CASE WriteCursor
  <2>1. tick.from + Consumed(tick.lines) \in Nat
    BY ConsumedFound, LenProperties DEF Typed, Run
  <2>2. astray' \in BOOLEAN
    BY <1>8 DEF WriteCursor
  <2> QED BY <1>8, <2>1, <2>2, RunTyped DEF WriteCursor, Typed
<1>9. CASE Killed
  <2>1. repeated' \subseteq Visits
    BY <1>9, BatchTyped DEF Killed, Typed
  <2> QED BY <1>9, <2>1, RunTyped DEF Killed, Typed
<1>10. CASE UNCHANGED visitVars
  BY <1>10 DEF visitVars, Typed
<1> QED BY <1>1, <1>2, <1>3, <1>4, <1>5, <1>6, <1>7, <1>8, <1>9, <1>10 DEF VisitsNext

-----------------------------------------------------------------------------
(* What the steps do to the log and to what a run has read.                *)

\* A visit that is stored was read as a line that begins before its end.
LEMMA BatchHeads ==
    ASSUME Typed, NEW v \in Batch
    PROVE  \E j \in 1 .. Len(tick.lines) :
               j < Consumed(tick.lines) /\ IsHead(tick.lines[j], v)
<1>1. tick.lines \in Seq(Piece) /\ Len(tick.lines) \in Nat
  BY LenProperties DEF Typed, Run
<1>2. Consumed(tick.lines) \in 0 .. Len(tick.lines)
  BY <1>1, ConsumedFound
<1>3. PICK i \in 2 .. Consumed(tick.lines) :
          /\ tick.lines[i].visit = v
          /\ tick.lines[i - 1] = [tick.lines[i] EXCEPT !.part = "head"]
  BY DEF Batch, Whole
<1>4. tick.lines[i] \in Piece
  BY <1>1, <1>2, ElementOfSeq
<1>5. IsHead(tick.lines[i - 1], v)
  BY <1>3, <1>4 DEF IsHead, Piece
<1> QED BY <1>1, <1>2, <1>5

\* The pieces of a text behind the first m of them.
LEMMA Suffix ==
    ASSUME NEW text \in Seq(Piece), Len(text) \in Nat, NEW m \in Nat
    PROVE  LET rest == SubSeq(text, m + 1, Len(text)) IN
           /\ Len(rest) = IF m < Len(text) THEN Len(text) - m ELSE 0
           /\ \A i \in 1 .. Len(rest) : m + i \in 1 .. Len(text) /\ rest[i] = text[m + i]
<1> DEFINE first == m + 1
           rest == SubSeq(text, first, Len(text))
<1>1. \A i \in first .. Len(text) : text[i] \in Piece
  BY ElementOfSeq
<1>2. first \in Int /\ Len(text) \in Int /\ first = m + 1
  OBVIOUS
<1> HIDE DEF first
<1>3. /\ Len(rest) = IF first <= Len(text) THEN Len(text) - first + 1 ELSE 0
      /\ \A i \in 1 .. Len(text) - first + 1 : rest[i] = text[first + i - 1]
  BY <1>1, <1>2, SubSeqProperties
<1> HIDE DEF rest
<1>4. Len(rest) = IF m < Len(text) THEN Len(text) - m ELSE 0
  BY <1>2, <1>3
<1>5. ASSUME NEW i \in 1 .. Len(rest)
      PROVE  m + i \in 1 .. Len(text) /\ rest[i] = text[m + i]
  <2>1. i \in 1 .. Len(text) - first + 1 /\ first + i - 1 = m + i
    BY <1>2, <1>4
  <2>2. rest[i] = text[m + i]
    BY <1>3, <2>1
  <2> QED BY <1>2, <2>1, <2>2
<1> USE DEF first, rest
<1> QED BY <1>4, <1>5

\* What is read are the pieces of the log behind the cursor.
LEMMA WhatIsRead ==
    ASSUME Typed, Read
    PROVE  /\ Len(log) \in Nat /\ tick.from \in Nat
           /\ tick'.from = tick.from /\ tick'.at = "read" /\ tick'.noticed = tick.noticed
           /\ Len(tick'.lines) = IF tick.from < Len(log) THEN Len(log) - tick.from ELSE 0
           /\ \A i \in 1 .. Len(tick'.lines) :
                 tick.from + i \in 1 .. Len(log) /\ tick'.lines[i] = log[tick.from + i]
<1>1. /\ log \in Seq(Piece) /\ Len(log) \in Nat /\ tick.from \in Nat
      /\ tick' = [tick EXCEPT !.at = "read", !.lines = SubSeq(log, tick.from + 1, Len(log))]
      /\ tick \in Run
  BY LenProperties DEF Typed, Run, Read
<1> DEFINE lines == SubSeq(log, tick.from + 1, Len(log))
<1>2. /\ Len(lines) = IF tick.from < Len(log) THEN Len(log) - tick.from ELSE 0
      /\ \A i \in 1 .. Len(lines) :
            tick.from + i \in 1 .. Len(log) /\ lines[i] = log[tick.from + i]
  BY <1>1, Suffix
<1>3. tick'.lines = lines /\ tick'.from = tick.from /\ tick'.at = "read"
         /\ tick'.noticed = tick.noticed
  BY <1>1 DEF Run
<1> HIDE DEF lines
<1> QED BY <1>1, <1>2, <1>3

\* The proxy only adds to the log, and begins a line of a visit it has not begun before.
LEMMA WhatIsLogged ==
    ASSUME Typed, LogSound, (\E v \in Visits : BeginLine(v)) \/ EndLine
    PROVE  /\ Len(log) \in Nat /\ Len(log') = Len(log) + 1
           /\ \A i \in 1 .. Len(log) : log'[i] = log[i]
           /\ begun \subseteq begun' /\ log'[Len(log) + 1].visit \in begun'
           /\ writing' # NoVisit => writing' \in begun'
           /\ \A v \in begun : Starts(v)' = Starts(v)
           /\ \A v \in Visits : \A i, j \in Starts(v)' : i = j
           /\ UNCHANGED <<cursor, tick, stored, repeated, astray>>
<1>1. log \in Seq(Piece) /\ Len(log) \in Nat
  BY LenProperties DEF Typed
<1>2. ASSUME NEW v \in Visits, BeginLine(v)
      PROVE  /\ Len(log') = Len(log) + 1
             /\ \A i \in 1 .. Len(log) : log'[i] = log[i]
             /\ log'[Len(log) + 1] = [visit |-> v, part |-> "head"]
  BY <1>1, <1>2, AppendProperties DEF BeginLine, Piece
<1>3. ASSUME EndLine
      PROVE  /\ Len(log') = Len(log) + 1
             /\ \A i \in 1 .. Len(log) : log'[i] = log[i]
             /\ log'[Len(log) + 1] = [visit |-> writing, part |-> "tail"]
  BY <1>1, <1>3, AppendProperties DEF EndLine, Typed, Piece
<1>4. ASSUME NEW v \in Visits, BeginLine(v)
      PROVE  /\ \A w \in Visits \ {v} : Starts(w)' = Starts(w)
             /\ Starts(v)' \subseteq {Len(log) + 1}
             /\ v \notin begun
  <2>1. v \notin begun
    BY <1>4 DEF BeginLine
  <2> DEFINE end == Len(log) + 1
  <2>0. /\ Len(log') = end /\ end = Len(log) + 1
        /\ \A i \in 1 .. Len(log) : log'[i] = log[i]
        /\ log'[end].visit = v
    <3>1. /\ Len(log') = Len(log) + 1
          /\ \A i \in 1 .. Len(log) : log'[i] = log[i]
          /\ log'[Len(log) + 1] = [visit |-> v, part |-> "head"]
      BY <1>2, <1>4
    <3> QED BY <3>1
  <2> HIDE DEF end
  <2>2. ASSUME NEW i \in Starts(v)' PROVE i = end
    <3>1. i \in 1 .. Len(log') /\ log'[i].visit = v
      BY <2>2 DEF Starts, IsHead
    <3>2. i \in 1 .. Len(log) => log[i].visit = v /\ log[i].visit \in begun
      BY <2>0, <3>1 DEF LogSound
    <3> QED BY <1>1, <2>0, <2>1, <3>1, <3>2
  <2>3. ASSUME NEW w \in Visits \ {v} PROVE Starts(w)' = Starts(w)
    <3>1. \A i : i \in Starts(w)' <=> i \in 1 .. Len(log') /\ IsHead(log'[i], w)
      BY DEF Starts
    <3>2. \A i : i \in Starts(w) <=> i \in 1 .. Len(log) /\ IsHead(log[i], w)
      BY DEF Starts
    <3>3. ~IsHead(log'[end], w)
      BY <2>0 DEF IsHead
    <3>4. \A i : i \in 1 .. Len(log') <=> i \in 1 .. Len(log) \/ i = end
      BY <1>1, <2>0
    <3>5. \A i : i \in Starts(w)' <=> i \in Starts(w)
      BY <1>1, <2>0, <3>1, <3>2, <3>3, <3>4
    <3> QED BY <3>5
  <2> USE DEF end
  <2> QED BY <2>1, <2>2, <2>3
<1>5. ASSUME EndLine, NEW w PROVE Starts(w)' = Starts(w)
  BY <1>1, <1>3, <1>5 DEF Starts, IsHead
<1>6. CASE EndLine
  BY <1>1, <1>3, <1>5, <1>6 DEF EndLine, LogSound
<1>7. CASE \E v \in Visits : BeginLine(v)
  <2>1. PICK v \in Visits : BeginLine(v)
    BY <1>7
  <2>2. \A w \in begun : Starts(w)' = Starts(w)
    BY <1>4, <2>1 DEF Typed
  <2>3. \A w \in Visits : \A i, j \in Starts(w)' : i = j
    BY <1>4, <2>1 DEF LogSound
  <2> QED BY <1>1, <1>2, <2>1, <2>2, <2>3 DEF BeginLine
<1> QED BY <1>6, <1>7

-----------------------------------------------------------------------------
(* A visit is stored once.                                                 *)

\* Every step keeps the log sound.
LEMMA LogSoundStep ==
    ASSUME Typed, LogSound, [VisitsNext]_visitVars
    PROVE  LogSound'
<1>1. CASE (\E v \in Visits : BeginLine(v)) \/ EndLine
  <2>1. /\ Len(log) \in Nat /\ Len(log') = Len(log) + 1
        /\ \A i \in 1 .. Len(log) : log'[i] = log[i]
        /\ begun \subseteq begun' /\ log'[Len(log) + 1].visit \in begun'
        /\ writing' # NoVisit => writing' \in begun'
        /\ \A v \in Visits : \A i, j \in Starts(v)' : i = j
        /\ tick' = tick /\ stored' = stored
    BY <1>1, WhatIsLogged
  <2>2. \A i \in 1 .. Len(log') : log'[i].visit \in begun'
    BY <2>1 DEF LogSound
  <2> QED BY <2>1, <2>2 DEF LogSound
<1>2. CASE Rotate
  <2>1. tick'.lines = tick.lines
    BY <1>2 DEF Rotate, Typed, Run
  <2>2. Len(log') = 0
    BY <1>2, EmptySeq DEF Rotate
  <2>3. \A v : Starts(v)' = {}
    BY <2>2 DEF Starts
  <2> QED BY <1>2, <2>1, <2>2, <2>3 DEF Rotate, LogSound
<1>3. CASE Read
  <2>1. UNCHANGED <<log, writing, stored, begun>>
    BY <1>3 DEF Read
  <2>2. \A i \in 1 .. Len(tick'.lines) : tick'.lines[i].visit \in begun
    BY <1>3, WhatIsRead DEF LogSound
  <2>3. \A v : Starts(v)' = Starts(v)
    BY <2>1 DEF Starts
  <2> QED BY <2>1, <2>2, <2>3 DEF LogSound
<1>4. CASE Insert
  <2>1. UNCHANGED <<log, writing, begun>>
    BY <1>4 DEF Insert
  <2>2. tick'.lines = tick.lines \/ tick'.lines = <<>>
    BY <1>4 DEF Insert, Typed, Run, NoRun
  <2>3. \A v \in Batch : v \in begun
    BY BatchHeads DEF LogSound, IsHead
  <2>4. \A v \in Visits : stored'[v] > 0 => v \in begun
    BY <1>4, <2>3 DEF Insert, LogSound
  <2>5. \A v : Starts(v)' = Starts(v)
    BY <2>1 DEF Starts
  <2>6. \A i \in 1 .. Len(tick'.lines) : tick'.lines[i].visit \in begun
    BY <2>2, EmptySeq DEF LogSound
  <2> QED BY <2>1, <2>4, <2>5, <2>6 DEF LogSound
<1>5. CASE Measure \/ EmptyCursor \/ WriteCursor \/ Killed \/ UNCHANGED visitVars
  <2>1. UNCHANGED <<log, writing, stored, begun>>
    BY <1>5 DEF Measure, EmptyCursor, WriteCursor, Killed, visitVars
  <2>2. tick'.lines = tick.lines \/ tick'.lines = <<>>
    <3>1. CASE Measure
      BY <3>1 DEF Measure, NoRun
    <3>2. CASE EmptyCursor
      BY <3>2 DEF EmptyCursor, Typed, Run
    <3>3. CASE WriteCursor \/ Killed
      BY <3>3 DEF WriteCursor, Killed, NoRun
    <3> QED BY <1>5, <3>1, <3>2, <3>3 DEF visitVars
  <2>3. \A v : Starts(v)' = Starts(v)
    BY <2>1 DEF Starts
  <2>4. \A i \in 1 .. Len(tick'.lines) : tick'.lines[i].visit \in begun
    BY <2>2, EmptySeq DEF LogSound
  <2> QED BY <2>1, <2>3, <2>4 DEF LogSound
<1> QED BY <1>1, <1>2, <1>3, <1>4, <1>5 DEF VisitsNext

\* What a run inserts depends only on what it has read.
LEMMA BatchKept == ASSUME tick'.lines = tick.lines PROVE Batch' = Batch
  BY DEF Batch

\* The collector is idle after a step that leaves the log alone: what is left is that the
\* lines of settled visits are behind the cursor, and that a visit is stored once.
LEMMA OnceIdle ==
    ASSUME tick' = NoRun, BehindCursor', VisitsStoredOnce'
    PROVE  OncePart'
<1>1. tick'.at = "idle"
  BY DEF NoRun
<1> QED BY <1>1 DEF OncePart, BehindRun, RunMeasured, RunRead, BatchStored, HasRead, HasStored

\* A line is added to the log.
LEMMA OnceLogged ==
    ASSUME Typed, LogSound, OncePart, (\E v \in Visits : BeginLine(v)) \/ EndLine
    PROVE  OncePart'
<1>1. /\ Len(log) \in Nat /\ Len(log') = Len(log) + 1
      /\ \A i \in 1 .. Len(log) : log'[i] = log[i]
      /\ \A v \in begun : Starts(v)' = Starts(v)
      /\ UNCHANGED <<cursor, tick, stored, repeated, astray>>
  BY WhatIsLogged
<1>2. /\ cursor \in Nat \cup {Torn} /\ tick.from \in Nat
      /\ tick.lines \in Seq(Piece) /\ Len(tick.lines) \in Nat
  BY LenProperties DEF Typed, Run
<1>3. Batch' = Batch
  BY <1>1, BatchKept
<1>4. \A v \in Visits : Settled(v)' <=> Settled(v)
  BY <1>1, <1>3 DEF Settled, HasStored
<1>5. \A v \in Visits : stored[v] > 0 => v \in begun
  BY DEF LogSound
<1>6. \A v \in Visits : Settled(v) => v \in begun
  BY <1>5 DEF Settled
<1>7. BehindCursor'
  <2> SUFFICES ASSUME NEW v \in Visits, Settled(v), NEW i \in Starts(v), cursor # Torn
               PROVE  i < cursor /\ cursor <= Len(log')
    BY <1>1, <1>4, <1>6 DEF BehindCursor
  <2> QED BY <1>1, <1>2 DEF OncePart, BehindCursor
<1>8. BehindRun'
  BY <1>1, <1>4, <1>6 DEF OncePart, BehindRun
<1>9. RunMeasured'
  <2>1. CASE tick.from <= Len(log)
    BY <1>1, <1>2, <2>1 DEF RunMeasured
  <2>2. CASE \A v \in Visits : stored[v] > 0 => Starts(v) = {}
    BY <1>1, <1>5, <2>2 DEF RunMeasured
  <2> QED BY <1>1, <2>1, <2>2 DEF OncePart, RunMeasured
<1>10. RunRead'
  <2>1. ASSUME StillThere PROVE StillThere'
    <3>1. tick.from + Len(tick.lines) <= Len(log')
      BY <1>1, <1>2, <2>1 DEF StillThere
    <3>2. ASSUME NEW i \in 1 .. Len(tick.lines)
          PROVE  log'[tick.from + i] = tick.lines[i]
      <4>1. tick.from + i \in 1 .. Len(log)
        BY <1>1, <1>2, <2>1 DEF StillThere
      <4> QED BY <1>1, <2>1, <4>1 DEF StillThere
    <3> QED BY <1>1, <3>1, <3>2 DEF StillThere
  <2>2. \A v \in Visits : \A i \in 1 .. Len(tick.lines) :
            IsHead(tick.lines[i], v) => v \in begun
    BY DEF LogSound, IsHead
  <2> QED BY <1>1, <1>5, <2>1, <2>2 DEF OncePart, RunRead, HasRead
<1>11. BatchStored'
  BY <1>1, <1>3 DEF OncePart, BatchStored, HasStored
<1>12. VisitsStoredOnce'
  BY <1>1 DEF OncePart, VisitsStoredOnce
<1> QED BY <1>7, <1>8, <1>9, <1>10, <1>11, <1>12 DEF OncePart

\* The log is begun again: no visit starts in it.
LEMMA OnceRotated == ASSUME Typed, OncePart, Rotate PROVE OncePart'
<1>1. /\ tick'.lines = tick.lines /\ tick'.at = tick.at /\ tick'.from = tick.from
      /\ UNCHANGED <<cursor, stored, repeated>> /\ log' = <<>>
  BY DEF Rotate, Typed, Run
<1>2. Batch' = Batch
  BY <1>1, BatchKept
<1>3. \A v \in Visits : Starts(v)' = {}
  BY <1>1, EmptySeq DEF Starts
<1>4. \A v \in Visits : Settled(v)' <=> Settled(v)
  BY <1>1, <1>2 DEF Settled, HasStored
<1>5. BehindCursor' /\ RunMeasured' /\ RunRead'
  BY <1>3 DEF BehindCursor, RunMeasured, RunRead
<1>6. BehindRun'
  BY <1>1, <1>3, <1>4 DEF OncePart, BehindRun
<1>7. BatchStored' /\ VisitsStoredOnce'
  BY <1>1, <1>2 DEF OncePart, BatchStored, VisitsStoredOnce, HasStored
<1> QED BY <1>5, <1>6, <1>7 DEF OncePart

\* A run begins, at the cursor or, when the log is shorter than that, at the beginning.
LEMMA OnceMeasured == ASSUME Typed, OncePart, Measure PROVE OncePart'
<1> DEFINE from == IF Shrunk THEN 0 ELSE cursor
<1>1. /\ tick.at = "idle" /\ cursor \in Nat /\ Len(log) > from /\ from \in Nat
      /\ tick' = [NoRun EXCEPT !.at = "measured", !.from = from, !.noticed = (from = 0)]
      /\ UNCHANGED <<log, cursor, stored, repeated>>
  BY DEF Measure, Typed
<1>2. Len(log) \in Nat
  BY LenProperties DEF Typed
<1>3. tick'.at = "measured" /\ tick'.from = from
  BY <1>1 DEF NoRun
<1>4. \A v : Starts(v)' = Starts(v)
  BY <1>1 DEF Starts
<1>5. \A v \in Visits : Settled(v)' <=> Settled(v)
  BY <1>1, <1>3 DEF Settled, HasStored
<1>6. BehindCursor'
  BY <1>1, <1>4, <1>5 DEF OncePart, BehindCursor
<1>7. BehindRun'
  <2> SUFFICES ASSUME NEW v \in Visits, Settled(v), NEW i \in Starts(v)
               PROVE  i <= from
    BY <1>3, <1>4, <1>5 DEF BehindRun
  <2>1. cursor # Torn
    BY DEF Measure
  <2>2. i < cursor /\ cursor <= Len(log)
    BY <2>1 DEF OncePart, BehindCursor
  <2> QED BY <1>1, <1>2, <2>2 DEF Shrunk, Starts
<1>8. RunMeasured'
  BY <1>1, <1>2, <1>3 DEF RunMeasured
<1>9. RunRead' /\ BatchStored' /\ VisitsStoredOnce'
  BY <1>1, <1>3 DEF OncePart, RunRead, BatchStored, VisitsStoredOnce, HasRead, HasStored
<1> QED BY <1>6, <1>7, <1>8, <1>9 DEF OncePart

\* A run reads what is behind the place it begins at.
LEMMA OnceRead == ASSUME Typed, OncePart, Read PROVE OncePart'
<1>1. /\ Len(log) \in Nat /\ tick.from \in Nat
      /\ tick'.from = tick.from /\ tick'.at = "read"
      /\ Len(tick'.lines) = IF tick.from < Len(log) THEN Len(log) - tick.from ELSE 0
      /\ \A i \in 1 .. Len(tick'.lines) :
            tick.from + i \in 1 .. Len(log) /\ tick'.lines[i] = log[tick.from + i]
  BY WhatIsRead
<1>2. tick.at = "measured" /\ UNCHANGED <<log, cursor, stored, repeated>>
  BY DEF Read
<1>3. \A v : Starts(v)' = Starts(v)
  BY <1>2 DEF Starts
<1>4. \A v \in Visits : Settled(v)' <=> Settled(v)
  BY <1>1, <1>2 DEF Settled, HasStored
<1>5. BehindCursor'
  BY <1>2, <1>3, <1>4 DEF OncePart, BehindCursor
<1>6. BehindRun'
  <2>1. ASSUME NEW v \in Visits, Settled(v), NEW i \in Starts(v) PROVE i <= tick.from
    BY <1>2, <2>1 DEF OncePart, BehindRun
  <2>2. ASSUME NEW v \in Visits, Settled(v), NEW i \in 1 .. Len(tick'.lines),
               IsHead(tick'.lines[i], v)
        PROVE  FALSE
    <3>1. tick.from + i \in Starts(v)
      BY <1>1, <2>2 DEF Starts
    <3> QED BY <1>1, <2>1, <2>2, <3>1
  <2> QED BY <1>1, <1>3, <1>4, <2>1, <2>2 DEF BehindRun
<1>7. RunRead'
  <2>1. CASE tick.from <= Len(log)
    <3>1. tick.from + Len(tick'.lines) <= Len(log)
      BY <1>1, <2>1
    <3> QED BY <1>1, <1>2, <3>1 DEF RunRead, StillThere
  <2>2. CASE tick.from > Len(log)
    <3>1. \A v \in Visits : stored[v] > 0 => Starts(v) = {}
      BY <1>1, <1>2, <2>2 DEF OncePart, RunMeasured
    <3>2. Len(tick'.lines) = 0
      BY <1>1, <2>2
    <3> QED BY <1>2, <1>3, <3>1, <3>2 DEF RunRead
  <2> QED BY <1>1, <2>1, <2>2
<1>8. RunMeasured' /\ BatchStored' /\ VisitsStoredOnce'
  BY <1>1, <1>2 DEF OncePart, RunMeasured, BatchStored, VisitsStoredOnce, HasStored
<1> QED BY <1>5, <1>6, <1>7, <1>8 DEF OncePart

\* The whole lines are stored: those of no settled visit are among them.
LEMMA OnceInserted == ASSUME Typed, OncePart, Insert PROVE OncePart'
<1>1. /\ tick.at = "read" /\ stored \in [Visits -> Nat]
      /\ UNCHANGED <<log, cursor, repeated>>
  BY DEF Insert, Typed
<1>2. \A v : Starts(v)' = Starts(v)
  BY <1>1 DEF Starts
<1>3. CASE tick' = NoRun /\ UNCHANGED stored
  <2>1. \A v \in Visits : Settled(v)' <=> Settled(v)
    BY <1>1, <1>3 DEF Settled, HasStored, NoRun
  <2>2. BehindCursor'
    BY <1>1, <1>2, <2>1 DEF OncePart, BehindCursor
  <2>3. VisitsStoredOnce'
    BY <1>1, <1>3 DEF OncePart, VisitsStoredOnce
  <2> QED BY <1>3, <2>2, <2>3, OnceIdle
<1>4. CASE /\ Consumed(tick.lines) > 0
           /\ stored' = [v \in Visits |-> IF v \in Batch THEN stored[v] + 1 ELSE stored[v]]
           /\ tick' = [tick EXCEPT !.at = "stored"]
  <2>1. tick'.at = "stored" /\ tick'.from = tick.from /\ tick'.lines = tick.lines
    BY <1>4 DEF Typed, Run
  <2>2. Batch' = Batch
    BY <2>1, BatchKept
  <2>3. \A v \in Visits : stored'[v] = IF v \in Batch THEN stored[v] + 1 ELSE stored[v]
    BY <1>4
  <2>4. \A v \in Visits : Settled(v)' => Settled(v)
    BY <1>1, <2>1, <2>2, <2>3 DEF Settled, HasStored
  <2>5. BehindCursor'
    BY <1>1, <1>2, <2>4 DEF OncePart, BehindCursor
  <2>6. BehindRun'
    BY <1>1, <1>2, <2>1, <2>4 DEF OncePart, BehindRun
  <2>7. RunRead'
    <3>1. ASSUME StillThere PROVE StillThere'
      BY <1>1, <2>1, <3>1 DEF StillThere
    <3>2. ASSUME NEW v \in Visits, stored'[v] > 0
          PROVE  stored[v] > 0 \/ \E i \in 1 .. Len(tick.lines) : IsHead(tick.lines[i], v)
      BY <2>3, <3>2, BatchHeads
    <3> QED BY <1>1, <1>2, <2>1, <3>1, <3>2 DEF OncePart, RunRead, HasRead
  <2>8. BatchStored'
    <3>1. \A v \in Batch : stored'[v] > 0
      BY <1>1, <2>3, BatchTyped
    <3> QED BY <1>4, <2>1, <2>2, <3>1 DEF BatchStored
  <2>9. VisitsStoredOnce'
    <3> SUFFICES ASSUME NEW v \in Visits, stored'[v] > 1, v \notin repeated
                 PROVE  FALSE
      BY <1>1 DEF VisitsStoredOnce
    <3>1. CASE v \notin Batch
      BY <2>3, <3>1 DEF OncePart, VisitsStoredOnce
    <3>2. CASE v \in Batch
      <4>1. Settled(v)
        BY <1>1, <2>3, <3>2 DEF Settled, HasStored
      <4> QED BY <1>1, <3>2, <4>1, BatchHeads DEF OncePart, BehindRun
    <3> QED BY <3>1, <3>2
  <2>10. RunMeasured'
    BY <2>1 DEF RunMeasured
  <2> QED BY <2>5, <2>6, <2>7, <2>8, <2>9, <2>10 DEF OncePart
<1> QED BY <1>3, <1>4 DEF Insert

\* The cursor file is emptied.
LEMMA OnceEmptied == ASSUME Typed, OncePart, EmptyCursor PROVE OncePart'
<1>1. /\ tick.at = "stored" /\ tick'.at = "emptied"
      /\ tick'.from = tick.from /\ tick'.lines = tick.lines
      /\ cursor' = Torn /\ UNCHANGED <<log, stored, repeated>>
  BY DEF EmptyCursor, Typed, Run
<1>2. Batch' = Batch
  BY <1>1, BatchKept
<1>3. \A v : Starts(v)' = Starts(v)
  BY <1>1 DEF Starts
<1>4. \A v \in Visits : Settled(v)' <=> Settled(v)
  BY <1>1, <1>2 DEF Settled, HasStored
<1>5. BehindCursor'
  BY <1>1 DEF BehindCursor
<1>6. BehindRun'
  BY <1>1, <1>3, <1>4 DEF OncePart, BehindRun
<1>7. StillThere' <=> StillThere
  BY <1>1 DEF StillThere
<1>8. RunRead'
  BY <1>1, <1>3, <1>7 DEF OncePart, RunRead, HasRead
<1>9. RunMeasured' /\ BatchStored' /\ VisitsStoredOnce'
  BY <1>1, <1>2 DEF OncePart, RunMeasured, BatchStored, VisitsStoredOnce, HasStored
<1> QED BY <1>5, <1>6, <1>8, <1>9 DEF OncePart

\* The cursor moves past what the run has stored.
LEMMA OnceWritten == ASSUME Typed, LogSound, OncePart, WriteCursor PROVE OncePart'
<1> DEFINE consumed == Consumed(tick.lines)
<1>1. /\ tick.at = "emptied" /\ cursor' = tick.from + consumed /\ tick' = NoRun
      /\ UNCHANGED <<log, stored, repeated>>
  BY DEF WriteCursor
<1>2. /\ tick.lines \in Seq(Piece) /\ Len(tick.lines) \in Nat /\ Len(log) \in Nat
      /\ tick.from \in Nat
  BY LenProperties DEF Typed, Run
<1>3. consumed \in 1 .. Len(tick.lines)
  BY <1>1, <1>2, ConsumedFound DEF OncePart, BatchStored, HasStored
<1> HIDE DEF consumed
<1>4. \A v : Starts(v)' = Starts(v)
  BY <1>1 DEF Starts
<1>5. \A v \in Visits : Settled(v)' <=> stored[v] > 0 /\ v \notin repeated
  BY <1>1 DEF Settled, HasStored, NoRun
<1>6. ASSUME NEW v \in Visits, stored[v] > 0, v \notin repeated, NEW i \in Starts(v)
      PROVE  i < tick.from + consumed /\ tick.from + consumed <= Len(log)
  <2>1. StillThere
    BY <1>1, <1>6 DEF OncePart, RunRead, HasRead
  <2>2. tick.from + consumed <= Len(log)
    BY <1>2, <1>3, <2>1 DEF StillThere
  <2>3. i \in Nat
    BY DEF Starts
  <2>4. CASE v \in Batch
    <3>1. PICK j \in 1 .. Len(tick.lines) : j < consumed /\ IsHead(tick.lines[j], v)
      BY <2>4, BatchHeads DEF consumed
    <3>2. tick.from + j \in 1 .. Len(log)
      BY <1>2, <2>1, <3>1 DEF StillThere
    <3>3. tick.from + j \in Starts(v)
      BY <2>1, <3>1, <3>2 DEF StillThere, Starts
    <3>4. i = tick.from + j
      BY <3>3 DEF LogSound
    <3> QED BY <1>2, <1>3, <2>2, <3>1, <3>4
  <2>5. CASE v \notin Batch
    <3>1. Settled(v)
      BY <1>6, <2>5 DEF Settled
    <3>2. i <= tick.from
      BY <1>1, <3>1 DEF OncePart, BehindRun
    <3> QED BY <1>2, <1>3, <2>2, <2>3, <3>2
  <2> QED BY <2>4, <2>5
<1>7. BehindCursor'
  BY <1>1, <1>4, <1>5, <1>6 DEF BehindCursor
<1>8. VisitsStoredOnce'
  BY <1>1 DEF OncePart, VisitsStoredOnce
<1> QED BY <1>1, <1>7, <1>8, OnceIdle

\* The collector is killed: what it has stored and not moved the cursor past is repeated.
LEMMA OnceKilled == ASSUME Typed, OncePart, Killed PROVE OncePart'
<1>1. /\ tick' = NoRun /\ UNCHANGED <<log, cursor, stored>>
      /\ repeated' = IF HasStored THEN repeated \cup Batch ELSE repeated
  BY DEF Killed, HasStored
<1>2. \A v : Starts(v)' = Starts(v)
  BY <1>1 DEF Starts
<1>3. \A v \in Visits : Settled(v)' => Settled(v)
  BY <1>1 DEF Settled
<1>4. BehindCursor'
  BY <1>1, <1>2, <1>3 DEF OncePart, BehindCursor
<1>5. VisitsStoredOnce'
  BY <1>1 DEF OncePart, VisitsStoredOnce
<1> QED BY <1>1, <1>4, <1>5, OnceIdle

\* Every step keeps the part of the invariant that VisitsStoredOnce rests on.
LEMMA OnceStep ==
    ASSUME Typed, LogSound, OncePart, [VisitsNext]_visitVars
    PROVE  OncePart'
<1>1. CASE UNCHANGED visitVars
  BY <1>1 DEF visitVars, OncePart, BehindCursor, BehindRun, RunMeasured, RunRead, BatchStored,
     VisitsStoredOnce, Settled, Starts, StillThere, HasRead, HasStored, Batch
<1> QED BY <1>1, OnceLogged, OnceRotated, OnceMeasured, OnceRead, OnceInserted, OnceEmptied,
        OnceWritten, OnceKilled DEF VisitsNext

\* Nothing is stored at first.
LEMMA OnceInit == VisitsInit => OnceInv
<1> SUFFICES ASSUME VisitsInit PROVE OnceInv
  OBVIOUS
<1>1. log = <<>> /\ Len(log) = 0 /\ tick = NoRun /\ writing = NoVisit
  BY EmptySeq DEF VisitsInit
<1>2. tick.at = "idle" /\ Len(tick.lines) = 0
  BY <1>1 DEF NoRun
<1>3. \A v \in Visits : stored[v] = 0
  BY DEF VisitsInit
<1>4. \A v : Starts(v) = {}
  BY <1>1 DEF Starts
<1>5. LogSound
  BY <1>1, <1>2, <1>3, <1>4 DEF LogSound
<1>6. OncePart
  BY <1>2, <1>3, <1>4 DEF OncePart, BehindCursor, BehindRun, RunMeasured, RunRead,
     BatchStored, VisitsStoredOnce, HasRead, HasStored
<1> QED BY <1>5, <1>6, TypedInit DEF OnceInv

\* The invariant of the stored visits holds in every reachable state.
LEMMA OnceAlways == VisitsSpec => []OnceInv
<1>1. OnceInv /\ [VisitsNext]_visitVars => OnceInv'
  BY TypedStep, LogSoundStep, OnceStep DEF OnceInv
<1> QED BY <1>1, OnceInit, PTL DEF VisitsSpec

\* A visit that is in the statistics twice was stored by a run of the collector that was
\* killed between its INSERT and the new byte offset (serverstats/collect.sh): no order of
\* the proxy's lines, torn lines, rotations and runs stores one twice otherwise.
THEOREM VisitsOnce == VisitsSpec => []VisitsStoredOnce
<1>1. OnceInv => VisitsStoredOnce
  BY DEF OnceInv, OncePart
<1> QED BY <1>1, OnceAlways, PTL

-----------------------------------------------------------------------------
(* The cursor passes over nothing.                                         *)

\* What is before the cursor stays passed while the log and the statistics only grow.
LEMMA StaysPassed ==
    ASSUME Typed, Typed', NEW n \in Nat, Passed(n),
           Len(log) <= Len(log'), \A i \in 1 .. Len(log) : log'[i] = log[i],
           \A v \in Visits : stored[v] > 0 => stored'[v] > 0
    PROVE  Passed(n)'
<1>1. /\ log \in Seq(Piece) /\ Len(log) \in Nat /\ log' \in Seq(Piece) /\ Len(log') \in Nat
      /\ n <= Len(log)
  BY LenProperties DEF Typed, Passed
<1>2. \A i \in 1 .. n : log'[i] = log[i] /\ log[i] \in Piece
  BY <1>1, ElementOfSeq
<1>3. ASSUME NEW v \in Whole(log', n) PROVE stored'[v] > 0
  <2>1. PICK i \in 2 .. n : /\ log'[i].visit = v /\ log'[i].part = "tail"
                            /\ log'[i - 1] = [log'[i] EXCEPT !.part = "head"]
    BY DEF Whole
  <2>2. log'[i] = log[i] /\ log'[i - 1] = log[i - 1] /\ log[i] \in Piece
    BY <1>1, <1>2
  <2>3. v \in Whole(log, n) /\ v \in Visits
    BY <2>1, <2>2 DEF Whole, Piece
  <2> QED BY <2>3 DEF Passed
<1>4. n # 0 => log'[n].part = "tail"
  BY <1>1, <1>2 DEF Passed
<1> QED BY <1>1, <1>3, <1>4 DEF Passed

\* The same for an idle collector, whose cursor stays.
LEMMA PassIdle ==
    ASSUME Typed, Typed', PassInv, tick' = NoRun, UNCHANGED <<log, cursor, stored, astray>>
    PROVE  PassInv'
<1>1. \A n : Passed(n) => Passed(n)'
  BY DEF Passed
<1>2. CursorPassesNothing <=> (cursor # Torn /\ ~astray => Passed(cursor))
  BY DEF CursorPassesNothing, Passed
<1>3. CursorPassesNothing' <=> (cursor' # Torn /\ ~astray' => Passed(cursor)')
  BY DEF CursorPassesNothing, Passed
<1>4. tick'.at = "idle" /\ ~tick'.noticed
  BY DEF NoRun
<1> QED BY <1>1, <1>2, <1>3, <1>4 DEF PassInv, RunPasses

\* A line that is appended stands behind the place a run starts from.
LEMMA PassLogged ==
    ASSUME OnceInv, Typed', PassInv, (\E v \in Visits : BeginLine(v)) \/ EndLine
    PROVE  PassInv'
<1>1. /\ Len(log) \in Nat /\ Len(log') = Len(log) + 1
      /\ \A i \in 1 .. Len(log) : log'[i] = log[i]
      /\ UNCHANGED <<cursor, tick, stored, repeated, astray>>
  BY WhatIsLogged DEF OnceInv
<1>2. /\ cursor \in Nat \cup {Torn} /\ tick.from \in Nat /\ Typed
      /\ tick.lines \in Seq(Piece) /\ Len(tick.lines) \in Nat
  BY LenProperties DEF OnceInv, Typed, Run
<1>3. \A n \in Nat : Passed(n) => Passed(n)'
  BY <1>1, <1>2, StaysPassed
<1>4. CursorPassesNothing'
  <2> SUFFICES ASSUME cursor # Torn, ~astray PROVE Passed(cursor)'
    BY <1>1 DEF CursorPassesNothing, Passed
  <2>1. Passed(cursor)
    BY DEF PassInv, CursorPassesNothing, Passed
  <2> QED BY <1>1, <1>2, <1>3, <2>1
<1>5. ASSUME StillThere PROVE StillThere'
  <2>1. ASSUME NEW i \in 1 .. Len(tick.lines)
        PROVE  log'[tick.from + i] = tick.lines[i]
    <3>1. tick.from + i \in 1 .. Len(log)
      BY <1>1, <1>2, <1>5 DEF StillThere
    <3> QED BY <1>1, <1>5, <3>1 DEF StillThere
  <2>2. tick.from + Len(tick.lines) <= Len(log')
    BY <1>1, <1>2, <1>5 DEF StillThere
  <2> QED BY <1>1, <2>1, <2>2 DEF StillThere
<1>6. RunPasses'
  BY <1>1, <1>2, <1>3, <1>5 DEF PassInv, RunPasses, HasRead
<1> QED BY <1>4, <1>6 DEF PassInv

\* A log begun again is empty, and so passed over only by a cursor that went astray.
LEMMA PassRotated == ASSUME Typed, Typed', PassInv, Rotate PROVE PassInv'
<1>1. /\ tick'.at = tick.at /\ tick'.noticed = FALSE /\ cursor' = cursor
      /\ astray' = (astray \/ cursor # 0 \/ tick.at # "idle") /\ log' = <<>>
  BY DEF Rotate, Typed, Run
<1>2. CursorPassesNothing'
  <2> SUFFICES ASSUME cursor # Torn, ~astray' PROVE Passed(0)'
    BY <1>1 DEF CursorPassesNothing, Passed
  <2>1. Len(log') = 0 /\ Whole(log', 0) = {}
    BY <1>1, EmptySeq DEF Whole
  <2> QED BY <2>1 DEF Passed
<1>3. RunPasses'
  BY <1>1 DEF RunPasses
<1> QED BY <1>2, <1>3 DEF PassInv

\* A run starts from the cursor, or from the beginning of a shorter log.
LEMMA PassMeasured == ASSUME Typed, Typed', PassInv, Measure PROVE PassInv'
<1> DEFINE from == IF Shrunk THEN 0 ELSE cursor
<1>1. /\ cursor \in Nat /\ from \in Nat /\ cursor # Torn
      /\ tick' = [NoRun EXCEPT !.at = "measured", !.from = from, !.noticed = (from = 0)]
      /\ UNCHANGED <<log, cursor, stored, astray>>
  BY DEF Measure, Typed
<1>2. Len(log) \in Nat
  BY LenProperties DEF Typed
<1>3. tick'.at = "measured" /\ tick'.from = from /\ (tick'.noticed <=> from = 0)
  BY <1>1 DEF NoRun
<1>4. \A n : Passed(n) => Passed(n)'
  BY <1>1 DEF Passed
<1>5. CursorPassesNothing'
  BY <1>1, <1>4 DEF PassInv, CursorPassesNothing, Passed
<1>6. Passed(0)
  BY <1>2 DEF Passed, Whole
<1>7. ~astray => Passed(from)
  <2>1. ~astray => Passed(cursor)
    BY <1>1 DEF PassInv, CursorPassesNothing, Passed
  <2> QED BY <1>6, <2>1
<1> HIDE DEF from
<1>8. RunPasses'
  BY <1>1, <1>3, <1>4, <1>6, <1>7 DEF RunPasses, HasRead
<1> QED BY <1>5, <1>8 DEF PassInv

\* What was read is in the log where it was read.
LEMMA PassRead == ASSUME Typed, Typed', PassInv, Read PROVE PassInv'
<1>1. /\ Len(log) \in Nat /\ tick.from \in Nat
      /\ tick'.from = tick.from /\ tick'.at = "read" /\ tick'.noticed = tick.noticed
      /\ Len(tick'.lines) = IF tick.from < Len(log) THEN Len(log) - tick.from ELSE 0
      /\ \A i \in 1 .. Len(tick'.lines) :
            tick.from + i \in 1 .. Len(log) /\ tick'.lines[i] = log[tick.from + i]
  BY WhatIsRead
<1>2. tick.at = "measured" /\ UNCHANGED <<log, cursor, stored, astray>>
  BY DEF Read
<1>3. \A n : Passed(n) => Passed(n)'
  BY <1>2 DEF Passed
<1>4. CursorPassesNothing'
  BY <1>2, <1>3 DEF PassInv, CursorPassesNothing, Passed
<1>5. ASSUME Passed(tick.from) PROVE StillThere'
  <2>1. tick.from + Len(tick'.lines) <= Len(log)
    BY <1>1, <1>5 DEF Passed
  <2> QED BY <1>1, <1>2, <2>1 DEF StillThere
<1>6. RunPasses'
  BY <1>1, <1>2, <1>3, <1>5 DEF PassInv, RunPasses
<1> QED BY <1>4, <1>6 DEF PassInv

\* What was read is stored.
LEMMA PassInserted == ASSUME Typed, Typed', PassInv, Insert PROVE PassInv'
<1>1. tick.at = "read" /\ stored \in [Visits -> Nat] /\ UNCHANGED <<log, cursor, astray>>
  BY DEF Insert, Typed
<1>2. CASE tick' = NoRun /\ UNCHANGED stored
  BY <1>1, <1>2, PassIdle
<1>3. CASE /\ stored' = [v \in Visits |-> IF v \in Batch THEN stored[v] + 1 ELSE stored[v]]
           /\ tick' = [tick EXCEPT !.at = "stored"]
  <2>1. /\ tick'.at = "stored" /\ tick'.from = tick.from /\ tick'.lines = tick.lines
        /\ tick'.noticed = tick.noticed
    BY <1>3 DEF Typed, Run
  <2>2. \A v \in Visits : stored[v] > 0 => stored'[v] > 0
    BY <1>1, <1>3
  <2>3. Len(log) \in Nat /\ tick.from \in Nat /\ cursor \in Nat \cup {Torn}
    BY LenProperties DEF Typed, Run
  <2>4. \A n \in Nat : Passed(n) => Passed(n)'
    BY <1>1, <2>2, <2>3, StaysPassed
  <2>5. CursorPassesNothing'
    <3> SUFFICES ASSUME cursor # Torn, ~astray PROVE Passed(cursor)'
      BY <1>1 DEF CursorPassesNothing, Passed
    <3>1. Passed(cursor)
      BY DEF PassInv, CursorPassesNothing, Passed
    <3> QED BY <1>1, <2>3, <2>4, <3>1
  <2>6. StillThere => StillThere'
    BY <1>1, <2>1 DEF StillThere
  <2>7. RunPasses'
    BY <1>1, <2>1, <2>3, <2>4, <2>6 DEF PassInv, RunPasses, HasRead
  <2> QED BY <2>5, <2>7 DEF PassInv
<1> QED BY <1>2, <1>3 DEF Insert

\* While the cursor file is empty there is no cursor.
LEMMA PassEmptied == ASSUME Typed, Typed', PassInv, EmptyCursor PROVE PassInv'
<1>1. /\ tick.at = "stored" /\ tick'.at = "emptied" /\ tick'.from = tick.from
      /\ tick'.lines = tick.lines /\ tick'.noticed = tick.noticed
      /\ cursor' = Torn /\ UNCHANGED <<log, stored, astray>>
  BY DEF EmptyCursor, Typed, Run
<1>2. \A n : Passed(n) => Passed(n)'
  BY <1>1 DEF Passed
<1>3. StillThere => StillThere'
  BY <1>1 DEF StillThere
<1>4. RunPasses'
  BY <1>1, <1>2, <1>3 DEF PassInv, RunPasses, HasRead
<1> QED BY <1>1, <1>4 DEF PassInv, CursorPassesNothing

\* The new cursor stands behind what the run has stored: a whole line before it was passed
\* already, or was read by this run; none begins before the old cursor and ends behind it,
\* as the old cursor stands behind a newline.
LEMMA PassWritten ==
    ASSUME Typed, Typed', BatchStored, PassInv, WriteCursor
    PROVE  PassInv'
<1> DEFINE consumed == Consumed(tick.lines)
<1>1. /\ tick.at = "emptied" /\ cursor' = tick.from + consumed /\ tick' = NoRun
      /\ astray' = (astray /\ ~tick.noticed) /\ UNCHANGED <<log, stored>>
  BY DEF WriteCursor
<1>2. /\ log \in Seq(Piece) /\ tick.lines \in Seq(Piece) /\ Len(tick.lines) \in Nat
      /\ Len(log) \in Nat /\ tick.from \in Nat
  BY LenProperties DEF Typed, Run
<1>3. consumed \in 1 .. Len(tick.lines) /\ tick.lines[consumed].part = "tail"
  BY <1>1, <1>2, ConsumedFound DEF BatchStored, HasStored
<1>4. tick'.at = "idle" /\ ~tick'.noticed
  BY <1>1 DEF NoRun
<1>5. RunPasses'
  BY <1>4 DEF RunPasses
<1>6. PICK end \in Nat : end = tick.from + consumed
  BY <1>2, <1>3
<1>7. ASSUME ~astray' PROVE Passed(end)'
  <2> HIDE DEF consumed
  <2>1. Passed(tick.from) /\ StillThere
    BY <1>1, <1>7 DEF PassInv, RunPasses, HasRead
  <2>2. end <= Len(log)
    BY <1>2, <1>3, <1>6, <2>1 DEF StillThere
  <2>3. \A j \in 1 .. consumed : log[tick.from + j] = tick.lines[j]
    BY <1>2, <1>3, <2>1 DEF StillThere
  <2>4. log[end].part = "tail"
    BY <1>3, <1>6, <2>3
  <2>5. ASSUME NEW v \in Whole(log, end) PROVE stored[v] > 0
    <3>1. PICK i \in 2 .. end : /\ log[i].visit = v /\ log[i].part = "tail"
                                /\ log[i - 1] = [log[i] EXCEPT !.part = "head"]
      BY DEF Whole
    <3>2. log[i] \in Piece
      <4>1. i \in 1 .. Len(log)
        BY <1>2, <2>2
      <4> QED BY <1>2, <4>1, ElementOfSeq
    <3>3. log[i - 1].part = "head"
      BY <3>1, <3>2 DEF Piece
    <3>4. CASE i <= tick.from
      <4>1. i \in 2 .. tick.from
        BY <1>2, <3>1, <3>4
      <4>2. v \in Whole(log, tick.from)
        BY <3>1, <4>1 DEF Whole
      <4> QED BY <2>1, <4>2 DEF Passed
    <3>5. CASE i = tick.from + 1
      BY <1>2, <2>1, <3>3, <3>5 DEF Passed
    <3>6. CASE i > tick.from + 1
      <4> DEFINE j == i - tick.from
      <4>1. /\ j \in 2 .. consumed /\ j - 1 \in 1 .. consumed
            /\ tick.from + j = i /\ tick.from + (j - 1) = i - 1
        <5>1. /\ i \in Nat /\ consumed \in Nat /\ tick.from \in Nat
              /\ i <= tick.from + consumed
          BY <1>2, <1>3, <1>6, <3>1
        <5> QED BY <3>6, <5>1
      <4> HIDE DEF j
      <4>2. tick.lines[j] = log[i] /\ tick.lines[j - 1] = log[i - 1]
        <5>1. j \in 1 .. consumed
          BY <1>3, <4>1
        <5>2. tick.lines[j] = log[i]
          BY <2>3, <4>1, <5>1
        <5>3. tick.lines[j - 1] = log[i - 1]
          BY <2>3, <4>1
        <5> QED BY <5>2, <5>3
      <4>3. v \in Batch
        BY <3>1, <4>1, <4>2 DEF Batch, Whole, consumed
      <4> QED BY <1>1, <4>3 DEF BatchStored, HasStored
    <3> QED BY <1>2, <3>1, <3>4, <3>5, <3>6
  <2> QED BY <1>1, <2>2, <2>4, <2>5 DEF Passed
<1>8. CursorPassesNothing'
  <2>1. cursor' = end
    BY <1>1, <1>6
  <2> QED BY <1>7, <2>1 DEF CursorPassesNothing, Passed
<1> QED BY <1>5, <1>8 DEF PassInv

\* Every step keeps the part of the invariant that CursorPassesNothing rests on.
LEMMA PassStep ==
    ASSUME OnceInv, Typed', PassInv, [VisitsNext]_visitVars
    PROVE  PassInv'
<1>1. Typed /\ BatchStored
  BY DEF OnceInv, OncePart
<1>2. CASE UNCHANGED visitVars
  BY <1>2 DEF visitVars, PassInv, CursorPassesNothing, RunPasses, Passed, StillThere, HasRead
<1>3. CASE Killed
  BY <1>1, <1>3, PassIdle DEF Killed
<1> QED BY <1>1, <1>2, <1>3, PassLogged, PassRotated, PassMeasured, PassRead, PassInserted,
        PassEmptied, PassWritten DEF VisitsNext

\* A cursor at the beginning passes nothing.
LEMMA PassInit == VisitsInit => PassInv
<1> SUFFICES ASSUME VisitsInit PROVE PassInv
  OBVIOUS
<1>1. Len(log) = 0 /\ cursor = 0 /\ Whole(log, 0) = {}
  BY EmptySeq DEF VisitsInit, Whole
<1>2. tick.at = "idle" /\ ~tick.noticed
  BY DEF VisitsInit, NoRun
<1> QED BY <1>1, <1>2 DEF PassInv, CursorPassesNothing, RunPasses

\* The cursor never passes a line that is not in the statistics, and never stands within
\* one (consumed, serverstats/collect.sh), unless the log was begun again and the collector
\* could not tell.
THEOREM NothingPassed == VisitsSpec => []CursorPassesNothing
<1>1. OnceInv /\ OnceInv' /\ PassInv /\ [VisitsNext]_visitVars => PassInv'
  BY PassStep DEF OnceInv
<1>2. PassInv => CursorPassesNothing
  BY DEF PassInv
<1> QED BY <1>1, <1>2, OnceAlways, PassInit, PTL DEF VisitsSpec
=============================================================================
