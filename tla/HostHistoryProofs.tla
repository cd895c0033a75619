---------------------------- MODULE HostHistoryProofs ----------------------------
(***************************************************************************)
(* What holds of the hourly history for every length of an hour, every     *)
(* retention and any span of time.                                         *)
(***************************************************************************)
EXTENDS HostHistory, FiniteSetTheorems, WellFoundedInduction, TLAPS

-----------------------------------------------------------------------------
(* The invariant.                                                          *)

Row == [at : Nat, value : Nat \cup {Unread}]

\* No row is of a time to come.
Typed ==
    /\ now \in Nat /\ counter \in Nat
    /\ raw \subseteq Row /\ rolled \subseteq Row
    /\ \A row \in raw \cup rolled : row.at <= now

\* Only what is past the retention is pruned.
PrunedIsOld == \A row \in rolled \ raw : row.at < now - RawKept

\* There are finitely many rows, and no two of one moment.
RowsApart ==
    /\ IsFiniteSet(raw) /\ IsFiniteSet(rolled)
    /\ \A row, other \in raw \cup rolled : row.at = other.at => row = other

\* As long as no row of an hour is pruned, and none its deltas start from, its bucket is
\* what all rows ever taken make of it.
BucketOfAllRows ==
    \A h \in Hours :
        InHour(h, rolled) # {} /\ StillRaw(h) /\ h \in DOMAIN hourly =>
            hourly[h] = Bucket(h, rolled)

HistoryInv == Typed /\ PrunedIsOld /\ RowsApart /\ HistoryHasEveryHour /\ BucketOfAllRows

-----------------------------------------------------------------------------
(* Rows and the window over them.                                          *)

\* A set of numbers below a bound has a greatest one.
LEMMA Greatest ==
    ASSUME NEW S, S # {}, NEW bound \in Nat, S \subseteq 0 .. bound
    PROVE  \E n \in S : \A m \in S : m <= n
<1> DEFINE T == {bound - n : n \in S}
<1>1. T \subseteq Nat /\ T # {}
  <2>1. \A n \in S : bound - n \in Nat
    OBVIOUS
  <2> QED BY <2>1
<1>2. \E n \in T : \A m \in T : ~(<<m, n>> \in OpToRel(<, Nat))
  <2> HIDE DEF T
  <2> QED BY <1>1, NatLessThanWellFounded, WFMin
<1>3. PICK d \in T : \A e \in T : ~(e < d)
  BY <1>1, <1>2 DEF OpToRel
<1>4. PICK n \in S : d = bound - n
  BY <1>3
<1>5. \A m \in S : ~(bound - m < bound - n)
  BY <1>3, <1>4
<1> QED BY <1>5

\* A row that follows another has one it follows directly.
LEMMA LagFound ==
    ASSUME NEW rows \in SUBSET Row, NEW row \in Row, NEW other \in rows, other.at < row.at
    PROVE  Lag(row, rows) # {}
<1> DEFINE before == {o \in rows : o.at < row.at}
           moments == {o.at : o \in before}
<1>1. moments # {} /\ moments \subseteq 0 .. row.at /\ row.at \in Nat
  BY DEF Row
<1>2. \E n \in moments : \A m \in moments : m <= n
  <2> HIDE DEF moments
  <2> QED BY <1>1, Greatest
<1>3. PICK last \in before : \A m \in moments : m <= last.at
  BY <1>2
<1>4. \A third \in before : third.at <= last.at
  BY <1>3
<1>5. last \in Lag(row, rows)
  BY <1>3, <1>4 DEF Lag
<1> QED BY <1>5

\* The window sees the same over fewer rows, as long as the row it looks back to is one.
LEMMA LagSame ==
    ASSUME NEW rows \in SUBSET Row, NEW fewer \in SUBSET rows, NEW row \in Row,
           Lag(row, rows) \subseteq fewer
    PROVE  Lag(row, fewer) = Lag(row, rows)
<1>1. ASSUME NEW last \in Lag(row, rows) PROVE last \in Lag(row, fewer)
  BY <1>1 DEF Lag
<1>2. ASSUME NEW last \in Lag(row, fewer) PROVE last \in Lag(row, rows)
  <2>1. last \in rows /\ last.at < row.at
    BY DEF Lag
  <2>2. PICK other \in Lag(row, rows) : TRUE
    BY <2>1, LagFound
  <2>3. other \in fewer /\ other.at < row.at
    BY <2>2 DEF Lag
  <2>4. other.at <= last.at
    BY <2>3 DEF Lag
  <2>5. ASSUME NEW third \in rows, third.at < row.at PROVE third.at <= last.at
    <3>1. third.at <= other.at
      BY <2>2, <2>5 DEF Lag
    <3>2. third.at \in Nat /\ other.at \in Nat /\ last.at \in Nat
      BY <2>1, <2>3 DEF Row
    <3> QED BY <2>4, <3>1, <3>2
  <2> QED BY <2>1, <2>5 DEF Lag
<1> QED BY <1>1, <1>2

\* And a bucket is the same over fewer rows, as long as they hold what its hour looks at.
LEMMA BucketSame ==
    ASSUME NEW rows \in SUBSET Row, NEW fewer \in SUBSET rows, NEW h \in Hours,
           InHour(h, rows) \subseteq fewer,
           \A row \in InHour(h, rows) : Lag(row, rows) \subseteq fewer
    PROVE  Bucket(h, fewer) = Bucket(h, rows)
<1>1. InHour(h, fewer) = InHour(h, rows)
  BY DEF InHour
<1>2. ASSUME NEW row \in InHour(h, rows) PROVE Delta(row, fewer) = Delta(row, rows)
  <2>1. row \in Row
    BY DEF InHour
  <2>2. Lag(row, fewer) = Lag(row, rows)
    BY <2>1, LagSame
  <2> QED BY <2>2 DEF Delta
<1>3. {<<row, Delta(row, fewer)>> : row \in InHour(h, fewer)}
        = {<<row, Delta(row, rows)>> : row \in InHour(h, rows)}
  BY <1>1, <1>2
<1> QED BY <1>1, <1>3 DEF Bucket

-----------------------------------------------------------------------------
(* Sums.                                                                   *)

\* A set of numbers that holds 0, and with each number the next, holds all.
LEMMA AllNumbers ==
    ASSUME NEW P \in SUBSET Nat, 0 \in P, \A n \in P : n + 1 \in P
    PROVE  \A n \in Nat : n \in P
<1> DEFINE T == Nat \ P
<1> SUFFICES ASSUME T # {} PROVE FALSE
  OBVIOUS
<1>1. \E n \in T : \A m \in T : ~(<<m, n>> \in OpToRel(<, Nat))
  <2>1. T \subseteq Nat
    OBVIOUS
  <2> HIDE DEF T
  <2> QED BY <2>1, NatLessThanWellFounded, WFMin
<1>2. PICK n \in T : \A m \in T : ~(m < n)
  BY <1>1 DEF OpToRel
<1>3. n - 1 \in Nat /\ n - 1 < n
  BY <1>2
<1>4. n - 1 \in P
  BY <1>2, <1>3
<1>5. (n - 1) + 1 \in P
  BY <1>4
<1> QED BY <1>2, <1>3, <1>5

\* The columns a sum is taken over: finitely many pairs, the second of each a number.
Column(S) == IsFiniteSet(S) /\ \A pair \in S : pair[2] \in Int

\* Total as a function of the parts of a column.
Pick(s) == CHOOSE x \in s : TRUE
Sums(g, S) == g = [s \in SUBSET S |-> IF s = {} THEN 0 ELSE Pick(s)[2] + g[s \ {Pick(s)}]]

Parts(S, n) == {s \in SUBSET S : Cardinality(s) <= n}
SumsTo(g, S, n) ==
    /\ g \in [Parts(S, n) -> Int]
    /\ \A s \in Parts(S, n) : g[s] = IF s = {} THEN 0 ELSE Pick(s)[2] + g[s \ {Pick(s)}]

\* A part of a column is one, and smaller by one without what is picked of it.
LEMMA PartOf ==
    ASSUME NEW S, Column(S), NEW s \in SUBSET S
    PROVE  /\ Column(s) /\ Cardinality(s) \in Nat
           /\ \A x \in s : Cardinality(s \ {x}) = Cardinality(s) - 1 /\ Cardinality(s) > 0
           /\ s # {} => Cardinality(s) > 0 /\ Pick(s) \in s /\ Pick(s)[2] \in Int
<1>1. IsFiniteSet(s) /\ Cardinality(s) \in Nat
  BY FS_Subset, FS_CardinalityType DEF Column
<1>2. ASSUME NEW x \in s PROVE Cardinality(s \ {x}) = Cardinality(s) - 1 /\ Cardinality(s) > 0
  BY <1>1, FS_RemoveElement, FS_EmptySet, FS_CardinalityType
<1>3. s # {} => Pick(s) \in s
  BY DEF Pick
<1> QED BY <1>1, <1>2, <1>3 DEF Column

\* The recursion behind Total has a solution.
LEMMA SumsExist == ASSUME NEW S, Column(S) PROVE \E g \in [SUBSET S -> Int] : Sums(g, S)
<1> DEFINE P == {n \in Nat : \E g : SumsTo(g, S, n)}
<1>1. 0 \in P
  <2> DEFINE g == [s \in Parts(S, 0) |-> 0]
  <2>1. \A s \in Parts(S, 0) : s = {}
    BY PartOf DEF Parts
  <2>2. SumsTo(g, S, 0)
    BY <2>1 DEF SumsTo
  <2> QED BY <2>2
<1>2. ASSUME NEW n \in P PROVE n + 1 \in P
  <2>1. n \in Nat
    OBVIOUS
  <2>2. PICK g : SumsTo(g, S, n)
    OBVIOUS
  <2> DEFINE h == [s \in Parts(S, n + 1) |-> IF s = {} THEN 0 ELSE Pick(s)[2] + g[s \ {Pick(s)}]]
  <2>3. \A s \in Parts(S, n) : s \in Parts(S, n + 1) /\ h[s] = g[s]
    <3>1. \A s \in Parts(S, n) : s \in Parts(S, n + 1)
      BY <2>1, PartOf DEF Parts
    <3> QED BY <2>2, <3>1 DEF SumsTo
  <2>4. ASSUME NEW s \in Parts(S, n + 1), s # {}
        PROVE  Pick(s)[2] \in Int /\ s \ {Pick(s)} \in Parts(S, n)
    <3>1. s \in SUBSET S /\ Cardinality(s) <= n + 1
      BY DEF Parts
    <3>2. Cardinality(s) \in Nat /\ Cardinality(s \ {Pick(s)}) = Cardinality(s) - 1
      BY <2>4, <3>1, PartOf
    <3>3. Pick(s)[2] \in Int
      BY <2>4, <3>1, PartOf
    <3> QED BY <2>1, <3>1, <3>2, <3>3 DEF Parts
  <2>5. h \in [Parts(S, n + 1) -> Int]
    <3>1. \A s \in Parts(S, n + 1) : s # {} => Pick(s)[2] + g[s \ {Pick(s)}] \in Int
      BY <2>2, <2>4 DEF SumsTo
    <3> QED BY <3>1
  <2>6. \A s \in Parts(S, n + 1) : h[s] = IF s = {} THEN 0 ELSE Pick(s)[2] + h[s \ {Pick(s)}]
    BY <2>3, <2>4
  <2>7. SumsTo(h, S, n + 1)
    BY <2>5, <2>6 DEF SumsTo
  <2> HIDE DEF h
  <2> QED BY <2>1, <2>7
<1> HIDE DEF P
<1>3. \A n \in Nat : n \in P
  <2>1. P \in SUBSET Nat
    BY DEF P
  <2> QED BY <1>1, <1>2, <2>1, AllNumbers
<1>4. Cardinality(S) \in Nat
  BY FS_CardinalityType DEF Column
<1>5. PICK g : SumsTo(g, S, Cardinality(S))
  BY <1>3, <1>4 DEF P
<1>6. Parts(S, Cardinality(S)) = SUBSET S
  BY FS_Subset DEF Column, Parts
<1> QED BY <1>5, <1>6 DEF SumsTo, Sums

\* Solutions over a part and over the whole agree on the part.
LEMMA SumsAgree ==
    ASSUME NEW S, Column(S), NEW T \in SUBSET S,
           NEW f, Sums(f, S), NEW g, Sums(g, T)
    PROVE  \A s \in SUBSET T : f[s] = g[s]
<1> DEFINE P == {n \in Nat : \A s \in SUBSET T : Cardinality(s) = n => f[s] = g[s]}
<1>0. \A s \in SUBSET T : s \in SUBSET S
  OBVIOUS
<1>a. \A s \in SUBSET S : f[s] = IF s = {} THEN 0 ELSE Pick(s)[2] + f[s \ {Pick(s)}]
  BY DEF Sums
<1>b. \A s \in SUBSET T : g[s] = IF s = {} THEN 0 ELSE Pick(s)[2] + g[s \ {Pick(s)}]
  BY DEF Sums
<1>1. 0 \in P
  <2> SUFFICES ASSUME NEW s \in SUBSET T, Cardinality(s) = 0 PROVE f[s] = g[s]
    OBVIOUS
  <2>1. s = {}
    BY <1>0, PartOf
  <2> QED BY <1>0, <1>a, <1>b, <2>1
<1>2. ASSUME NEW n \in P PROVE n + 1 \in P
  <2> SUFFICES ASSUME NEW s \in SUBSET T, Cardinality(s) = n + 1 PROVE f[s] = g[s]
    OBVIOUS
  <2>1. s # {}
    BY FS_EmptySet
  <2>2. Cardinality(s \ {Pick(s)}) = n /\ s \ {Pick(s)} \in SUBSET T
    BY <1>0, <2>1, PartOf
  <2>3. f[s \ {Pick(s)}] = g[s \ {Pick(s)}]
    BY <2>2
  <2> QED BY <1>0, <1>a, <1>b, <2>1, <2>3
<1> HIDE DEF P
<1>3. \A n \in Nat : n \in P
  <2>1. P \in SUBSET Nat
    BY DEF P
  <2> QED BY <1>1, <1>2, <2>1, AllNumbers
<1>4. ASSUME NEW s \in SUBSET T PROVE f[s] = g[s]
  <2>1. Cardinality(s) \in Nat
    BY <1>0, PartOf
  <2> QED BY <1>3, <2>1 DEF P
<1> QED BY <1>4

\* A sum is one element and the sum of the others, for the one that is picked.
LEMMA TotalPicked ==
    ASSUME NEW S, Column(S)
    PROVE  /\ Total(S) \in Int
           /\ Total(S) = IF S = {} THEN 0 ELSE Pick(S)[2] + Total(S \ {Pick(S)})
<1> DEFINE rest == S \ {Pick(S)}
           f == CHOOSE g : Sums(g, S)
           r == CHOOSE g : Sums(g, rest)
<1>1. Column(rest) /\ rest \in SUBSET S
  BY PartOf
<1>2. Total(S) = f[S] /\ Total(rest) = r[rest]
  BY DEF Total, MapThenSumSet, MapThenFoldSet, Sums, Pick
<1>3. Sums(f, S) /\ Sums(r, rest)
  BY <1>1, SumsExist
<1>4. PICK g \in [SUBSET S -> Int] : Sums(g, S)
  BY SumsExist
<1> HIDE DEF f, r
<1>5. \A s \in SUBSET S : f[s] = g[s]
  BY <1>3, <1>4, SumsAgree
<1>6. f[rest] = r[rest]
  BY <1>1, <1>3, SumsAgree
<1>7. f[S] = IF S = {} THEN 0 ELSE Pick(S)[2] + f[rest]
  BY <1>3 DEF Sums
<1> QED BY <1>2, <1>4, <1>5, <1>6, <1>7

\* And for any other.
LEMMA TotalWithout ==
    ASSUME NEW S, Column(S), NEW x \in S
    PROVE  Total(S) = x[2] + Total(S \ {x})
<1> DEFINE P == {n \in Nat : \A s \in SUBSET S : Cardinality(s) = n =>
                     \A y \in s : Total(s) = y[2] + Total(s \ {y})}
<1>1. 0 \in P
  BY PartOf
<1>2. ASSUME NEW n \in P PROVE n + 1 \in P
  <2> SUFFICES ASSUME NEW s \in SUBSET S, Cardinality(s) = n + 1, NEW y \in s
               PROVE  Total(s) = y[2] + Total(s \ {y})
    OBVIOUS
  <2> DEFINE p == Pick(s)
  <2>1. p \in s /\ Column(s) /\ \A z \in s : z[2] \in Int
    BY PartOf DEF Column
  <2>2. Total(s) = p[2] + Total(s \ {p})
    BY <2>1, TotalPicked
  <2>3. CASE y = p
    BY <2>2, <2>3
  <2>4. CASE y # p
    <3>1. s \ {p} \in SUBSET S /\ s \ {y} \in SUBSET S
      OBVIOUS
    <3>2. Cardinality(s \ {p}) = n /\ Cardinality(s \ {y}) = n
      BY <2>1, PartOf
    <3>3. (s \ {p}) \ {y} = (s \ {y}) \ {p}
      OBVIOUS
    <3> DEFINE others == Total((s \ {y}) \ {p})
    <3>4. Total(s \ {p}) = y[2] + others
      BY <2>4, <3>1, <3>2, <3>3
    <3>5. Total(s \ {y}) = p[2] + others
      BY <2>1, <2>4, <3>1, <3>2
    <3>6. others \in Int
      <4>1. Column((s \ {y}) \ {p})
        BY PartOf
      <4> QED BY <4>1, TotalPicked
    <3>7. p[2] \in Int /\ y[2] \in Int
      BY <2>1
    <3> HIDE DEF p, others
    <3> QED BY <2>2, <3>4, <3>5, <3>6, <3>7
  <2> QED BY <2>3, <2>4
<1> HIDE DEF P
<1>3. \A n \in Nat : n \in P
  <2>1. P \in SUBSET Nat
    BY DEF P
  <2> QED BY <1>1, <1>2, <2>1, AllNumbers
<1>4. S \in SUBSET S /\ Cardinality(S) \in Nat
  BY FS_CardinalityType DEF Column
<1> QED BY <1>3, <1>4 DEF P

\* What adds nothing may be left out.
LEMMA TotalOfNonzero ==
    ASSUME NEW S, Column(S)
    PROVE  Total(S) = Total({pair \in S : pair[2] # 0})
<1> DEFINE some(s) == {pair \in s : pair[2] # 0}
           P == {n \in Nat : \A s \in SUBSET S : Cardinality(s) = n => Total(s) = Total(some(s))}
<1>1. 0 \in P
  <2> SUFFICES ASSUME NEW s \in SUBSET S, Cardinality(s) = 0 PROVE Total(s) = Total(some(s))
    OBVIOUS
  <2>1. s = {}
    BY PartOf
  <2> QED BY <2>1
<1>2. ASSUME NEW n \in P PROVE n + 1 \in P
  <2> SUFFICES ASSUME NEW s \in SUBSET S, Cardinality(s) = n + 1
               PROVE  Total(s) = Total(some(s))
    OBVIOUS
  <2>1. PICK y : y \in s
    BY FS_EmptySet
  <2>2. Column(s) /\ Column(some(s)) /\ Column(s \ {y})
    BY PartOf
  <2>3. Cardinality(s \ {y}) = n /\ s \ {y} \in SUBSET S
    BY <2>1, PartOf
  <2>4. Total(s) = y[2] + Total(s \ {y})
    BY <2>1, <2>2, TotalWithout
  <2>5. Total(s \ {y}) = Total(some(s \ {y})) /\ Total(s \ {y}) \in Int
    BY <2>2, <2>3, TotalPicked
  <2>6. CASE y[2] = 0
    <3>1. some(s \ {y}) = some(s)
      BY <2>6
    <3> QED BY <2>4, <2>5, <2>6, <3>1
  <2>7. CASE y[2] # 0
    <3>1. some(s \ {y}) = some(s) \ {y} /\ y \in some(s)
      BY <2>1, <2>7
    <3>2. Total(some(s)) = y[2] + Total(some(s) \ {y})
      BY <2>2, <3>1, TotalWithout
    <3> QED BY <2>4, <2>5, <3>1, <3>2
  <2> QED BY <2>6, <2>7
<1> HIDE DEF P
<1>3. \A n \in Nat : n \in P
  <2>1. P \in SUBSET Nat
    BY DEF P
  <2> QED BY <1>1, <1>2, <2>1, AllNumbers
<1>4. S \in SUBSET S /\ Cardinality(S) \in Nat
  BY FS_CardinalityType DEF Column
<1> QED BY <1>3, <1>4 DEF P

-----------------------------------------------------------------------------
(* Deltas and rises.                                                       *)

Apart(rows) == \A row, other \in rows : row.at = other.at => row = other

\* Where no two rows are of one moment, the window looks back to at most one.
LEMMA LagSingle ==
    ASSUME NEW rows \in SUBSET Row, Apart(rows), NEW row \in rows,
           NEW last \in Lag(row, rows), NEW other \in Lag(row, rows)
    PROVE  last = other
<1>1. last \in rows /\ other \in rows /\ last.at <= other.at /\ other.at <= last.at
  BY DEF Lag
<1>2. last.at \in Nat /\ other.at \in Nat
  BY <1>1 DEF Row
<1> QED BY <1>1, <1>2 DEF Apart

\* A delta is nothing, or the rise since the row before.
LEMMA DeltaIsRise ==
    ASSUME NEW rows \in SUBSET Row, Apart(rows), NEW row \in rows
    PROVE  /\ Delta(row, rows) \in Int
           /\ \A last \in Lag(row, rows) :
                 Delta(row, rows) = IF Rises(last, row) THEN row.value - last.value ELSE 0
           /\ Lag(row, rows) = {} => Delta(row, rows) = 0
<1>1. \A last \in Lag(row, rows) : last \in Row
  BY DEF Lag
<1>2. row \in Row
  OBVIOUS
<1>3. CASE Lag(row, rows) = {}
  BY <1>3 DEF Delta
<1>4. CASE Lag(row, rows) # {}
  <2>1. PICK last \in Lag(row, rows) : TRUE
    BY <1>4
  <2>2. \A other \in Lag(row, rows) : other = last
    BY <2>1, LagSingle
  <2>3. (CHOOSE other \in Lag(row, rows) : TRUE) = last
    BY <2>1, <2>2
  <2>4. Delta(row, rows) = IF Rises(last, row) THEN row.value - last.value ELSE 0
    BY <2>1, <2>2, <2>3 DEF Delta
  <2>5. Rises(last, row) => last.value \in Nat /\ row.value \in Nat
    BY <1>1, <1>2, <2>1 DEF Row, Rises
  <2> QED BY <1>4, <2>2, <2>4, <2>5
<1> QED BY <1>3, <1>4

\* The deltas of an hour's rows sum up to what the counter rose between neighbouring rows.
LEMMA DeltasAreTraffic ==
    ASSUME NEW rows \in SUBSET Row, Apart(rows), IsFiniteSet(rows), NEW h
    PROVE  Total({<<row, Delta(row, rows)>> : row \in InHour(h, rows)}) = Traffic(h, rows)
<1> DEFINE hour == InHour(h, rows)
           deltas == {<<row, Delta(row, rows)>> : row \in hour}
           steps == {step \in rows \X hour :
                       /\ step[1].at < step[2].at /\ Rises(step[1], step[2])
                       /\ \A row \in rows : row.at <= step[1].at \/ row.at >= step[2].at}
           rises == {<<step[2], step[2].value - step[1].value>> : step \in steps}
<1>1. hour \in SUBSET rows /\ IsFiniteSet(hour)
  <2>1. hour \in SUBSET rows
    BY DEF InHour
  <2> QED BY <2>1, FS_Subset
<1>2. Column(deltas)
  <2> DEFINE f == [row \in hour |-> <<row, Delta(row, rows)>>]
  <2>1. f \in Surjection(hour, deltas)
    BY DEF Surjection
  <2>2. IsFiniteSet(deltas)
    BY <1>1, <2>1, FS_Surjection
  <2>3. \A pair \in deltas : pair[2] \in Int
    BY <1>1, DeltaIsRise
  <2> QED BY <2>2, <2>3 DEF Column
<1>3. ASSUME NEW row \in hour, NEW last \in rows
      PROVE  <<last, row>> \in steps <=> last \in Lag(row, rows) /\ Rises(last, row)
  <2>1. \A other \in rows : other.at \in Nat
    BY DEF Row
  <2> QED BY <1>1, <2>1 DEF Lag
<1>4. ASSUME NEW pair \in rises PROVE pair \in deltas /\ pair[2] # 0
  <2>1. PICK step \in steps : pair = <<step[2], step[2].value - step[1].value>>
    OBVIOUS
  <2>2. step[1] \in rows /\ step[2] \in hour /\ step = <<step[1], step[2]>>
    OBVIOUS
  <2>3. step[1] \in Lag(step[2], rows) /\ Rises(step[1], step[2])
    BY <1>3, <2>2
  <2>4. Delta(step[2], rows) = step[2].value - step[1].value
    BY <1>1, <2>2, <2>3, DeltaIsRise
  <2>5. /\ step[1].value \in Nat /\ step[2].value \in Nat
        /\ step[1].value < step[2].value
    BY <1>1, <2>2, <2>3 DEF Row, Rises
  <2> HIDE DEF steps, hour
  <2> QED BY <2>1, <2>2, <2>3, <2>4, <2>5
<1>5. ASSUME NEW pair \in deltas, pair[2] # 0 PROVE pair \in rises
  <2>1. PICK row \in hour : pair = <<row, Delta(row, rows)>>
    OBVIOUS
  <2>2. PICK last \in Lag(row, rows) : Rises(last, row)
    BY <1>1, <1>5, <2>1, DeltaIsRise
  <2>3. last \in rows /\ Delta(row, rows) = row.value - last.value
    BY <1>1, <2>2, DeltaIsRise DEF Lag
  <2>4. <<last, row>> \in steps
    BY <1>3, <2>2, <2>3
  <2>5. pair = <<<<last, row>>[2], <<last, row>>[2].value - <<last, row>>[1].value>>
    BY <2>1, <2>3
  <2> HIDE DEF steps, hour
  <2> QED BY <2>4, <2>5
<1>6. {pair \in deltas : pair[2] # 0} = rises
  <2> HIDE DEF deltas, rises
  <2> QED BY <1>4, <1>5
<1>7. Total(deltas) = Total(rises)
  <2> HIDE DEF deltas, rises
  <2> QED BY <1>2, <1>6, TotalOfNonzero
<1> QED BY <1>7 DEF Traffic

-----------------------------------------------------------------------------
(* The steps.                                                              *)

\* An empty history satisfies the invariant.
LEMMA HistoryStarts == HistoryInit => HistoryInv
<1> SUFFICES ASSUME HistoryInit PROVE HistoryInv
  OBVIOUS
<1>1. Typed /\ PrunedIsOld
  BY DEF HistoryInit, Typed, PrunedIsOld
<1>2. \A h : InHour(h, rolled) = {}
  BY DEF HistoryInit, InHour
<1>3. RowsApart
  BY FS_EmptySet DEF HistoryInit, RowsApart
<1> QED BY <1>1, <1>2, <1>3 DEF HistoryInv, HistoryHasEveryHour, BucketOfAllRows

\* Time passes, and nothing is as young as it was.
LEMMA TimeKeeps == HistoryInv /\ TimePasses => HistoryInv'
<1> SUFFICES ASSUME HistoryInv, TimePasses PROVE HistoryInv'
  OBVIOUS
<1>1. now' = now + 1 /\ now \in Nat /\ UNCHANGED <<raw, hourly, rolled>>
  BY DEF TimePasses, HistoryInv, Typed
<1>2. Typed'
  <2>1. counter' \in Nat
    BY DEF TimePasses, HistoryInv, Typed
  <2>2. \A row \in raw \cup rolled : row.at \in Nat /\ row.at <= now
    BY DEF HistoryInv, Typed, Row
  <2> QED BY <1>1, <2>1, <2>2 DEF HistoryInv, Typed
<1>3. PrunedIsOld'
  <2>1. \A row \in rolled : row.at \in Nat
    BY DEF HistoryInv, Typed, Row
  <2> QED BY <1>1, <2>1, HistoryAssumption DEF HistoryInv, PrunedIsOld
<1>4. HistoryHasEveryHour'
  <2> SUFFICES ASSUME NEW h \in Hours, InHour(h, rolled) # {}, h \notin DOMAIN hourly
               PROVE  h * Hour < now' - HourlyKept
    BY <1>1 DEF HistoryHasEveryHour
  <2>1. h * Hour < now - HourlyKept
    BY DEF HistoryInv, HistoryHasEveryHour
  <2>2. h * Hour \in Int
    BY HistoryAssumption DEF Hours
  <2> QED BY <1>1, <2>1, <2>2, HistoryAssumption
<1>5. BucketOfAllRows'
  BY <1>1 DEF HistoryInv, BucketOfAllRows, StillRaw
<1>6. RowsApart'
  BY <1>1 DEF HistoryInv, RowsApart
<1> QED BY <1>2, <1>3, <1>4, <1>5, <1>6 DEF HistoryInv

\* The new row is none that was pruned before.
LEMMA SampleKeeps == HistoryInv /\ Sample => HistoryInv'
<1> SUFFICES ASSUME HistoryInv, Sample PROVE HistoryInv'
  OBVIOUS
<1>0. PICK value \in {counter, Unread} : raw' = raw \cup {[at |-> now, value |-> value]}
  BY DEF Sample
<1> DEFINE new == [at |-> now, value |-> value]
<1>1. raw' = raw \cup {new} /\ UNCHANGED <<now, counter, hourly, rolled>>
  BY <1>0 DEF Sample
<1>2. Typed'
  BY <1>1 DEF HistoryInv, Typed, Row
<1>3. PrunedIsOld'
  BY <1>1 DEF HistoryInv, PrunedIsOld
<1>4. HistoryHasEveryHour'
  BY <1>1 DEF HistoryInv, HistoryHasEveryHour
<1>5. new \notin rolled
  <2>1. new \notin raw
    BY DEF Sample, HistoryInv, Typed
  <2>2. ~(now < now - RawKept)
    BY HistoryAssumption DEF HistoryInv, Typed
  <2> QED BY <2>1, <2>2 DEF HistoryInv, PrunedIsOld
<1> HIDE DEF new
<1>6. ASSUME NEW h, StillRaw(h)' PROVE StillRaw(h)
  <2>1. InHour(h, rolled) \subseteq rolled /\ \A row : Lag(row, rolled) \subseteq rolled
    BY DEF InHour, Lag
  <2> QED BY <1>1, <1>5, <1>6, <2>1 DEF StillRaw
<1>7. BucketOfAllRows'
  BY <1>1, <1>6 DEF HistoryInv, BucketOfAllRows
<1>8. RowsApart'
  <2>1. \A row \in rolled \ raw : row.at # now
    BY HistoryAssumption DEF HistoryInv, PrunedIsOld, Typed
  <2>2. \A row \in raw : row.at # now
    BY DEF Sample, HistoryInv, Typed
  <2>3. \A row \in raw \cup rolled : row.at # new.at
    BY <2>1, <2>2 DEF new
  <2>4. IsFiniteSet(raw')
    BY <1>1, FS_AddElement DEF HistoryInv, RowsApart
  <2> QED BY <1>1, <2>3, <2>4 DEF HistoryInv, RowsApart
<1> QED BY <1>2, <1>3, <1>4, <1>7, <1>8 DEF HistoryInv

\* What is pruned was folded before; an hour that keeps what its bucket is made of is
\* folded anew over all of it.
LEMMA RollupKeeps == HistoryInv /\ RollupAndPrune => HistoryInv'
<1> SUFFICES ASSUME HistoryInv, RollupAndPrune PROVE HistoryInv'
  OBVIOUS
<1>1. /\ hourly' = Folded /\ rolled' = rolled \cup raw
      /\ raw' = {row \in raw : row.at >= now - RawKept}
      /\ UNCHANGED <<now, counter>>
  BY DEF RollupAndPrune
<1>2. Typed /\ Typed'
  BY <1>1 DEF HistoryInv, Typed
<1>3. \A row \in raw \cup rolled : row.at \in Nat
  BY <1>2 DEF Typed, Row
<1>4. PrunedIsOld'
  <2>1. \A row \in raw : row \in raw' \/ row.at < now - RawKept
    BY <1>1, <1>2, <1>3, HistoryAssumption DEF Typed
  <2>2. \A row \in rolled : row \in raw \/ row.at < now - RawKept
    BY DEF HistoryInv, PrunedIsOld
  <2> QED BY <1>1, <2>1, <2>2 DEF PrunedIsOld
<1>5. /\ DOMAIN Folded
           = {h \in Hours : ~Expired(h) /\ (InHour(h, raw) # {} \/ h \in DOMAIN hourly)}
      /\ \A h \in DOMAIN Folded : InHour(h, raw) # {} => Folded[h] = Bucket(h, raw)
  BY DEF Folded
<1>6. HistoryHasEveryHour'
  <2> SUFFICES ASSUME NEW h \in Hours, InHour(h, rolled \cup raw) # {}, ~Expired(h)
               PROVE  h \in DOMAIN Folded
    BY <1>1 DEF HistoryHasEveryHour, Expired
  <2>1. InHour(h, raw) # {} \/ InHour(h, rolled) # {}
    BY DEF InHour
  <2>2. InHour(h, rolled) # {} => h \in DOMAIN hourly
    BY DEF HistoryInv, HistoryHasEveryHour, Expired
  <2> QED BY <1>5, <2>1, <2>2
<1>7. BucketOfAllRows'
  <2> SUFFICES ASSUME NEW h \in Hours, InHour(h, rolled') # {}, StillRaw(h)',
                      h \in DOMAIN Folded
               PROVE  Folded[h] = Bucket(h, rolled')
    BY <1>1 DEF BucketOfAllRows
  <2>1. /\ InHour(h, rolled') \subseteq raw'
        /\ \A row \in InHour(h, rolled') : Lag(row, rolled') \subseteq raw'
    BY DEF StillRaw
  <2>2. raw' \subseteq raw /\ raw \subseteq rolled' /\ rolled' \subseteq Row
    BY <1>1, <1>2 DEF Typed
  <2>3. Bucket(h, raw) = Bucket(h, rolled')
    BY <2>1, <2>2, BucketSame
  <2>4. InHour(h, raw) # {}
    BY <2>1, <2>2 DEF InHour
  <2> QED BY <1>5, <2>3, <2>4
<1>8. RowsApart'
  <2>1. IsFiniteSet(raw') /\ IsFiniteSet(rolled')
    BY <1>1, FS_Subset, FS_Union DEF HistoryInv, RowsApart
  <2> QED BY <1>1, <2>1 DEF HistoryInv, RowsApart
<1> QED BY <1>2, <1>4, <1>6, <1>7, <1>8 DEF HistoryInv

\* Every step of the history keeps the invariant.
LEMMA HistoryStep == HistoryInv /\ [HistoryNext]_historyVars => HistoryInv'
<1>1. HistoryInv /\ UNCHANGED historyVars => HistoryInv'
  BY DEF HistoryInv, historyVars, Typed, PrunedIsOld, RowsApart, HistoryHasEveryHour,
     BucketOfAllRows, StillRaw
<1> QED BY <1>1, TimeKeeps, SampleKeeps, RollupKeeps DEF HistoryNext

\* The invariant holds in every reachable state.
LEMMA HistoryAlways == HistorySpec => []HistoryInv
  BY HistoryStarts, HistoryStep, PTL DEF HistorySpec

\* rollup_and_prune (gf_0007) never prunes a row that was not folded into a bucket, and
\* never drops a bucket before its own retention, however rarely it is called.
THEOREM EveryHour == HistorySpec => []HistoryHasEveryHour
<1>1. HistoryInv => HistoryHasEveryHour
  BY DEF HistoryInv
<1> QED BY <1>1, HistoryAlways, PTL

\* "A month's sum is the monthly total" (gf_0007:136-137), but for what rows without a reading
\* hide: an hour none of whose rows is pruned, and none the first of its deltas starts from,
\* has in its bucket what the counter rose between neighbours, of the rows ever taken, that
\* were both read, no matter at which calls it was folded.
THEOREM BucketsExact == HistorySpec => []BucketsExactWhileRaw
<1>1. HistoryInv => BucketsExactWhileRaw
  <2> SUFFICES ASSUME HistoryInv,
                      NEW h \in Hours, InHour(h, rolled) # {}, StillRaw(h), h \in DOMAIN hourly
               PROVE  hourly[h] = [samples |-> Cardinality(InHour(h, rolled)),
                                   sum |-> Traffic(h, rolled)]
    BY DEF BucketsExactWhileRaw
  <2>1. hourly[h] = Bucket(h, rolled)
    BY DEF HistoryInv, BucketOfAllRows
  <2>2. rolled \in SUBSET Row /\ Apart(rolled) /\ IsFiniteSet(rolled)
    BY DEF HistoryInv, Typed, RowsApart, Apart
  <2>3. Total({<<row, Delta(row, rolled)>> : row \in InHour(h, rolled)}) = Traffic(h, rolled)
    BY <2>2, DeltasAreTraffic
  <2> QED BY <2>1, <2>3 DEF Bucket
<1> QED BY <1>1, HistoryAlways, PTL
=============================================================================
