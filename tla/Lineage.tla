------------------------------- MODULE Lineage -------------------------------
(***************************************************************************)
(* The lineage graph of the documentation pages (crudman/app/docs/         *)
(* lineage.py): the columns its models stand in, and the chart drawn of    *)
(* them.  What the export names grows model by model and dependency by     *)
(* dependency, in any order and into cycles too.                           *)
(***************************************************************************)
EXTENDS Integers, Sequences, FiniteSets, Functions

CONSTANTS
    Models,    \* names of models, numbers for their order
    Source     \* a table that is read and not defined

ASSUME LineageAssumption == Models \subseteq Nat /\ Source \notin Models

VARIABLES
    order,     \* the exported models, in the order of the export
    reads      \* depends_on

lineageVars == <<order, reads>>

LineageInit == order = <<>> /\ reads = [m \in Models |-> {}]

Known == {order[i] : i \in 1..Len(order)}

ExportModel(m) ==
    /\ m \notin Known
    /\ order' = Append(order, m)
    /\ UNCHANGED reads

ExportDependency(m, on) ==
    /\ reads' = [reads EXCEPT ![m] = @ \cup {on}]
    /\ UNCHANGED order

LineageNext == \E m \in Models :
    ExportModel(m) \/ \E on \in Models \cup {Source} : ExportDependency(m, on)

LineageSpec == LineageInit /\ [][LineageNext]_lineageVars

-----------------------------------------------------------------------------
(* levels.                                                                 *)

\* A mutant of Parents: a model stands behind the first it reads.
FirstParent(m) == {p \in reads[m] \cap Known : \A q \in reads[m] \cap Known : p <= q}

\* What is not a model of the export is passed over.
Parents(m) == reads[m] \cap Known

\* What max answers for no parents; in depths, a model without an entry.
None == -1

\* The depths known so far, the models asked for one after the other, and those that are
\* being asked for already.
Calls == [depths : [Known -> Nat \cup {None}], models : SUBSET Known, seen : SUBSET Known]

\* depth: the depths known afterwards and the answer, of which `behind` is what asking the
\* parents gives.
Depth(c, m, behind) ==
    CASE c.depths[m] # None -> [depths |-> c.depths, answer |-> c.depths[m]]
      [] c.depths[m] = None /\ m \in c.seen -> [depths |-> c.depths, answer |-> 0]
      [] OTHER -> [depths |-> [behind.depths EXCEPT ![m] = behind.answer + 1],
                   answer |-> behind.answer + 1]

\* The parents are asked in their order, depends_on being sorted, and the deepest counts.
Deepest(ask, c) ==
    LET m == CHOOSE m \in c.models : \A p \in c.models : m <= p
        own == Depth(c, m, ask[[depths |-> c.depths, models |-> Parents(m),
                                seen |-> c.seen \cup {m}]])
        rest == ask[[depths |-> own.depths, models |-> c.models \ {m}, seen |-> c.seen]]
    IN  IF c.models = {} THEN [depths |-> c.depths, answer |-> None]
        ELSE [depths |-> rest.depths,
              answer |-> IF own.answer > rest.answer THEN own.answer ELSE rest.answer]

Ask == LET ask[c \in Calls] == Deepest(ask, c) IN ask

Depths ==
    LET after[i \in 0..Len(order)] ==
            IF i = 0 THEN [m \in Known |-> None]
            ELSE Ask[[depths |-> after[i - 1], models |-> {order[i]}, seen |-> {}]].depths
    IN  after[Len(order)]

\* The last column that is drawn.
LastColumn ==
    LET columns == {Depths[m] : m \in Known} IN
    CHOOSE c \in columns : \A d \in columns : d <= c

-----------------------------------------------------------------------------
(* chart.                                                                  *)

Links == {link \in Known \X Known : link[1] \in reads[link[2]]}

\* A mutant of FeedsSomething: the ends of a link are mixed up.
ReadsSomething == {link[2] : link \in Links}

FeedsSomething == {link[1] : link \in Links}

LabelledLeft == Known \ FeedsSomething

-----------------------------------------------------------------------------
(* Properties.                                                             *)

\* Paths through the graph along its links, each model once.
Chains == {s \in UNION {[1 .. n -> Known] : n \in 1 .. Cardinality(Known)} :
             IsInjective(s) /\ \A i \in 2 .. Len(s) : <<s[i - 1], s[i]>> \in Links}

Acyclic ==
    \A s \in Chains : <<s[Len(s)], s[1]>> \notin Links

\* "each after everything it depends on" (lineage.py:37): the column of a model is the length
\* of the longest chain that leads to it, whatever the order of the export and whatever was
\* remembered on the way. Bad input ends too, and loses no model (lineage.py:55-56).
ColumnsFollowReads ==
    /\ \A m \in Known : Depths[m] \in 0 .. Cardinality(Known)
    /\ Acyclic => \A m \in Known :
          /\ \E s \in Chains : s[Len(s)] = m /\ Len(s) = Depths[m] + 1
          /\ \A s \in Chains : s[Len(s)] = m => Len(s) <= Depths[m] + 1

\* No label runs off the right edge (lineage.py:104-105): a model of the last column has its
\* label on the left.
LabelsStayInside ==
    Acyclic => \A m \in Known : Depths[m] = LastColumn => m \in LabelledLeft
=============================================================================
