------------------------------ MODULE MCUploads ------------------------------
(***************************************************************************)
(* Three uploads: one to be replaced, one that replaces it and one beside  *)
(* or after them.  Dates lie before and amid the readings of the clock.    *)
(***************************************************************************)
EXTENDS Uploads, TLC

CONSTANTS j1, j2, j3

MCDates == {2}

MCCorrections == {[from |-> 1, until |-> Null], [from |-> 0, until |-> 3]}

\* Bound: one row loses its files, and then no dates are corrected; what is stripped and what
\* is edited are excepted from different properties.
FewStripped ==
    /\ \A j, k \in doubted \cup stripped : j = k
    /\ doubted \cup stripped # {} => edited = {}

Symmetry == Permutations(Jobs)
=============================================================================
