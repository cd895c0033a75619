-------------------------------- MODULE Stored --------------------------------
(***************************************************************************)
(* What the upload pipeline promises those who read its table and its      *)
(* volume (dropzones/services.py:3-5, requirements.md:34-36): an upload    *)
(* appears in one step with all its files, and that same step is the only  *)
(* one that closes earlier uploads.  Nothing here knows of transactions,   *)
(* row locks, directories or crashes.                                      *)
(***************************************************************************)
EXTENDS Naturals

CONSTANTS
    Names,     \* uploads that may be stored
    Bounds,    \* dates, and Open
    Open,      \* an open bound
    Missing    \* no upload

Upload == [from : Bounds, until : Bounds, uploaded : Nat]

VARIABLES
    uploads,   \* the visible uploads
    whole,     \* those whose files are all there
    used,      \* the names that were ever stored
    alone      \* whether requests are served one at a time

stored == <<uploads, whole, used, alone>>

Init ==
    /\ uploads = [k \in Names |-> Missing]
    /\ whole = {}
    /\ used = {}
    /\ alone \in BOOLEAN

\* An upload that began before `start` and has no end.
OpenBefore(k, start) ==
    /\ uploads[k] # Missing
    /\ uploads[k].from # Open /\ uploads[k].until = Open
    /\ start # Open /\ uploads[k].from < start

\* An upload appears with all its files, and ends uploads that are open when it begins: all
\* of them, unless something else runs beside it.
Store(j) ==
    LET new == uploads'[j] IN
    /\ j \notin used
    /\ new \in Upload
    /\ \A k \in Names \ {j} :
          \/ OpenBefore(k, new.from) /\ uploads'[k] = [uploads[k] EXCEPT !.until = new.from]
          \/ (alone => ~OpenBefore(k, new.from)) /\ uploads'[k] = uploads[k]
    /\ whole' = whole \cup {j}
    /\ used' = used \cup {j}
    /\ UNCHANGED alone

\* An administrator corrects the dates.
Correct(k) ==
    /\ uploads[k] # Missing
    /\ uploads'[k] \in Upload /\ uploads'[k].uploaded = uploads[k].uploaded
    /\ \A l \in Names \ {k} : uploads'[l] = uploads[l]
    /\ UNCHANGED <<whole, used, alone>>

\* A deletion takes the files first, then the upload.
Empty(k) ==
    /\ uploads[k] # Missing
    /\ whole' = whole \ {k}
    /\ UNCHANGED <<uploads, used, alone>>

Delete(k) ==
    /\ uploads[k] # Missing /\ k \notin whole
    /\ uploads' = [uploads EXCEPT ![k] = Missing]
    /\ UNCHANGED <<whole, used, alone>>

Next == \E k \in Names : Store(k) \/ Correct(k) \/ Empty(k) \/ Delete(k)

Spec == Init /\ [][Next]_stored
=============================================================================
