-------------------------------- MODULE MCSftp --------------------------------
(***************************************************************************)
(* Two sessions, on one connection or on two, of a dropzone that the admin *)
(* enables, disables and deletes.  Both write under two paths of one file  *)
(* name.                                                                   *)
(***************************************************************************)
EXTENDS Sftp, TLC

CONSTANTS z1, p1, a

MCPaths == << <<"in", <<a>>>>, <<"out", <<a>>>> >>

\* The last is what DropzoneForm refuses.
MCSettings ==
    {[method |-> "sftp", enabled |-> TRUE, secret |-> p1],
     [method |-> "sftp", enabled |-> FALSE, secret |-> p1],
     [method |-> "sftp", enabled |-> TRUE, secret |-> NoSecret]}

\* Paths whose names are numbered, and others whose names are those numbers.
NumberedPaths == {<<d, name>> : d \in {"in", "out"}, name \in {<<a>>, <<a, 1>>, <<a, 1, 1>>}}

\* Whichever of them a session wrote, no file takes the name of another.
ASSUME NumberingKeepsFilesApart ==
    \A list \in [1..4 -> NumberedPaths] :
        \A i, k \in 1..4 : i # k => Spooled(list)[i] # Spooled(list)[k]
=============================================================================
