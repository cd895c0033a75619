------------------------------- MODULE Uploads -------------------------------
(***************************************************************************)
(* The upload pipeline of one dropzone (crudman/app/dropzones/services.py, *)
(* models.py, admin.py) and the periods its uploads are valid for.         *)
(*                                                                         *)
(* The method of the dropzone decides what may overlap: the web methods    *)
(* share the one gunicorn worker with the admin, SFTP sessions are stored  *)
(* one after another on one thread (sync_to_async), Arrow Flight stores    *)
(* them on as many threads as there are commits.  PostgreSQL runs each     *)
(* transaction at READ COMMITTED.                                          *)
(***************************************************************************)
EXTENDS Naturals

CONSTANTS
    Jobs,        \* uploads that may arrive; a job's row and directory share its name
    Dates,       \* the dates an uploader may enter
    Corrections, \* the pairs of bounds the admin may post
    Null,        \* an open bound
    NoRow,       \* the absence of a row
    Nobody       \* the row the admin deletes when it deletes none

Methods == {"web", "sftp", "flight"}
Modes == {"until_replaced", "always", "period"}
Bound == Nat \cup {Null}

Row == [from : Bound, until : Bound, uploaded : Nat]

\* `seen` holds the rows the clipping statement selected and, once it ran, those it
\* changed and has locked.
Job == [at : {"new", "received", "inserted", "written", "scanned", "clipped",
              "rolledback", "stored", "refused", "failed", "crashed"},
        from : Bound, until : Bound, uploaded : Nat, seen : SUBSET Jobs]

ASSUME UploadsAssumption ==
    /\ Dates \subseteq Nat
    /\ Null \notin Nat
    /\ Corrections \subseteq [from : Bound, until : Bound]
    /\ NoRow \notin Row
    /\ Nobody \notin Jobs

VARIABLES
    method,      \* how the dropzone's files arrive
    clock,       \* timezone.now(); no two readings are equal
    job,         \* the calls of process_upload
    row,         \* dropzones_upload, as committed
    directory,   \* what is on the uploads volume
    doubted,     \* stored uploads the answer to whose COMMIT was lost
    deleting,    \* the row whose files the admin has removed, not yet committed
    edited,      \* history: rows whose dates the admin changed
    stripped     \* history: rows that files were taken from and that stayed

vars == <<method, clock, job, row, directory, doubted, deleting, edited, stripped>>

Init ==
    /\ method \in Methods
    /\ clock = 0
    /\ job = [j \in Jobs |-> [at |-> "new", from |-> Null, until |-> Null, uploaded |-> 0,
                              seen |-> {}]]
    /\ row = [j \in Jobs |-> NoRow]
    /\ directory = [j \in Jobs |-> "none"]
    /\ doubted = {}
    /\ deleting = Nobody
    /\ edited = {} /\ stripped = {}

-----------------------------------------------------------------------------
(* Who runs beside whom.                                                   *)

Running == {j \in Jobs : job[j].at \in
                {"received", "inserted", "written", "scanned", "clipped", "rolledback"}}

MayReceive ==
    /\ method # "flight" => Running = {} /\ doubted = {}
    /\ method = "web" => deleting = Nobody

AdminMayAct ==
    /\ deleting = Nobody
    /\ method = "web" => Running = {} /\ doubted = {}

\* Rows an uncommitted clipping statement has locked.
LockedBy(j) == IF job[j].at = "clipped" THEN job[j].seen ELSE {}
Locked(k) == \E j \in Jobs : k \in LockedBy(j)

-----------------------------------------------------------------------------
(* process_upload.                                                         *)

\* UploadForm.clean, _api_validity and default_valid_from: the bounds are fixed before the
\* checker and the converter run. Only the web methods carry dates.
Validity(mode, start, end) ==
    CASE mode = "always" -> [from |-> Null, until |-> Null]
      [] mode = "until_replaced" -> [from |-> clock, until |-> Null]
      [] mode = "period" -> [from |-> IF start = Null THEN clock ELSE start, until |-> end]

Receive(j, mode, start, end) ==
    LET v == Validity(mode, start, end) IN
    /\ job[j].at = "new"
    /\ MayReceive
    /\ mode = "period" => method = "web"
    /\ mode # "period" => start = Null /\ end = Null
    /\ end # Null => end > v.from
    /\ clock' = clock + 1
    /\ job' = [job EXCEPT ![j].at = "received", ![j].from = v.from, ![j].until = v.until]
    /\ UNCHANGED <<method, row, directory, doubted, deleting, edited, stripped>>

\* No files, or the checker or the converter raised.
Refuse(j) ==
    /\ job[j].at = "received"
    /\ job' = [job EXCEPT ![j].at = "refused"]
    /\ UNCHANGED <<method, clock, row, directory, doubted, deleting, edited, stripped>>

\* _store: the row is inserted, and uploaded_at taken, in a transaction; the first bytes of
\* the first file make the directory.
Insert(j) ==
    /\ job[j].at = "received"
    /\ job' = [job EXCEPT ![j].at = "inserted", ![j].uploaded = clock]
    /\ clock' = clock + 1
    /\ directory' = [directory EXCEPT ![j] = "partial"]
    /\ UNCHANGED <<method, row, doubted, deleting, edited, stripped>>

WriteFiles(j) ==
    /\ job[j].at = "inserted"
    /\ job' = [job EXCEPT ![j].at = "written"]
    /\ directory' = [directory EXCEPT ![j] = "whole"]
    /\ UNCHANGED <<method, clock, row, doubted, deleting, edited, stripped>>

\* A mutant of Replaced: an upload is replaced by one that starts when it does.
ReplacedAtStart(j, k) ==
    /\ k # j
    /\ row[k] # NoRow
    /\ row[k].from # Null /\ row[k].until = Null
    /\ row[k].from <= job[j].from

\* The WHERE clause of _clip_replaced, for the rows other transactions have committed.
Replaced(j, k) ==
    /\ k # j
    /\ row[k] # NoRow
    /\ row[k].from # Null /\ row[k].until = Null
    /\ row[k].from < job[j].from

\* A mutant of ClipScan: of the open-ended rows only the newest is shortened.
ClipNewest(j) ==
    /\ job[j].at = "written"
    /\ job' = [job EXCEPT ![j].at = "scanned",
                          ![j].seen = IF job[j].from = Null THEN {}
                                      ELSE {k \in Jobs : /\ Replaced(j, k)
                                                         /\ \A l \in Jobs : Replaced(j, l) =>
                                                               row[l].uploaded <= row[k].uploaded}]
    /\ UNCHANGED <<method, clock, row, directory, doubted, deleting, edited, stripped>>

\* _clip_replaced selects the rows to shorten; an upload without a start has none.
ClipScan(j) ==
    /\ job[j].at = "written"
    /\ job' = [job EXCEPT ![j].at = "scanned",
                          ![j].seen = IF job[j].from = Null THEN {}
                                      ELSE {k \in Jobs : Replaced(j, k)}]
    /\ UNCHANGED <<method, clock, row, directory, doubted, deleting, edited, stripped>>

\* A mutant of ClipApply: the rows are changed as they were selected.
ClipWithoutRecheck(j) ==
    /\ job[j].at = "scanned"
    /\ \A k \in job[j].seen : ~Locked(k)
    /\ job' = [job EXCEPT ![j].at = "clipped"]
    /\ UNCHANGED <<method, clock, row, directory, doubted, deleting, edited, stripped>>

\* The UPDATE waits for rows another transaction has locked and asks again of each.
ClipApply(j) ==
    /\ job[j].at = "scanned"
    /\ \A k \in job[j].seen : ~Locked(k)
    /\ job' = [job EXCEPT ![j].at = "clipped", ![j].seen = {k \in @ : Replaced(j, k)}]
    /\ UNCHANGED <<method, clock, row, directory, doubted, deleting, edited, stripped>>

\* The connection may be lost after the server has committed and before it has said so.
Commit(j) ==
    LET c == job[j] IN
    /\ c.at = "clipped"
    /\ row' = [k \in Jobs |->
                 IF k = j THEN [from |-> c.from, until |-> c.until, uploaded |-> c.uploaded]
                 ELSE IF k \in c.seen THEN [row[k] EXCEPT !.until = c.from]
                 ELSE row[k]]
    /\ job' = [job EXCEPT ![j].at = "stored", ![j].seen = {}]
    /\ doubted' \in {doubted, doubted \cup {j}}
    /\ UNCHANGED <<method, clock, directory, deleting, edited, stripped>>

\* A mutant of RollBack: the row locks outlive the transaction.
RollBackLocked(j) ==
    /\ job[j].at \in {"inserted", "written", "scanned", "clipped"}
    /\ job' = [job EXCEPT ![j].at = "rolledback"]
    /\ UNCHANGED <<method, clock, row, directory, doubted, deleting, edited, stripped>>

\* A full disk, a lost connection, a deadlock: the transaction is rolled back, and what
\* the exception handler then removes is the directory.
RollBack(j) ==
    /\ job[j].at \in {"inserted", "written", "scanned", "clipped"}
    /\ job' = [job EXCEPT ![j].at = "rolledback", ![j].seen = {}]
    /\ UNCHANGED <<method, clock, row, directory, doubted, deleting, edited, stripped>>

\* A mutant of RemoveDirectory: the rollback is all there is.
KeepDirectory(j) ==
    /\ job[j].at = "rolledback"
    /\ job' = [job EXCEPT ![j].at = "failed"]
    /\ UNCHANGED <<method, clock, row, directory, doubted, deleting, edited, stripped>>

RemoveDirectory(j) ==
    /\ job[j].at = "rolledback"
    /\ directory' = [directory EXCEPT ![j] = "none"]
    /\ job' = [job EXCEPT ![j].at = "failed"]
    /\ UNCHANGED <<method, clock, row, doubted, deleting, edited, stripped>>

\* The handler takes a commit in doubt for a failure and removes the files of a row that
\* is there.
RemoveStored(j) ==
    /\ j \in doubted
    /\ directory' = [directory EXCEPT ![j] = "none"]
    /\ doubted' = doubted \ {j}
    /\ stripped' = stripped \cup {j}
    /\ UNCHANGED <<method, clock, job, row, deleting, edited>>

\* The process that serves this method dies: gunicorn aborts its worker, or the container
\* restarts. PostgreSQL rolls back; nobody removes anything.
Crash ==
    /\ Running # {} \/ doubted # {}
    /\ job' = [j \in Jobs |-> IF j \in Running
                              THEN [job[j] EXCEPT !.at = "crashed", !.seen = {}] ELSE job[j]]
    /\ doubted' = {}
    /\ UNCHANGED <<method, clock, row, directory, deleting, edited, stripped>>

-----------------------------------------------------------------------------
(* The upload pages of the admin.                                          *)

\* The dates stay editable. What is posted is what the page showed, or what was typed
\* over it; nothing compares the two bounds.
AdminEdit(k, posted) ==
    /\ AdminMayAct
    /\ row[k] # NoRow
    /\ ~Locked(k)
    /\ row' = [row EXCEPT ![k].from = posted.from, ![k].until = posted.until]
    /\ edited' = edited \cup {k}
    /\ UNCHANGED <<method, clock, job, directory, doubted, deleting, stripped>>

\* The cascade deletes the file rows, and post_delete their files, before it comes to the
\* upload's row.
AdminDelete(k) ==
    /\ AdminMayAct
    /\ row[k] # NoRow
    /\ deleting' = k
    /\ directory' = [directory EXCEPT ![k] = IF @ = "none" THEN "none" ELSE "partial"]
    /\ UNCHANGED <<method, clock, job, row, doubted, edited, stripped>>

DeleteCommit ==
    /\ deleting # Nobody
    /\ ~Locked(deleting)
    /\ row' = [row EXCEPT ![deleting] = NoRow]
    /\ directory' = [directory EXCEPT ![deleting] = "none"]
    /\ deleting' = Nobody
    /\ UNCHANGED <<method, clock, job, doubted, edited, stripped>>

\* The web worker is aborted in between: the row comes back and its files do not.
DeleteCutOff ==
    /\ deleting # Nobody
    /\ stripped' = stripped \cup {deleting}
    /\ deleting' = Nobody
    /\ UNCHANGED <<method, clock, job, row, directory, doubted, edited>>

-----------------------------------------------------------------------------

Next ==
    \/ \E j \in Jobs, mode \in Modes, start, end \in Dates \cup {Null} :
          Receive(j, mode, start, end)
    \/ \E j \in Jobs :
          \/ Refuse(j) \/ Insert(j) \/ WriteFiles(j) \/ ClipScan(j) \/ ClipApply(j)
          \/ Commit(j) \/ RollBack(j) \/ RemoveDirectory(j) \/ RemoveStored(j)
    \/ \E k \in Jobs : AdminDelete(k)
    \/ \E k \in Jobs, posted \in Corrections : AdminEdit(k, posted)
    \/ Crash \/ DeleteCommit \/ DeleteCutOff

Spec == Init /\ [][Next]_vars

-----------------------------------------------------------------------------
(* What readers of the table and the volume see.                           *)

\* An upload is whole when its row is committed and its files are all there.
Readable == INSTANCE Stored WITH
    Names <- Jobs, Bounds <- Bound, Open <- Null, Missing <- NoRow,
    uploads <- row,
    whole <- {j \in Jobs : row[j] # NoRow /\ directory[j] = "whole"},
    used <- {j \in Jobs : job[j].at = "stored"},
    alone <- method = "web"

-----------------------------------------------------------------------------
(* Properties.                                                             *)

\* Every variable holds what its table, the volume or the pipeline can hold, and no ended
\* transaction has rows selected or locked.
TypeOK ==
    /\ method \in Methods
    /\ clock \in Nat
    /\ job \in [Jobs -> Job]
    /\ \A j \in Jobs : job[j].seen # {} => job[j].at \in {"scanned", "clipped"}
    /\ row \in [Jobs -> Row \cup {NoRow}]
    /\ directory \in [Jobs -> {"none", "partial", "whole"}]
    /\ deleting \in Jobs \cup {Nobody}
    /\ doubted \subseteq Jobs /\ edited \subseteq Jobs /\ stripped \subseteq Jobs

\* "Then store files and Upload row all-or-nothing" (dropzones/services.py:5): a visible
\* row has all its files, unless somebody is deleting it or it was stripped of them, by a
\* deletion that was cut off or by a handler that was not told of its commit, and a job that
\* was refused, rolled back or deleted has left neither a row nor a directory.
AllOrNothing ==
    /\ \A j \in Jobs \ ({deleting} \cup stripped) : row[j] # NoRow => directory[j] = "whole"
    /\ \A j \in Jobs : job[j].at \in {"refused", "failed", "stored"} /\ row[j] = NoRow =>
                           directory[j] = "none"

Before(j, k) == job[j].at = "stored" /\ job[k].at = "stored" /\ job[j].uploaded < job[k].uploaded

\* Later uploads that begin after j does.
Successors(j) == {k \in Jobs : Before(j, k) /\ job[k].from # Null /\ job[k].from > job[j].from}

OpenEnded(j) == job[j].at = "stored" /\ job[j].from # Null /\ job[j].until = Null

\* "Each reading is valid exactly while it is the newest" (dropzones/requirements.md:101):
\* where uploads are stored one at a time, an open-ended upload ends where the first later
\* upload with a later start begins, and is open as long as there is none, whatever failed,
\* crashed or was deleted in between.
ValidUntilReplaced ==
    method # "flight" =>
        \A j \in Jobs \ edited : OpenEnded(j) /\ row[j] # NoRow =>
            IF Successors(j) = {} THEN row[j].until = Null
            ELSE \E k \in Successors(j) :
                    /\ row[j].until = job[k].from
                    /\ \A l \in Successors(j) \ {k} : Before(k, l)

\* "'Always valid' uploads are never clipped" (requirements.md:36), nor is anything that has
\* an end: all that storing an upload does to another row is to close an open end, after
\* that row's start, whichever transactions and edits ran beside it.
OnlyOpenEndsMove ==
    [][\A k \in Jobs :
        (\E j \in Jobs : Commit(j)) /\ row[k] \notin {NoRow, row'[k]} =>
            /\ row[k].from # Null /\ row[k].until = Null
            /\ row'[k].until # Null /\ row'[k].until > row[k].from
            /\ row'[k] = [row[k] EXCEPT !.until = row'[k].until]]_vars

\* "When a new upload with a concrete start arrives, previously open-ended uploads of the
\* same dropzone that started earlier are shortened to end at the new upload's start"
\* (requirements.md:34).
ReplacedIsShortened ==
    \A j \in Jobs \ edited : OpenEnded(j) /\ row[j] # NoRow /\ Successors(j) # {} =>
        row[j].until # Null


\* "Then store files and Upload row all-or-nothing" (dropzones/services.py:5), for whoever
\* reads the table: the pipeline with its transactions, locks, crashes and deletions is one
\* in which an upload appears whole in a single step, and that step alone ends earlier ones,
\* every one it replaces where requests are served one at a time.
StoredAtOnce == Readable!Spec

=============================================================================
