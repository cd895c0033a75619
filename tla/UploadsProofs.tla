---------------------------- MODULE UploadsProofs ----------------------------
(***************************************************************************)
(* What Uploads promises for any number of uploads, dates and corrections: *)
(* its types, that storing an upload only ever closes open ends, that rows *)
(* and files go together, what an upload is valid for, and that readers    *)
(* see each appear whole.  All rest on what a transaction may rely on      *)
(* between its UPDATE and its commit, which RowsStayMatched states.        *)
(***************************************************************************)
EXTENDS Uploads, TLAPS

-----------------------------------------------------------------------------
(* Types.                                                                  *)

\* Whatever mode and dates an upload comes with, its period consists of bounds.
LEMMA ValidityType ==
    ASSUME TypeOK, NEW mode \in Modes,
           NEW start \in Dates \cup {Null}, NEW end \in Dates \cup {Null}
    PROVE  Validity(mode, start, end) \in [from : Bound, until : Bound]
<1>1. start \in Bound /\ end \in Bound /\ clock \in Bound /\ Null \in Bound
  BY UploadsAssumption DEF TypeOK, Bound
<1>2. CASE mode = "always"
  BY <1>1, <1>2 DEF Validity
<1>3. CASE mode = "until_replaced"
  BY <1>1, <1>3 DEF Validity
<1>4. CASE mode = "period"
  BY <1>1, <1>4 DEF Validity
<1> QED BY <1>2, <1>3, <1>4 DEF Modes

\* The empty volume and table are of the right types.
LEMMA TypeInit == Init => TypeOK
BY UploadsAssumption DEF Init, TypeOK, Methods, Job, Bound, Row

\* What TypeOK says of the jobs is kept by a step that moves one of them.
LEMMA JobMoves ==
    ASSUME TypeOK, NEW j \in Jobs, NEW moved \in Job,
           moved.seen # {} => moved.at \in {"scanned", "clipped"},
           job' = [job EXCEPT ![j] = moved]
    PROVE  /\ job' \in [Jobs -> Job]
           /\ \A i \in Jobs : job'[i].seen # {} => job'[i].at \in {"scanned", "clipped"}
BY DEF TypeOK

\* No handler, transaction, admin request or crash leaves the types.
LEMMA TypeStep == TypeOK /\ [Next]_vars => TypeOK'
<1> SUFFICES ASSUME TypeOK, [Next]_vars PROVE TypeOK'
  OBVIOUS
<1>0. job \in [Jobs -> Job] /\ (\A i \in Jobs : job[i].seen # {} => job[i].at \in {"scanned", "clipped"})
  BY DEF TypeOK
<1>1. ASSUME NEW j \in Jobs, NEW mode \in Modes, NEW start \in Dates \cup {Null},
             NEW end \in Dates \cup {Null}, Receive(j, mode, start, end) PROVE TypeOK'
  <2> DEFINE moved == [job[j] EXCEPT !.at = "received", !.from = Validity(mode, start, end).from,
                              !.until = Validity(mode, start, end).until]
  <2>0. Validity(mode, start, end).from \in Bound /\ Validity(mode, start, end).until \in Bound
    BY ValidityType
  <2>1. moved \in Job /\ (moved.seen # {} => moved.at \in {"scanned", "clipped"})
    BY <1>0, <1>1, <2>0 DEF Receive, Job
  <2>2. job' = [job EXCEPT ![j] = moved]
    BY <1>0, <1>1 DEF Receive
  <2>3. /\ job' \in [Jobs -> Job]
        /\ \A i \in Jobs : job'[i].seen # {} => job'[i].at \in {"scanned", "clipped"}
    BY <2>1, <2>2, JobMoves
  <2> QED BY <1>1, <2>3 DEF Receive, TypeOK
<1>2. ASSUME NEW j \in Jobs, Refuse(j) PROVE TypeOK'
  <2> DEFINE moved == [job[j] EXCEPT !.at = "refused"]
  <2>1. moved \in Job /\ (moved.seen # {} => moved.at \in {"scanned", "clipped"})
    BY <1>0, <1>2 DEF Refuse, Job, TypeOK
  <2>2. job' = [job EXCEPT ![j] = moved]
    BY <1>0, <1>2 DEF Refuse
  <2>3. /\ job' \in [Jobs -> Job]
        /\ \A i \in Jobs : job'[i].seen # {} => job'[i].at \in {"scanned", "clipped"}
    BY <2>1, <2>2, JobMoves
  <2> QED BY <1>2, <2>3 DEF Refuse, TypeOK
<1>3. ASSUME NEW j \in Jobs, Insert(j) PROVE TypeOK'
  <2> DEFINE moved == [job[j] EXCEPT !.at = "inserted", !.uploaded = clock]
  <2>1. moved \in Job /\ (moved.seen # {} => moved.at \in {"scanned", "clipped"})
    BY <1>0, <1>3 DEF Insert, Job, TypeOK
  <2>2. job' = [job EXCEPT ![j] = moved]
    BY <1>0, <1>3 DEF Insert
  <2>3. /\ job' \in [Jobs -> Job]
        /\ \A i \in Jobs : job'[i].seen # {} => job'[i].at \in {"scanned", "clipped"}
    BY <2>1, <2>2, JobMoves
  <2> QED BY <1>3, <2>3 DEF Insert, TypeOK
<1>4. ASSUME NEW j \in Jobs, WriteFiles(j) PROVE TypeOK'
  <2> DEFINE moved == [job[j] EXCEPT !.at = "written"]
  <2>1. moved \in Job /\ (moved.seen # {} => moved.at \in {"scanned", "clipped"})
    BY <1>0, <1>4 DEF WriteFiles, Job, TypeOK
  <2>2. job' = [job EXCEPT ![j] = moved]
    BY <1>0, <1>4 DEF WriteFiles
  <2>3. /\ job' \in [Jobs -> Job]
        /\ \A i \in Jobs : job'[i].seen # {} => job'[i].at \in {"scanned", "clipped"}
    BY <2>1, <2>2, JobMoves
  <2> QED BY <1>4, <2>3 DEF WriteFiles, TypeOK
<1>5. ASSUME NEW j \in Jobs, ClipScan(j) PROVE TypeOK'
  <2> DEFINE moved == [job[j] EXCEPT !.at = "scanned", !.seen = IF job[j].from = Null THEN {}
                                                           ELSE {k \in Jobs : Replaced(j, k)}]
  <2>1. moved \in Job /\ (moved.seen # {} => moved.at \in {"scanned", "clipped"})
    BY <1>0, <1>5 DEF ClipScan, Job, TypeOK
  <2>2. job' = [job EXCEPT ![j] = moved]
    BY <1>0, <1>5 DEF ClipScan
  <2>3. /\ job' \in [Jobs -> Job]
        /\ \A i \in Jobs : job'[i].seen # {} => job'[i].at \in {"scanned", "clipped"}
    BY <2>1, <2>2, JobMoves
  <2> QED BY <1>5, <2>3 DEF ClipScan, TypeOK
<1>6. ASSUME NEW j \in Jobs, ClipApply(j) PROVE TypeOK'
  <2> DEFINE moved == [job[j] EXCEPT !.at = "clipped", !.seen = {k \in @ : Replaced(j, k)}]
  <2>1. moved \in Job /\ (moved.seen # {} => moved.at \in {"scanned", "clipped"})
    BY <1>0, <1>6 DEF ClipApply, Job, TypeOK
  <2>2. job' = [job EXCEPT ![j] = moved]
    BY <1>0, <1>6 DEF ClipApply
  <2>3. /\ job' \in [Jobs -> Job]
        /\ \A i \in Jobs : job'[i].seen # {} => job'[i].at \in {"scanned", "clipped"}
    BY <2>1, <2>2, JobMoves
  <2> QED BY <1>6, <2>3 DEF ClipApply, TypeOK
<1>7. ASSUME NEW j \in Jobs, Commit(j) PROVE TypeOK'
  <2> DEFINE moved == [job[j] EXCEPT !.at = "stored", !.seen = {}]
  <2>1. moved \in Job /\ (moved.seen # {} => moved.at \in {"scanned", "clipped"})
    BY <1>0, <1>7, <1>0 DEF Commit, Job, TypeOK
  <2>2. job' = [job EXCEPT ![j] = moved]
    BY <1>0, <1>7 DEF Commit
  <2>3. /\ job' \in [Jobs -> Job]
        /\ \A i \in Jobs : job'[i].seen # {} => job'[i].at \in {"scanned", "clipped"}
    BY <2>1, <2>2, JobMoves
  <2> QED BY <1>7, <2>3 DEF Commit, TypeOK, Job, Row
<1>8. ASSUME NEW j \in Jobs, RollBack(j) PROVE TypeOK'
  <2> DEFINE moved == [job[j] EXCEPT !.at = "rolledback", !.seen = {}]
  <2>1. moved \in Job /\ (moved.seen # {} => moved.at \in {"scanned", "clipped"})
    BY <1>0, <1>8 DEF RollBack, Job, TypeOK
  <2>2. job' = [job EXCEPT ![j] = moved]
    BY <1>0, <1>8 DEF RollBack
  <2>3. /\ job' \in [Jobs -> Job]
        /\ \A i \in Jobs : job'[i].seen # {} => job'[i].at \in {"scanned", "clipped"}
    BY <2>1, <2>2, JobMoves
  <2> QED BY <1>8, <2>3 DEF RollBack, TypeOK
<1>9. ASSUME NEW j \in Jobs, RemoveDirectory(j) PROVE TypeOK'
  <2> DEFINE moved == [job[j] EXCEPT !.at = "failed"]
  <2>1. moved \in Job /\ (moved.seen # {} => moved.at \in {"scanned", "clipped"})
    BY <1>0, <1>9 DEF RemoveDirectory, Job, TypeOK
  <2>2. job' = [job EXCEPT ![j] = moved]
    BY <1>0, <1>9 DEF RemoveDirectory
  <2>3. /\ job' \in [Jobs -> Job]
        /\ \A i \in Jobs : job'[i].seen # {} => job'[i].at \in {"scanned", "clipped"}
    BY <2>1, <2>2, JobMoves
  <2> QED BY <1>9, <2>3 DEF RemoveDirectory, TypeOK
<1>10. ASSUME Crash PROVE TypeOK'
  <2>1. ASSUME NEW j \in Jobs
        PROVE  job'[j] \in Job /\ (job'[j].seen # {} => job'[j].at \in {"scanned", "clipped"})
    <3>1. CASE j \in Running
      <4>1. job'[j] = [job[j] EXCEPT !.at = "crashed", !.seen = {}]
        BY <1>10, <3>1 DEF Crash
      <4>2. job[j] \in Job
        BY <1>0
      <4> QED BY <4>1, <4>2 DEF Job
    <3>2. CASE j \notin Running
      <4>1. job'[j] = job[j]
        BY <1>10, <3>2 DEF Crash
      <4> QED BY <4>1 DEF TypeOK
    <3> QED BY <3>1, <3>2
  <2>2. job' = [j \in Jobs |-> job'[j]]
    BY <1>10 DEF Crash
  <2>3. job' \in [Jobs -> Job]
    BY <2>1, <2>2
  <2> QED BY <1>10, <2>1, <2>3 DEF Crash, TypeOK
<1>11. ASSUME NEW k \in Jobs, NEW posted \in Corrections, AdminEdit(k, posted) PROVE TypeOK'
  BY <1>11, UploadsAssumption DEF AdminEdit, Row, TypeOK
<1>12. ASSUME NEW k \in Jobs, AdminDelete(k) PROVE TypeOK'
  BY <1>12 DEF AdminDelete, TypeOK
<1>13. ASSUME DeleteCommit PROVE TypeOK'
  BY <1>13 DEF DeleteCommit, TypeOK
<1>14. ASSUME DeleteCutOff PROVE TypeOK'
  BY <1>14 DEF DeleteCutOff, TypeOK
<1>15. ASSUME NEW j \in Jobs, RemoveStored(j) PROVE TypeOK'
  BY <1>15 DEF RemoveStored, TypeOK
<1>16. CASE UNCHANGED vars
  BY <1>16 DEF vars, TypeOK
<1> QED BY <1>1, <1>2, <1>3, <1>4, <1>5, <1>6, <1>7, <1>8, <1>9, <1>10, <1>11, <1>12,
           <1>13, <1>14, <1>15, <1>16 DEF Next

\* Every variable holds what its table, the volume or the pipeline can hold.
THEOREM TypeCorrect == Spec => []TypeOK
<1>1. Init => TypeOK
  BY TypeInit
<1>2. TypeOK /\ [Next]_vars => TypeOK'
  BY TypeStep
<1> QED BY <1>1, <1>2, PTL DEF Spec

-----------------------------------------------------------------------------
(* Row locks.                                                              *)

\* Only a job that was committed has a row.
OnlyStoredHaveRows == \A j \in Jobs : row[j] # NoRow => job[j].at = "stored"

\* What a transaction has changed it has locked: until it ends, the rows still match the
\* WHERE clause they were changed under.
RowsStayMatched ==
    \A j \in Jobs : job[j].at = "clipped" => \A k \in job[j].seen : Replaced(j, k)

\* An upload without a start selects nothing.
OnlyStartsReplace == \A j \in Jobs : job[j].seen # {} => job[j].from # Null

\* No two transactions hold one row.
LocksDisjoint == \A i, j \in Jobs : i # j => LockedBy(i) \cap LockedBy(j) = {}

LocksHold == OnlyStoredHaveRows /\ RowsStayMatched /\ OnlyStartsReplace /\ LocksDisjoint

\* No job runs and no row exists at first.
LEMMA LocksInit == Init => LocksHold
BY DEF Init, LocksHold, OnlyStoredHaveRows, RowsStayMatched, OnlyStartsReplace,
       LocksDisjoint, LockedBy

\* A job that is not stored and takes no lock may move freely.
LEMMA JobStep ==
    ASSUME TypeOK, LocksHold, NEW j \in Jobs, job' \in [Jobs -> Job], UNCHANGED row,
           \A i \in Jobs \ {j} : job'[i] = job[i],
           job[j].at # "stored", job'[j].at # "clipped",
           job'[j].seen # {} => job'[j].from # Null
    PROVE  LocksHold'
<1> USE DEF LocksHold
<1>1. OnlyStoredHaveRows'
  BY DEF OnlyStoredHaveRows
<1>2. RowsStayMatched'
  BY DEF RowsStayMatched, Replaced
<1>3. OnlyStartsReplace'
  BY DEF OnlyStartsReplace
<1>4. LocksDisjoint'
  <2>1. \A i \in Jobs : LockedBy(i)' \subseteq LockedBy(i)
    BY DEF LockedBy
  <2> QED BY <2>1 DEF LocksDisjoint
<1> QED BY <1>1, <1>2, <1>3, <1>4

\* The UPDATE has waited for every row it selected, and keeps those that still match.
LEMMA ClipStep ==
    ASSUME TypeOK, LocksHold, NEW j \in Jobs, ClipApply(j)
    PROVE  LocksHold'
<1> USE DEF LocksHold
<1> DEFINE kept == {k \in job[j].seen : Replaced(j, k)}
<1>0. /\ job[j] \in Job /\ job[j].at = "scanned"
      /\ job'[j] = [job[j] EXCEPT !.at = "clipped", !.seen = kept]
      /\ \A i \in Jobs \ {j} : job'[i] = job[i]
      /\ UNCHANGED row
  BY DEF TypeOK, ClipApply
<1> HIDE DEF kept
<1>a. job'[j].at = "clipped" /\ job'[j].from = job[j].from /\ job'[j].seen = kept
  BY <1>0 DEF Job
<1>b. kept \subseteq job[j].seen /\ \A k \in kept : Replaced(j, k)
  BY DEF kept
<1>1. OnlyStoredHaveRows'
  BY <1>0, <1>a DEF OnlyStoredHaveRows
<1>2. RowsStayMatched'
  <2> SUFFICES ASSUME NEW i \in Jobs, job'[i].at = "clipped", NEW k \in job'[i].seen
               PROVE  Replaced(i, k)'
    BY DEF RowsStayMatched
  <2>1. Replaced(i, k)
    BY <1>0, <1>a, <1>b DEF RowsStayMatched
  <2>2. job'[i].from = job[i].from
    BY <1>0, <1>a
  <2> QED BY <1>0, <2>1, <2>2 DEF Replaced
<1>3. OnlyStartsReplace'
  BY <1>0, <1>a, <1>b DEF OnlyStartsReplace
<1>4. LocksDisjoint'
  <2>1. \A i \in Jobs \ {j} : LockedBy(i)' = LockedBy(i)
    BY <1>0 DEF LockedBy
  <2>2. LockedBy(j)' \subseteq job[j].seen
    BY <1>a, <1>b DEF LockedBy
  <2>3. \A i \in Jobs : LockedBy(i) \cap job[j].seen = {}
    BY DEF ClipApply, Locked
  <2> QED BY <2>1, <2>2, <2>3 DEF LocksDisjoint
<1> QED BY <1>1, <1>2, <1>3, <1>4

\* A commit makes one row and closes those it holds, and nobody else holds either.
LEMMA CommitStep ==
    ASSUME TypeOK, LocksHold, NEW j \in Jobs, Commit(j)
    PROVE  LocksHold'
<1> USE DEF LocksHold
<1>0. /\ job[j] \in Job /\ job[j].at = "clipped"
      /\ job'[j] = [job[j] EXCEPT !.at = "stored", !.seen = {}]
      /\ \A i \in Jobs \ {j} : job'[i] = job[i]
      /\ \A k \in Jobs \ {j} : k \notin job[j].seen => row'[k] = row[k]
  BY DEF TypeOK, Commit
<1>a. job'[j].at = "stored" /\ job'[j].seen = {}
  BY <1>0 DEF Job
<1>b. row[j] = NoRow
  BY <1>0 DEF OnlyStoredHaveRows
<1>1. OnlyStoredHaveRows'
  <2>1. \A k \in job[j].seen : row[k] # NoRow
    BY <1>0 DEF RowsStayMatched, Replaced
  <2>2. \A k \in Jobs \ {j} : row'[k] # NoRow => row[k] # NoRow
    BY <1>0, <2>1
  <2>3. \A k \in Jobs \ {j} : row'[k] # NoRow => job'[k].at = "stored"
    BY <1>0, <2>2 DEF OnlyStoredHaveRows
  <2> QED BY <1>a, <2>3 DEF OnlyStoredHaveRows
<1>2. RowsStayMatched'
  <2> SUFFICES ASSUME NEW i \in Jobs, job'[i].at = "clipped", NEW k \in job'[i].seen
               PROVE  Replaced(i, k)'
    BY DEF RowsStayMatched
  <2>1. i # j /\ job'[i] = job[i]
    BY <1>0, <1>a
  <2>2. Replaced(i, k)
    BY <2>1 DEF RowsStayMatched
  <2>3. k # j
    BY <1>b, <2>2 DEF Replaced
  <2>4. k \notin job[j].seen
    BY <1>0, <2>1 DEF LocksDisjoint, LockedBy
  <2>5. k \in Jobs
    BY <2>1 DEF TypeOK, Job
  <2>6. row'[k] = row[k]
    BY <1>0, <2>3, <2>4, <2>5
  <2> QED BY <2>1, <2>2, <2>6 DEF Replaced
<1>3. OnlyStartsReplace'
  BY <1>0, <1>a DEF OnlyStartsReplace
<1>4. LocksDisjoint'
  <2>1. \A i \in Jobs : LockedBy(i)' \subseteq LockedBy(i)
    BY <1>0, <1>a DEF LockedBy
  <2> QED BY <2>1 DEF LocksDisjoint
<1> QED BY <1>1, <1>2, <1>3, <1>4

\* The admin changes and deletes committed rows that nobody holds.
LEMMA AdminStep ==
    ASSUME TypeOK, LocksHold, NEW k \in Jobs, ~Locked(k), row[k] # NoRow \/ row'[k] = NoRow,
           UNCHANGED job, \A l \in Jobs \ {k} : row'[l] = row[l]
    PROVE  LocksHold'
<1> USE DEF LocksHold
<1>1. OnlyStoredHaveRows'
  BY DEF OnlyStoredHaveRows
<1>2. RowsStayMatched'
  <2> SUFFICES ASSUME NEW i \in Jobs, job[i].at = "clipped", NEW l \in job[i].seen
               PROVE  Replaced(i, l)'
    BY DEF RowsStayMatched
  <2>1. l \in Jobs /\ l # k
    BY DEF Locked, LockedBy, TypeOK, Job
  <2>2. Replaced(i, l)
    BY DEF RowsStayMatched
  <2> QED BY <2>1, <2>2 DEF Replaced
<1>3. OnlyStartsReplace'
  BY DEF OnlyStartsReplace
<1>4. LocksDisjoint'
  BY DEF LocksDisjoint, LockedBy
<1> QED BY <1>1, <1>2, <1>3, <1>4

\* Every step keeps the row locks exclusive and the rows they hold matching.
LEMMA LocksStep == TypeOK /\ LocksHold /\ [Next]_vars => LocksHold'
<1> SUFFICES ASSUME TypeOK, LocksHold, [Next]_vars PROVE LocksHold'
  OBVIOUS
<1>0. job \in [Jobs -> Job] /\ job' \in [Jobs -> Job]
  BY TypeStep DEF TypeOK
<1>1. ASSUME NEW j \in Jobs, NEW mode \in Modes, NEW start \in Dates \cup {Null},
             NEW end \in Dates \cup {Null}, Receive(j, mode, start, end)
      PROVE  LocksHold'
  <2>1. /\ \A i \in Jobs \ {j} : job'[i] = job[i]
        /\ job[j].at = "new" /\ job'[j].at = "received" /\ job'[j].seen = job[j].seen
        /\ UNCHANGED row
    BY <1>0, <1>1 DEF Receive, Job
  <2>2. job[j].seen = {}
    BY <2>1 DEF TypeOK
  <2> QED BY <1>0, <2>1, <2>2, JobStep
<1>2. ASSUME NEW j \in Jobs,
             Refuse(j) \/ Insert(j) \/ WriteFiles(j) \/ RollBack(j) \/ RemoveDirectory(j)
      PROVE  LocksHold'
  <2>1. /\ \A i \in Jobs \ {j} : job'[i] = job[i]
        /\ job[j].at # "stored" /\ job'[j].at # "clipped" /\ job'[j].from = job[j].from
        /\ job'[j].seen \in {{}, job[j].seen}
        /\ UNCHANGED row
    BY <1>0, <1>2 DEF Refuse, Insert, WriteFiles, RollBack, RemoveDirectory, Job
  <2>2. job'[j].seen # {} => job'[j].from # Null
    BY <2>1 DEF LocksHold, OnlyStartsReplace
  <2> QED BY <1>0, <2>1, <2>2, JobStep
<1>3. ASSUME NEW j \in Jobs, ClipScan(j) PROVE LocksHold'
  <2>1. /\ \A i \in Jobs \ {j} : job'[i] = job[i]
        /\ job[j].at = "written" /\ job'[j].at = "scanned" /\ job'[j].from = job[j].from
        /\ job[j].from = Null => job'[j].seen = {}
        /\ UNCHANGED row
    BY <1>0, <1>3 DEF ClipScan, Job
  <2> QED BY <1>0, <2>1, JobStep
<1>4. ASSUME NEW j \in Jobs, ClipApply(j) PROVE LocksHold'
  BY <1>4, ClipStep
<1>5. ASSUME NEW j \in Jobs, Commit(j) PROVE LocksHold'
  BY <1>5, CommitStep
<1>6. ASSUME Crash PROVE LocksHold'
  <2>0. job' = [j \in Jobs |-> IF j \in Running
                              THEN [job[j] EXCEPT !.at = "crashed", !.seen = {}] ELSE job[j]]
    BY <1>6 DEF Crash
  <2>1. /\ \A j \in Jobs : \/ job'[j] = job[j]
                           \/ job[j].at # "stored" /\ job'[j].at = "crashed" /\ job'[j].seen = {}
        /\ UNCHANGED row
    BY <1>0, <1>6, <2>0 DEF Crash, Running, Job
  <2>2. OnlyStoredHaveRows' /\ OnlyStartsReplace'
    BY <2>1 DEF LocksHold, OnlyStoredHaveRows, OnlyStartsReplace
  <2>3. RowsStayMatched'
    BY <2>1 DEF LocksHold, RowsStayMatched, Replaced
  <2>4. \A i \in Jobs : LockedBy(i)' \subseteq LockedBy(i)
    BY <2>1 DEF LockedBy
  <2>5. LocksDisjoint'
    BY <2>4 DEF LocksHold, LocksDisjoint
  <2> QED BY <2>2, <2>3, <2>5 DEF LocksHold
<1>7. ASSUME NEW k \in Jobs, NEW posted \in Corrections, AdminEdit(k, posted) PROVE LocksHold'
  <2>1. UNCHANGED job /\ row[k] # NoRow /\ ~Locked(k) /\ \A l \in Jobs \ {k} : row'[l] = row[l]
    BY <1>7 DEF AdminEdit, TypeOK
  <2> QED BY <2>1, AdminStep
<1>8. ASSUME DeleteCommit PROVE LocksHold'
  <2>1. /\ deleting \in Jobs /\ UNCHANGED job /\ ~Locked(deleting)
        /\ row'[deleting] = NoRow /\ \A l \in Jobs \ {deleting} : row'[l] = row[l]
    BY <1>8 DEF DeleteCommit, TypeOK
  <2> QED BY <2>1, AdminStep
<1>9. ASSUME UNCHANGED <<job, row>> PROVE LocksHold'
  BY <1>9 DEF LocksHold, OnlyStoredHaveRows, RowsStayMatched, OnlyStartsReplace, LocksDisjoint,
              LockedBy, Replaced
<1>10. ASSUME \/ \E k \in Jobs : AdminDelete(k) \/ RemoveStored(k)
              \/ DeleteCutOff \/ UNCHANGED vars
       PROVE  UNCHANGED <<job, row>>
  BY <1>10 DEF AdminDelete, RemoveStored, DeleteCutOff, vars
<1> QED BY <1>1, <1>2, <1>3, <1>4, <1>5, <1>6, <1>7, <1>8, <1>9, <1>10 DEF Next

-----------------------------------------------------------------------------
(* What a commit does to the rows of others.                               *)

\* A commit closes open ends after their start, and changes nothing else in another row.
LEMMA CommitClosesOpenEnds ==
    ASSUME TypeOK, LocksHold, NEW j \in Jobs, Commit(j), NEW k \in Jobs,
           row[k] # NoRow, row'[k] # row[k]
    PROVE  /\ row[k].from # Null /\ row[k].until = Null
           /\ row'[k].until # Null /\ row'[k].until > row[k].from
           /\ row'[k] = [row[k] EXCEPT !.until = row'[k].until]
<1>1. k # j
  BY DEF LocksHold, OnlyStoredHaveRows, Commit
<1>2. k \in job[j].seen /\ row'[k] = [row[k] EXCEPT !.until = job[j].from]
  BY <1>1 DEF Commit
<1>3. Replaced(j, k) /\ job[j].from # Null
  BY <1>2 DEF LocksHold, RowsStayMatched, OnlyStartsReplace, Commit
<1>4. row[k] \in Row
  BY DEF TypeOK
<1>5. row'[k].until = job[j].from
  BY <1>2, <1>4 DEF Row
<1>6. job[j].from \in Nat /\ row[k].from \in Nat
  BY <1>3, <1>4 DEF TypeOK, Job, Row, Bound, Replaced
<1> QED BY <1>2, <1>3, <1>5, <1>6 DEF Replaced

\* "'Always valid' uploads are never clipped" (dropzones/requirements.md:36), nor is
\* anything that has an end, whichever transactions and edits run beside a commit.
THEOREM OnlyOpenEndsAreClosed == Spec => OnlyOpenEndsMove
<1>1. Init => TypeOK /\ LocksHold
  BY TypeInit, LocksInit
<1>2. TypeOK /\ LocksHold /\ [Next]_vars => (TypeOK /\ LocksHold)'
  BY TypeStep, LocksStep
<1>3. TypeOK /\ LocksHold /\ [Next]_vars =>
        [\A k \in Jobs :
            (\E j \in Jobs : Commit(j)) /\ row[k] \notin {NoRow, row'[k]} =>
                /\ row[k].from # Null /\ row[k].until = Null
                /\ row'[k].until # Null /\ row'[k].until > row[k].from
                /\ row'[k] = [row[k] EXCEPT !.until = row'[k].until]]_vars
  BY CommitClosesOpenEnds
<1> QED BY <1>1, <1>2, <1>3, PTL DEF Spec, OnlyOpenEndsMove

-----------------------------------------------------------------------------
(* Rows and files.                                                         *)

\* Where a job is tells what is on the volume, until the admin deletes its row.
FilesFollow ==
    /\ \A j \in Jobs : job[j].at \in {"new", "received", "refused", "failed"} =>
                           directory[j] = "none"
    /\ \A j \in Jobs : job[j].at \in {"written", "scanned", "clipped"} => directory[j] = "whole"
    /\ \A j \in Jobs : job[j].at = "stored" /\ row[j] = NoRow => directory[j] = "none"
    /\ \A j \in Jobs \ ({deleting} \cup stripped) : row[j] # NoRow => directory[j] = "whole"
    /\ deleting # Nobody => row[deleting] # NoRow
    /\ \A j \in doubted : job[j].at = "stored"

\* Nothing is stored at first, and no directory exists.
LEMMA FilesInit == Init => FilesFollow
BY DEF Init, FilesFollow

\* A commit keeps every row it finds, and makes its own.
LEMMA CommitKeepsRows ==
    ASSUME TypeOK, LocksHold, NEW j \in Jobs, Commit(j)
    PROVE  row'[j] # NoRow /\ \A k \in Jobs \ {j} : row'[k] = NoRow <=> row[k] = NoRow
<1>1. TypeOK'
  BY TypeStep DEF Next
<1>2. row'[j] = [from |-> job[j].from, until |-> job[j].until, uploaded |-> job[j].uploaded]
  BY DEF Commit
<1>3. row'[j] \in Row
  BY <1>2 DEF TypeOK, Job, Row
<1>4. ASSUME NEW k \in Jobs \ {j} PROVE row'[k] = NoRow <=> row[k] = NoRow
  <2>1. CASE k \in job[j].seen
    <3>1. row[k] # NoRow
      BY <2>1 DEF LocksHold, RowsStayMatched, Replaced, Commit
    <3>2. row[k] \in Row /\ job[j].from \in Bound
      BY <3>1 DEF TypeOK, Job
    <3>3. row'[k] = [row[k] EXCEPT !.until = job[j].from]
      BY <2>1 DEF Commit
    <3>4. row'[k] \in Row
      BY <3>2, <3>3 DEF Row
    <3> QED BY <3>1, <3>4, UploadsAssumption
  <2>2. CASE k \notin job[j].seen
    BY <2>2 DEF Commit
  <2> QED BY <2>1, <2>2
<1> QED BY <1>3, <1>4, UploadsAssumption

\* Every step keeps each job's files in line with where the job and its row are.
LEMMA FilesStep == TypeOK /\ LocksHold /\ FilesFollow /\ [Next]_vars => FilesFollow'
<1> SUFFICES ASSUME TypeOK, LocksHold, FilesFollow, [Next]_vars PROVE FilesFollow'
  OBVIOUS
<1>0. /\ job \in [Jobs -> Job] /\ row \in [Jobs -> Row \cup {NoRow}]
      /\ directory \in [Jobs -> {"none", "partial", "whole"}]
      /\ deleting \in Jobs \cup {Nobody} /\ Nobody \notin Jobs /\ doubted \subseteq Jobs
      /\ OnlyStoredHaveRows
  BY UploadsAssumption DEF TypeOK, LocksHold
<1>1. ASSUME NEW j \in Jobs, NEW mode \in Modes, NEW start \in Dates \cup {Null},
             NEW end \in Dates \cup {Null}, Receive(j, mode, start, end)
      PROVE  FilesFollow'
  BY <1>0, <1>1 DEF Receive, FilesFollow, Job
<1>2. ASSUME NEW j \in Jobs, Refuse(j) PROVE FilesFollow'
  BY <1>0, <1>2 DEF Refuse, FilesFollow, Job
<1>3. ASSUME NEW j \in Jobs, Insert(j) PROVE FilesFollow'
  BY <1>0, <1>3 DEF Insert, FilesFollow, Job, OnlyStoredHaveRows
<1>4. ASSUME NEW j \in Jobs, WriteFiles(j) PROVE FilesFollow'
  BY <1>0, <1>4 DEF WriteFiles, FilesFollow, Job
<1>5. ASSUME NEW j \in Jobs, ClipScan(j) PROVE FilesFollow'
  BY <1>0, <1>5 DEF ClipScan, FilesFollow, Job
<1>6. ASSUME NEW j \in Jobs, ClipApply(j) PROVE FilesFollow'
  BY <1>0, <1>6 DEF ClipApply, FilesFollow, Job
<1>7. ASSUME NEW j \in Jobs, Commit(j) PROVE FilesFollow'
  <2>1. row'[j] # NoRow /\ \A k \in Jobs \ {j} : row'[k] = NoRow <=> row[k] = NoRow
    BY <1>7, CommitKeepsRows
  <2>2. job[j].at = "clipped" /\ job'[j].at = "stored" /\ \A i \in Jobs \ {j} : job'[i] = job[i]
    BY <1>0, <1>7 DEF Commit, Job
  <2>3. UNCHANGED <<directory, deleting, stripped>> /\ doubted' \in {doubted, doubted \cup {j}}
    BY <1>7 DEF Commit
  <2> QED BY <1>0, <2>1, <2>2, <2>3 DEF FilesFollow
<1>8. ASSUME NEW j \in Jobs, RollBack(j) PROVE FilesFollow'
  BY <1>0, <1>8 DEF RollBack, FilesFollow, Job
<1>9. ASSUME NEW j \in Jobs, RemoveDirectory(j) PROVE FilesFollow'
  BY <1>0, <1>9 DEF RemoveDirectory, FilesFollow, Job, OnlyStoredHaveRows
<1>10. ASSUME Crash PROVE FilesFollow'
  <2>1. \A j \in Jobs : job'[j] = job[j] \/ (job[j].at # "stored" /\ job'[j].at = "crashed")
    BY <1>0, <1>10 DEF Crash, Running, Job
  <2> QED BY <1>0, <1>10, <2>1 DEF Crash, FilesFollow
<1>11. ASSUME NEW k \in Jobs, NEW posted \in Corrections, AdminEdit(k, posted)
       PROVE  FilesFollow'
  <2>1. row'[k] \in Row /\ \A l \in Jobs \ {k} : row'[l] = row[l]
    BY <1>0, <1>11, UploadsAssumption DEF AdminEdit, Row
  <2>2. row[k] # NoRow /\ row'[k] # NoRow
    BY <1>11, <2>1, UploadsAssumption DEF AdminEdit
  <2>3. UNCHANGED <<job, directory, doubted, deleting, stripped>>
    BY <1>11 DEF AdminEdit
  <2> QED BY <1>0, <2>1, <2>2, <2>3 DEF FilesFollow
<1>12. ASSUME NEW k \in Jobs, AdminDelete(k) PROVE FilesFollow'
  BY <1>0, <1>12 DEF AdminDelete, AdminMayAct, FilesFollow, OnlyStoredHaveRows
<1>13. ASSUME DeleteCommit PROVE FilesFollow'
  BY <1>0, <1>13 DEF DeleteCommit, FilesFollow, OnlyStoredHaveRows
<1>14. ASSUME DeleteCutOff PROVE FilesFollow'
  BY <1>0, <1>14 DEF DeleteCutOff, FilesFollow
<1>15. ASSUME NEW j \in Jobs, RemoveStored(j) PROVE FilesFollow'
  <2>1. job[j].at = "stored" /\ doubted' \subseteq doubted /\ UNCHANGED <<job, row, deleting>>
    BY <1>15 DEF RemoveStored, FilesFollow
  <2>2. /\ directory'[j] = "none" /\ stripped' = stripped \cup {j}
        /\ \A i \in Jobs \ {j} : directory'[i] = directory[i]
    BY <1>0, <1>15 DEF RemoveStored
  <2> QED BY <2>1, <2>2 DEF FilesFollow
<1>16. CASE UNCHANGED vars
  BY <1>16 DEF vars, FilesFollow
<1> QED BY <1>1, <1>2, <1>3, <1>4, <1>5, <1>6, <1>7, <1>8, <1>9, <1>10, <1>11, <1>12,
           <1>13, <1>14, <1>15, <1>16 DEF Next

\* "Then store files and Upload row all-or-nothing" (dropzones/services.py:5): a visible row
\* has all its files, and an upload that failed has left none, whatever else runs, crashes
\* or is deleted.
THEOREM FilesCorrect == Spec => []AllOrNothing
<1>1. Init => TypeOK /\ LocksHold /\ FilesFollow
  BY TypeInit, LocksInit, FilesInit
<1>2. TypeOK /\ LocksHold /\ FilesFollow /\ [Next]_vars => (TypeOK /\ LocksHold /\ FilesFollow)'
  BY TypeStep, LocksStep, FilesStep
<1>3. FilesFollow => AllOrNothing
  BY DEF FilesFollow, AllOrNothing
<1> QED BY <1>1, <1>2, <1>3, PTL DEF Spec

-----------------------------------------------------------------------------
(* What an upload is valid for.                                            *)

\* No upload that was inserted bears a stamp the clock has yet to show.
StampsPass ==
    \A j \in Jobs : job[j].at \in {"inserted", "written", "scanned", "clipped", "stored"} =>
        job[j].uploaded < clock

\* Only the admin changes the start of a row.
StartsKept == \A j \in Jobs \ edited : row[j] # NoRow => row[j].from = job[j].from

\* Where uploads are stored one at a time, each is stamped after all that are stored, and
\* what it is to replace it has selected, but for rows the admin has changed meanwhile.
InTurn == method # "flight" =>
    /\ \A i, j \in Running : i = j
    /\ \A i, j \in Jobs :
          job[i].at = "stored" /\ job[j].at \in {"inserted", "written", "scanned", "clipped"} =>
              job[i].uploaded < job[j].uploaded
    /\ \A j \in Jobs : job[j].at \in {"scanned", "clipped"} /\ job[j].from # Null =>
          \A k \in Jobs \ edited : Replaced(j, k) => k \in job[j].seen

PeriodInv == StampsPass /\ StartsKept /\ InTurn /\ ValidUntilReplaced

\* Nothing has arrived at first.
LEMMA PeriodInit == Init => PeriodInv
BY DEF Init, PeriodInv, StampsPass, StartsKept, InTurn, ValidUntilReplaced, Running, OpenEnded

\* Steps that store no upload, and change rows only as the admin may, leave the periods of
\* the others as they are.
LEMMA PeriodsKept ==
    ASSUME ValidUntilReplaced, method' = method, edited \subseteq edited',
           \A j \in Jobs : \/ job'[j] = job[j]
                           \/ job[j].at # "stored" /\ job'[j].at # "stored",
           \A j \in Jobs \ edited' : row'[j] \in {NoRow, row[j]}
    PROVE  ValidUntilReplaced'
<1>1. \A j, k \in Jobs : Before(j, k)' <=> Before(j, k)
  BY DEF Before
<1>2. \A j \in Jobs : OpenEnded(j)' => OpenEnded(j) /\ job'[j] = job[j]
  BY DEF OpenEnded
<1>3. \A j, k \in Jobs : Before(j, k) => job'[k] = job[k] /\ job'[j] = job[j]
  BY DEF Before
<1>4. \A j \in Jobs : Successors(j)' = Successors(j)
  BY <1>1, <1>3 DEF Successors
<1> SUFFICES ASSUME method # "flight", NEW j \in Jobs \ edited', OpenEnded(j)', row'[j] # NoRow
             PROVE  IF Successors(j) = {} THEN row'[j].until = Null
                    ELSE \E k \in Successors(j) :
                            /\ row'[j].until = job'[k].from
                            /\ \A l \in Successors(j) \ {k} : Before(k, l)'
  BY <1>4 DEF ValidUntilReplaced
<1>5. /\ row'[j] = row[j] /\ OpenEnded(j)
      /\ IF Successors(j) = {} THEN row[j].until = Null
         ELSE \E k \in Successors(j) :
                 /\ row[j].until = job[k].from
                 /\ \A l \in Successors(j) \ {k} : Before(k, l)
  BY <1>2 DEF ValidUntilReplaced
<1>6. \A k \in Successors(j) : k \in Jobs /\ Before(j, k)
  BY DEF Successors
<1> QED BY <1>1, <1>3, <1>5, <1>6

\* A running job that moves within its transaction, and changes no row, keeps its turn.
LEMMA TurnMoves ==
    ASSUME TypeOK, PeriodInv, NEW j \in Running,
           UNCHANGED <<method, clock, row, edited>>,
           \A i \in Jobs \ {j} : job'[i] = job[i],
           job'[j].from = job[j].from, job'[j].uploaded = job[j].uploaded,
           job'[j].at \notin {"new", "received", "inserted", "stored"},
           job'[j].at \in {"written", "scanned", "clipped"} =>
               job[j].at \in {"inserted", "written", "scanned"},
           job'[j].at \in {"scanned", "clipped"} /\ job'[j].from # Null =>
               method = "flight" \/ \A k \in Jobs \ edited : Replaced(j, k) => k \in job'[j].seen
    PROVE  PeriodInv'
<1> USE DEF PeriodInv
<1>0. j \in Jobs /\ job[j].at # "stored" /\ Running' \subseteq Running
  BY DEF Running
<1>1. StampsPass'
  BY <1>0 DEF StampsPass
<1>2. StartsKept'
  BY <1>0 DEF StartsKept
<1>3. \A i, k \in Jobs : Replaced(i, k)' <=> Replaced(i, k)
  BY <1>0 DEF Replaced
<1>4. InTurn'
  BY <1>0, <1>3 DEF InTurn
<1>5. ValidUntilReplaced'
  BY <1>0, PeriodsKept
<1> QED BY <1>1, <1>2, <1>4, <1>5

\* A commit is the turn of the newest upload: it ends the open-ended ones that began before
\* it and have no end yet, and none that has been ended.
LEMMA CommitInTurn ==
    ASSUME TypeOK, LocksHold, PeriodInv, NEW k \in Jobs, Commit(k), method # "flight",
           NEW j \in Jobs \ edited, OpenEnded(j)', row'[j] # NoRow
    PROVE  IF Successors(j)' = {} THEN row'[j].until = Null
           ELSE \E i \in Successors(j)' :
                   /\ row'[j].until = job'[i].from
                   /\ \A l \in Successors(j)' \ {i} : Before(i, l)'
<1>0. /\ job \in [Jobs -> Job] /\ job[k].at = "clipped"
      /\ job'[k].at = "stored" /\ \A i \in Jobs \ {k} : job'[i] = job[i]
      /\ \A i \in Jobs : /\ job'[i].from = job[i].from /\ job'[i].until = job[i].until
                         /\ job'[i].uploaded = job[i].uploaded
      /\ row'[k] = [from |-> job[k].from, until |-> job[k].until, uploaded |-> job[k].uploaded]
      /\ \A i \in Jobs \ {k} : row'[i] = IF i \in job[k].seen THEN [row[i] EXCEPT !.until = job[k].from]
                                         ELSE row[i]
  BY DEF TypeOK, Commit, Job
<1>1. \A i \in Jobs : job[i].at = "stored" => job[i].uploaded < job[k].uploaded
  BY <1>0 DEF PeriodInv, InTurn
<1>2. \A i \in Jobs : job[i].uploaded \in Nat /\ job[i].from \in Bound
  BY <1>0 DEF Job
<1>3. \A i, l \in Jobs : Before(i, l)' <=> Before(i, l) \/ (l = k /\ job[i].at = "stored")
  <2> SUFFICES ASSUME NEW i \in Jobs, NEW l \in Jobs
               PROVE  Before(i, l)' <=> Before(i, l) \/ (l = k /\ job[i].at = "stored")
    OBVIOUS
  <2>1. CASE i = k
    BY <1>0, <1>1, <1>2, <2>1 DEF Before
  <2>2. CASE i # k
    BY <1>0, <1>1, <1>2, <2>2 DEF Before
  <2> QED BY <2>1, <2>2
<1>4. CASE j = k
  <2>1. Successors(j)' = {}
    BY <1>0, <1>3, <1>4 DEF Successors, Before
  <2>2. row'[j].until = Null
    BY <1>0, <1>4 DEF OpenEnded
  <2> QED BY <2>1, <2>2
<1>5. CASE j # k
  <2>1. job[j].at = "stored" /\ OpenEnded(j) /\ job[j].from # Null
    BY <1>0, <1>5 DEF OpenEnded
  <2>2. row[j] # NoRow /\ row[j].from = job[j].from /\ row[j] \in Row
    <3>1. row[j] # NoRow
      <4>1. \A i \in Jobs \ {k} : row'[i] = NoRow <=> row[i] = NoRow
        BY CommitKeepsRows
      <4> QED BY <1>5, <4>1
    <3> QED BY <3>1 DEF PeriodInv, StartsKept, TypeOK
  <2>3. IF Successors(j) = {} THEN row[j].until = Null
        ELSE \E i \in Successors(j) :
                /\ row[j].until = job[i].from
                /\ \A l \in Successors(j) \ {i} : Before(i, l)
    BY <2>1, <2>2 DEF PeriodInv, ValidUntilReplaced
  <2>4. \A i \in Successors(j) : i \in Jobs /\ job[i].at = "stored" /\ job[i].from # Null
    BY DEF Successors, Before
  <2>5. k \notin Successors(j)
    BY <1>0, <2>4
  <2> DEFINE later == job[k].from # Null /\ job[k].from > job[j].from
  <2>6. Successors(j)' = IF later THEN Successors(j) \cup {k} ELSE Successors(j)
    BY <1>0, <1>3, <2>1, <2>5 DEF Successors
  <2>7. j \in job[k].seen <=> later /\ row[j].until = Null
    <3>1. j \in job[k].seen => Replaced(k, j) /\ job[k].from # Null
      BY <1>0 DEF LocksHold, RowsStayMatched, OnlyStartsReplace
    <3>2. job[k].from # Null /\ Replaced(k, j) => j \in job[k].seen
      BY <1>0 DEF PeriodInv, InTurn
    <3>3. job[k].from # Null => (Replaced(k, j) <=> later /\ row[j].until = Null)
      <4>1. job[k].from # Null => job[k].from \in Nat /\ job[j].from \in Nat
        BY <1>2, <2>1 DEF Bound
      <4> QED BY <1>5, <2>1, <2>2, <4>1 DEF Replaced
    <3> QED BY <3>1, <3>2, <3>3
  <2>8. row'[j].until = IF j \in job[k].seen THEN job[k].from ELSE row[j].until
    BY <1>0, <1>5, <2>2 DEF Row
  <2>9. CASE ~later
    <3>1. Successors(j)' = Successors(j) /\ row'[j].until = row[j].until
      BY <2>6, <2>7, <2>8, <2>9
    <3>2. \A i \in Successors(j) : job'[i].from = job[i].from /\ \A l \in Successors(j) : Before(i, l) => Before(i, l)'
      BY <1>0, <1>3, <2>4
    <3> QED BY <2>3, <3>1, <3>2
  <2>10. CASE later /\ Successors(j) = {}
    <3>1. Successors(j)' = {k} /\ row'[j].until = job[k].from
      BY <2>3, <2>6, <2>7, <2>8, <2>10
    <3> QED BY <1>0, <3>1
  <2>11. CASE later /\ Successors(j) # {}
    <3>1. PICK i \in Successors(j) : /\ row[j].until = job[i].from
                                     /\ \A l \in Successors(j) \ {i} : Before(i, l)
      BY <2>3, <2>11
    <3>2. row[j].until # Null /\ row'[j].until = row[j].until
      BY <2>4, <2>7, <2>8, <3>1
    <3>3. Successors(j)' = Successors(j) \cup {k}
      BY <2>6, <2>11
    <3>4. \A l \in Successors(j)' \ {i} : Before(i, l)'
      BY <1>3, <2>4, <3>1, <3>3
    <3>5. row'[j].until = job'[i].from
      BY <1>0, <2>4, <3>1, <3>2
    <3> QED BY <3>3, <3>4, <3>5
  <2> QED BY <2>9, <2>10, <2>11
<1> QED BY <1>4, <1>5

\* Every step of the pipeline and the admin keeps the turns and the periods.
LEMMA PeriodStep == TypeOK /\ LocksHold /\ PeriodInv /\ [Next]_vars => PeriodInv'
<1> SUFFICES ASSUME TypeOK, LocksHold, PeriodInv, [Next]_vars PROVE PeriodInv'
  OBVIOUS
<1>0. job \in [Jobs -> Job] /\ clock \in Nat /\ row \in [Jobs -> Row \cup {NoRow}]
  BY DEF TypeOK
<1>1. ASSUME NEW j \in Jobs, NEW mode \in Modes, NEW start \in Dates \cup {Null},
             NEW end \in Dates \cup {Null}, Receive(j, mode, start, end)
      PROVE  PeriodInv'
  <2>1. /\ job[j].at = "new" /\ job'[j].at = "received" /\ clock' = clock + 1
        /\ UNCHANGED <<method, row, edited>>
        /\ \A i \in Jobs \ {j} : job'[i] = job[i]
        /\ method # "flight" => Running = {}
    BY <1>0, <1>1 DEF Receive, MayReceive, Job
  <2>2. \A i \in Jobs : job[i].uploaded \in Nat
    BY <1>0 DEF Job
  <2>3. StampsPass'
    BY <1>0, <2>1, <2>2 DEF PeriodInv, StampsPass
  <2>4. StartsKept'
    BY <2>1 DEF PeriodInv, StartsKept, LocksHold, OnlyStoredHaveRows
  <2>5. \A i \in Jobs \ {j}, k \in Jobs : Replaced(i, k)' <=> Replaced(i, k)
    BY <2>1 DEF Replaced
  <2>6. InTurn'
    BY <2>1, <2>5 DEF PeriodInv, InTurn, Running
  <2>7. ValidUntilReplaced'
    BY <2>1, PeriodsKept DEF PeriodInv
  <2> QED BY <2>3, <2>4, <2>6, <2>7 DEF PeriodInv
<1>2. ASSUME NEW j \in Jobs, Insert(j) PROVE PeriodInv'
  <2>1. /\ job[j].at = "received" /\ job'[j].at = "inserted" /\ job'[j].uploaded = clock
        /\ job'[j].from = job[j].from /\ clock' = clock + 1
        /\ UNCHANGED <<method, row, edited>>
        /\ \A i \in Jobs \ {j} : job'[i] = job[i]
    BY <1>0, <1>2 DEF Insert, Job
  <2>2. \A i \in Jobs : job[i].uploaded \in Nat
    BY <1>0 DEF Job
  <2>3. StampsPass'
    BY <1>0, <2>1, <2>2 DEF PeriodInv, StampsPass
  <2>4. StartsKept'
    BY <2>1 DEF PeriodInv, StartsKept
  <2>5. Running' \subseteq Running /\ j \in Running
    BY <2>1 DEF Running
  <2>6. \A i, k \in Jobs : Replaced(i, k)' <=> Replaced(i, k)
    BY <2>1 DEF Replaced
  <2>7. \A i \in Jobs : job[i].at = "stored" => job[i].uploaded < clock
    BY DEF PeriodInv, StampsPass
  <2>8. InTurn'
    BY <2>1, <2>5, <2>6, <2>7 DEF PeriodInv, InTurn
  <2>9. ValidUntilReplaced'
    BY <2>1, PeriodsKept DEF PeriodInv
  <2> QED BY <2>3, <2>4, <2>8, <2>9 DEF PeriodInv
<1>3. ASSUME NEW j \in Jobs, Refuse(j) \/ WriteFiles(j) \/ RollBack(j) \/ RemoveDirectory(j)
      PROVE  PeriodInv'
  <2>1. /\ j \in Running /\ UNCHANGED <<method, clock, row, edited>>
        /\ job'[j].from = job[j].from /\ job'[j].uploaded = job[j].uploaded
        /\ job'[j].at \in {"refused", "written", "rolledback", "failed"}
        /\ job'[j].at = "written" => job[j].at = "inserted"
        /\ \A i \in Jobs \ {j} : job'[i] = job[i]
    BY <1>0, <1>3 DEF Refuse, WriteFiles, RollBack, RemoveDirectory, Running, Job
  <2> QED BY <2>1, TurnMoves
<1>4. ASSUME NEW j \in Jobs, ClipScan(j) PROVE PeriodInv'
  <2>1. /\ j \in Running /\ UNCHANGED <<method, clock, row, edited>>
        /\ job'[j].from = job[j].from /\ job'[j].uploaded = job[j].uploaded
        /\ job[j].at = "written" /\ job'[j].at = "scanned"
        /\ job[j].from # Null => job'[j].seen = {k \in Jobs : Replaced(j, k)}
        /\ \A i \in Jobs \ {j} : job'[i] = job[i]
    BY <1>0, <1>4 DEF ClipScan, Running, Job
  <2> QED BY <2>1, TurnMoves
<1>5. ASSUME NEW j \in Jobs, ClipApply(j) PROVE PeriodInv'
  <2>1. /\ j \in Running /\ UNCHANGED <<method, clock, row, edited>>
        /\ job'[j].from = job[j].from /\ job'[j].uploaded = job[j].uploaded
        /\ job[j].at = "scanned" /\ job'[j].at = "clipped"
        /\ job'[j].seen = {k \in job[j].seen : Replaced(j, k)}
        /\ \A i \in Jobs \ {j} : job'[i] = job[i]
    BY <1>0, <1>5 DEF ClipApply, Running, Job
  <2>2. method # "flight" /\ job[j].from # Null =>
            \A k \in Jobs \ edited : Replaced(j, k) => k \in job[j].seen
    BY <2>1 DEF PeriodInv, InTurn, Running
  <2> QED BY <2>1, <2>2, TurnMoves
<1>6. ASSUME NEW k \in Jobs, Commit(k) PROVE PeriodInv'
  <2>1. /\ UNCHANGED <<method, clock, edited>> /\ job[k].at = "clipped" /\ job'[k].at = "stored"
        /\ \A i \in Jobs \ {k} : job'[i] = job[i]
        /\ \A i \in Jobs : job'[i].from = job[i].from /\ job'[i].uploaded = job[i].uploaded
        /\ row'[k].from = job[k].from
        /\ \A i \in Jobs \ {k} : row'[i] = row[i] \/ row'[i] = [row[i] EXCEPT !.until = job[k].from]
    BY <1>0, <1>6 DEF Commit, Job
  <2>2. StampsPass'
    BY <2>1 DEF PeriodInv, StampsPass
  <2>3. StartsKept'
    <3>1. \A i \in Jobs \ {k} : row'[i] # NoRow => row[i] # NoRow /\ row'[i].from = row[i].from
      <4>1. \A i \in Jobs \ {k} : row'[i] = NoRow <=> row[i] = NoRow
        BY <1>6, CommitKeepsRows
      <4> QED BY <1>0, <2>1, <4>1 DEF Row
    <3> QED BY <2>1, <3>1 DEF PeriodInv, StartsKept
  <2>4. InTurn'
    <3>1. CASE method # "flight"
      <4>1. Running = {k}
        BY <2>1, <3>1 DEF PeriodInv, InTurn, Running
      <4>2. Running' = {}
        BY <2>1, <4>1 DEF Running
      <4> QED BY <4>2 DEF InTurn, Running
    <3>2. CASE method = "flight"
      BY <2>1, <3>2 DEF InTurn
    <3> QED BY <3>1, <3>2
  <2>5. ValidUntilReplaced'
    BY <1>6, <2>1, CommitInTurn DEF ValidUntilReplaced
  <2> QED BY <2>2, <2>3, <2>4, <2>5 DEF PeriodInv
<1>7. ASSUME Crash PROVE PeriodInv'
  <2>0. job \in [Jobs -> Job]
    BY <1>0
  <2>1. UNCHANGED <<method, clock, row, edited>>
    BY <1>7 DEF Crash
  <2>2. \A j \in Jobs : \/ job'[j] = job[j] /\ j \notin Running
                        \/ job[j].at # "stored" /\ job'[j].at = "crashed"
    BY <1>7, <2>0 DEF Crash, Running, Job
  <2>3. StampsPass'
    BY <2>1, <2>2 DEF PeriodInv, StampsPass
  <2>4. StartsKept'
    BY <2>1, <2>2 DEF PeriodInv, StartsKept, LocksHold, OnlyStoredHaveRows
  <2>5. InTurn'
    BY <2>2 DEF InTurn, Running
  <2>6. ValidUntilReplaced'
    BY <2>1, <2>2, PeriodsKept DEF PeriodInv
  <2> QED BY <2>3, <2>4, <2>5, <2>6 DEF PeriodInv
<1>8. ASSUME UNCHANGED <<method, clock, job>>, edited \subseteq edited',
             \A j \in Jobs \ edited' : row'[j] \in {NoRow, row[j]}
      PROVE  PeriodInv'
  <2>1. StampsPass'
    BY <1>8 DEF PeriodInv, StampsPass
  <2>2. StartsKept'
    BY <1>8 DEF PeriodInv, StartsKept
  <2>3. \A i \in Jobs, k \in Jobs \ edited' : Replaced(i, k)' => Replaced(i, k)
    BY <1>8 DEF Replaced
  <2>4. InTurn'
    BY <1>8, <2>3 DEF PeriodInv, InTurn, Running
  <2>5. ValidUntilReplaced'
    BY <1>8, PeriodsKept DEF PeriodInv
  <2> QED BY <2>1, <2>2, <2>4, <2>5 DEF PeriodInv
<1>9. ASSUME NEW k \in Jobs, NEW posted \in Corrections, AdminEdit(k, posted) PROVE PeriodInv'
  BY <1>0, <1>8, <1>9 DEF AdminEdit
<1>10. ASSUME DeleteCommit PROVE PeriodInv'
  BY <1>0, <1>8, <1>10 DEF DeleteCommit
<1>11. ASSUME \/ \E k \in Jobs : AdminDelete(k) \/ RemoveStored(k)
              \/ DeleteCutOff \/ UNCHANGED vars
       PROVE  PeriodInv'
  BY <1>8, <1>11 DEF AdminDelete, RemoveStored, DeleteCutOff, vars
<1> QED BY <1>1, <1>2, <1>3, <1>4, <1>5, <1>6, <1>7, <1>9, <1>10, <1>11 DEF Next

\* "Each reading is valid exactly while it is the newest" (dropzones/requirements.md:101):
\* where uploads are stored one at a time, an open-ended one ends where the first later
\* upload with a later start begins, whatever failed, crashed or was deleted in between.
THEOREM ValidWhileNewest == Spec => []ValidUntilReplaced
<1>1. Init => TypeOK /\ LocksHold /\ PeriodInv
  BY TypeInit, LocksInit, PeriodInit
<1>2. TypeOK /\ LocksHold /\ PeriodInv /\ [Next]_vars => (TypeOK /\ LocksHold /\ PeriodInv)'
  BY TypeStep, LocksStep, PeriodStep
<1>3. PeriodInv => ValidUntilReplaced
  BY DEF PeriodInv
<1> QED BY <1>1, <1>2, <1>3, PTL DEF Spec

-----------------------------------------------------------------------------
(* What readers see.                                                       *)

\* The web worker serves one request at a time: between the statement that selects the rows
\* to shorten and the one that shortens them, no other row comes to match.
ServedAlone == method = "web" =>
    /\ \A i, j \in Running : i = j
    /\ Running # {} => deleting = Nobody
    /\ \A j \in Jobs : job[j].at \in {"scanned", "clipped"} /\ job[j].from # Null =>
          \A k \in Jobs : Replaced(j, k) => k \in job[j].seen

\* An upload that is being deleted is no longer whole.
EmptiedFirst == deleting # Nobody => directory[deleting] # "whole"

\* Nothing runs at first.
LEMMA AloneInit == Init => ServedAlone /\ EmptiedFirst
BY DEF Init, ServedAlone, EmptiedFirst, Running

\* A running job that moves and changes no row takes nothing from what it has selected.
LEMMA RunningMoves ==
    ASSUME TypeOK, ServedAlone, NEW j \in Running, UNCHANGED <<method, row, deleting>>,
           \A i \in Jobs \ {j} : job'[i] = job[i],
           job'[j].from = job[j].from,
           job'[j].at \in {"scanned", "clipped"} /\ job'[j].from # Null =>
               \A k \in Jobs : Replaced(j, k) => k \in job'[j].seen
    PROVE  ServedAlone'
<1>1. Running' \subseteq Running
  BY DEF Running
<1>2. \A i, k \in Jobs : job'[i].from = job[i].from /\ Replaced(i, k)' = Replaced(i, k)
  BY DEF Replaced
<1> QED BY <1>1, <1>2 DEF ServedAlone

\* How the files arrive is fixed.
LEMMA MethodKept == [Next]_vars => method' = method
<1> SUFFICES ASSUME [Next]_vars PROVE method' = method
  OBVIOUS
<1>1. ASSUME NEW j \in Jobs, NEW mode \in Modes, NEW start \in Dates \cup {Null},
             NEW end \in Dates \cup {Null}, Receive(j, mode, start, end)
      PROVE  method' = method
  BY <1>1 DEF Receive
<1>2. ASSUME NEW j \in Jobs, Refuse(j) \/ Insert(j) \/ WriteFiles(j) \/ ClipScan(j) PROVE method' = method
  BY <1>2 DEF Refuse, Insert, WriteFiles, ClipScan
<1>3. ASSUME NEW j \in Jobs, ClipApply(j) \/ Commit(j) \/ RollBack(j) \/ RemoveDirectory(j)
      PROVE  method' = method
  BY <1>3 DEF ClipApply, Commit, RollBack, RemoveDirectory
<1>4. ASSUME NEW k \in Jobs, AdminDelete(k) \/ RemoveStored(k) PROVE method' = method
  BY <1>4 DEF AdminDelete, RemoveStored
<1>5. ASSUME NEW k \in Jobs, NEW posted \in Corrections, AdminEdit(k, posted) PROVE method' = method
  BY <1>5 DEF AdminEdit
<1>6. ASSUME Crash \/ DeleteCommit \/ DeleteCutOff \/ UNCHANGED vars PROVE method' = method
  BY <1>6 DEF Crash, DeleteCommit, DeleteCutOff, vars
<1> QED BY <1>1, <1>2, <1>3, <1>4, <1>5, <1>6 DEF Next

\* Every step of the pipeline and the admin leaves a web worker alone.
LEMMA AloneStep == TypeOK /\ ServedAlone /\ [Next]_vars => ServedAlone'
<1> SUFFICES ASSUME TypeOK, ServedAlone, [Next]_vars PROVE ServedAlone'
  OBVIOUS
<1>0. job \in [Jobs -> Job] /\ method' = method
  BY MethodKept DEF TypeOK
<1>1. ASSUME NEW j \in Jobs, NEW mode \in Modes, NEW start \in Dates \cup {Null},
             NEW end \in Dates \cup {Null}, Receive(j, mode, start, end), method = "web"
      PROVE  ServedAlone'
  <2>1. Running = {} /\ deleting = Nobody /\ deleting' = deleting
    BY <1>1 DEF Receive, MayReceive
  <2>2. job'[j].at = "received" /\ \A i \in Jobs \ {j} : job'[i] = job[i]
    BY <1>0, <1>1 DEF Receive, Job
  <2>3. Running' \subseteq {j}
    BY <2>1, <2>2 DEF Running
  <2>4. \A i \in Jobs : job'[i].at \notin {"scanned", "clipped"}
    BY <2>1, <2>2 DEF Running
  <2> QED BY <2>1, <2>3, <2>4 DEF ServedAlone
<1>2. ASSUME NEW j \in Jobs, Refuse(j) \/ Insert(j) \/ WriteFiles(j) \/ RollBack(j) \/ RemoveDirectory(j)
      PROVE  ServedAlone'
  <2>1. /\ j \in Running /\ UNCHANGED <<method, row, deleting>>
        /\ job'[j].from = job[j].from /\ job'[j].at \notin {"scanned", "clipped"}
        /\ \A i \in Jobs \ {j} : job'[i] = job[i]
    BY <1>0, <1>2 DEF Refuse, Insert, WriteFiles, RollBack, RemoveDirectory, Running, Job
  <2> QED BY <2>1, RunningMoves
<1>3. ASSUME NEW j \in Jobs, ClipScan(j) PROVE ServedAlone'
  <2>1. /\ j \in Running /\ UNCHANGED <<method, row, deleting>>
        /\ job'[j].from = job[j].from
        /\ job[j].from # Null => job'[j].seen = {k \in Jobs : Replaced(j, k)}
        /\ \A i \in Jobs \ {j} : job'[i] = job[i]
    BY <1>0, <1>3 DEF ClipScan, Running, Job
  <2> QED BY <2>1, RunningMoves
<1>4. ASSUME NEW j \in Jobs, ClipApply(j), method = "web" PROVE ServedAlone'
  <2>1. /\ j \in Running /\ UNCHANGED <<method, row, deleting>>
        /\ job[j].at = "scanned" /\ job'[j].from = job[j].from
        /\ job'[j].seen = {k \in job[j].seen : Replaced(j, k)}
        /\ \A i \in Jobs \ {j} : job'[i] = job[i]
    BY <1>0, <1>4 DEF ClipApply, Running, Job
  <2>2. job[j].from # Null => \A k \in Jobs : Replaced(j, k) => k \in job[j].seen
    BY <1>4, <2>1 DEF ServedAlone
  <2> QED BY <2>1, <2>2, RunningMoves
<1>5. ASSUME NEW j \in Jobs, Commit(j), method = "web" PROVE ServedAlone'
  <2>1. /\ job[j].at = "clipped" /\ job'[j].at = "stored" /\ UNCHANGED deleting
        /\ \A i \in Jobs \ {j} : job'[i] = job[i]
    BY <1>0, <1>5 DEF Commit, Job
  <2>2. Running = {j}
    BY <1>5, <2>1 DEF ServedAlone, Running
  <2>3. Running' = {}
    BY <2>1, <2>2 DEF Running
  <2> QED BY <2>3 DEF ServedAlone, Running
<1>6. ASSUME Crash PROVE ServedAlone'
  <2>1. Running' = {}
    BY <1>0, <1>6 DEF Crash, Running, Job
  <2> QED BY <2>1 DEF ServedAlone, Running
<1>7. ASSUME method = "web",
             (\E k \in Jobs : AdminDelete(k)) \/ (\E k \in Jobs, posted \in Corrections : AdminEdit(k, posted))
             \/ DeleteCommit \/ DeleteCutOff
      PROVE  ServedAlone'
  <2>1. Running = {} /\ UNCHANGED job
    BY <1>7 DEF AdminDelete, AdminEdit, AdminMayAct, DeleteCommit, DeleteCutOff, ServedAlone
  <2>2. Running' = {}
    BY <2>1 DEF Running
  <2> QED BY <2>2 DEF ServedAlone, Running
<1>8. ASSUME UNCHANGED vars \/ \E k \in Jobs : RemoveStored(k) PROVE ServedAlone'
  <2>1. UNCHANGED <<method, job, row, deleting>>
    BY <1>8 DEF vars, RemoveStored
  <2> QED BY <2>1 DEF ServedAlone, Running, Replaced
<1>9. CASE method # "web"
  BY <1>0, <1>9 DEF ServedAlone
<1> QED BY <1>1, <1>2, <1>3, <1>4, <1>5, <1>6, <1>7, <1>8, <1>9 DEF Next

\* Only an upload that is still being written becomes whole, and none is deleted before.
LEMMA EmptiedStep == TypeOK /\ LocksHold /\ FilesFollow /\ EmptiedFirst /\ [Next]_vars => EmptiedFirst'
<1> SUFFICES ASSUME TypeOK, LocksHold, FilesFollow, EmptiedFirst, [Next]_vars PROVE EmptiedFirst'
  OBVIOUS
<1>0. /\ directory \in [Jobs -> {"none", "partial", "whole"}] /\ deleting \in Jobs \cup {Nobody}
      /\ deleting # Nobody => job[deleting].at = "stored"
  BY DEF TypeOK, FilesFollow, LocksHold, OnlyStoredHaveRows
<1>1. ASSUME NEW j \in Jobs, \/ Insert(j) \/ WriteFiles(j) \/ RemoveDirectory(j)
                             \/ RemoveStored(j)
      PROVE  EmptiedFirst'
  BY <1>0, <1>1 DEF Insert, WriteFiles, RemoveDirectory, RemoveStored, EmptiedFirst
<1>2. ASSUME NEW k \in Jobs, AdminDelete(k) PROVE EmptiedFirst'
  BY <1>0, <1>2 DEF AdminDelete, EmptiedFirst
<1>3. ASSUME DeleteCommit \/ DeleteCutOff PROVE EmptiedFirst'
  BY <1>3 DEF DeleteCommit, DeleteCutOff, EmptiedFirst
<1>4. ASSUME UNCHANGED <<directory, deleting>> PROVE EmptiedFirst'
  BY <1>4 DEF EmptiedFirst
<1>5. ASSUME NEW j \in Jobs, \/ Refuse(j) \/ ClipScan(j) \/ ClipApply(j) \/ Commit(j) \/ RollBack(j)
      PROVE  EmptiedFirst'
  BY <1>4, <1>5 DEF Refuse, ClipScan, ClipApply, Commit, RollBack
<1>6. ASSUME NEW j \in Jobs, NEW mode \in Modes, NEW start \in Dates \cup {Null},
             NEW end \in Dates \cup {Null}, Receive(j, mode, start, end)
      PROVE  EmptiedFirst'
  BY <1>4, <1>6 DEF Receive
<1>7. ASSUME NEW k \in Jobs, NEW posted \in Corrections, AdminEdit(k, posted) PROVE EmptiedFirst'
  BY <1>4, <1>7 DEF AdminEdit
<1>8. ASSUME Crash \/ UNCHANGED vars PROVE EmptiedFirst'
  BY <1>4, <1>8 DEF Crash, vars
<1> QED BY <1>1, <1>2, <1>3, <1>5, <1>6, <1>7, <1>8 DEF Next

\* The uploads whose row is committed and whose files are all there.
Whole == {j \in Jobs : row[j] # NoRow /\ directory[j] = "whole"}

\* The jobs that were committed.
Used == {j \in Jobs : job[j].at = "stored"}

\* Nothing is visible at first.
LEMMA ReadableInit == Init => Readable!Init
BY DEF Init, Readable!Init

\* A commit shows one upload, whole, and ends rows it replaces: all of them where requests
\* are served one at a time.
LEMMA CommitStores ==
    ASSUME TypeOK, LocksHold, FilesFollow, ServedAlone, NEW j \in Jobs, Commit(j)
    PROVE  Readable!Store(j)
<1>0. /\ job[j] \in Job /\ job[j].at = "clipped" /\ job \in [Jobs -> Job]
      /\ UNCHANGED <<directory, method>>
      /\ row' = [k \in Jobs |->
                   IF k = j THEN [from |-> job[j].from, until |-> job[j].until, uploaded |-> job[j].uploaded]
                   ELSE IF k \in job[j].seen THEN [row[k] EXCEPT !.until = job[j].from]
                   ELSE row[k]]
      /\ job'[j].at = "stored" /\ \A i \in Jobs \ {j} : job'[i] = job[i]
  BY DEF TypeOK, Commit, Job
<1>1. row'[j] \in Readable!Upload /\ row'[j].from = job[j].from
  BY <1>0 DEF Readable!Upload, Job
<1>2. \A k \in Jobs \ {j} : Readable!OpenBefore(k, job[j].from) <=> job[j].from # Null /\ Replaced(j, k)
  BY DEF Readable!OpenBefore, Replaced
<1>3. ASSUME NEW k \in Jobs \ {j}
      PROVE  \/ Readable!OpenBefore(k, job[j].from) /\ row'[k] = [row[k] EXCEPT !.until = job[j].from]
             \/ (method = "web" => ~Readable!OpenBefore(k, job[j].from)) /\ row'[k] = row[k]
  <2>1. CASE k \in job[j].seen
    <3>1. Replaced(j, k) /\ job[j].from # Null
      BY <1>0, <2>1 DEF LocksHold, RowsStayMatched, OnlyStartsReplace
    <3> QED BY <1>0, <1>2, <2>1, <3>1
  <2>2. CASE k \notin job[j].seen
    <3>1. method = "web" /\ job[j].from # Null => ~Replaced(j, k)
      BY <1>0, <2>2 DEF ServedAlone
    <3> QED BY <1>0, <1>2, <2>2, <3>1
  <2> QED BY <2>1, <2>2
<1>4. Whole' = Whole \cup {j}
  <2>1. row'[j] # NoRow /\ \A k \in Jobs \ {j} : row'[k] = NoRow <=> row[k] = NoRow
    BY CommitKeepsRows
  <2>2. directory[j] = "whole"
    BY <1>0 DEF FilesFollow
  <2> QED BY <1>0, <2>1, <2>2 DEF Whole
<1>5. Used' = Used \cup {j} /\ j \notin Used
  BY <1>0 DEF Used
<1> QED BY <1>0, <1>1, <1>3, <1>4, <1>5 DEF Readable!Store, Whole, Used

\* Steps of a running job show nothing to readers: it has no row.
LEMMA RunningHidden ==
    ASSUME LocksHold, NEW j \in Jobs, job \in [Jobs -> Job],
           job[j].at # "stored", job'[j].at # "stored",
           \A i \in Jobs \ {j} : job'[i] = job[i] /\ directory'[i] = directory[i],
           UNCHANGED <<row, method>>
    PROVE  UNCHANGED Readable!stored
<1>1. row[j] = NoRow
  BY DEF LocksHold, OnlyStoredHaveRows
<1>2. Whole' = Whole /\ Used' = Used
  BY <1>1 DEF Whole, Used
<1> QED BY <1>2 DEF Readable!stored, Whole, Used

\* Every step of the pipeline and the admin is one that readers may see, or none.
LEMMA ReadableStep ==
    TypeOK /\ LocksHold /\ FilesFollow /\ ServedAlone /\ EmptiedFirst /\ [Next]_vars
        => [Readable!Next]_(Readable!stored)
<1> SUFFICES ASSUME TypeOK, LocksHold, FilesFollow, ServedAlone, EmptiedFirst, [Next]_vars
             PROVE  Readable!Next \/ UNCHANGED Readable!stored
  OBVIOUS
<1>0. /\ job \in [Jobs -> Job] /\ row \in [Jobs -> Row \cup {NoRow}]
      /\ directory \in [Jobs -> {"none", "partial", "whole"}] /\ deleting \in Jobs \cup {Nobody}
  BY DEF TypeOK
<1>1. ASSUME NEW j \in Jobs, NEW mode \in Modes, NEW start \in Dates \cup {Null},
             NEW end \in Dates \cup {Null}, Receive(j, mode, start, end)
      PROVE  UNCHANGED Readable!stored
  <2>1. /\ job[j].at = "new" /\ job'[j].at = "received" /\ UNCHANGED <<row, method, directory>>
        /\ \A i \in Jobs \ {j} : job'[i] = job[i]
    BY <1>0, <1>1 DEF Receive, Job
  <2> QED BY <1>0, <2>1, RunningHidden
<1>2. ASSUME NEW j \in Jobs,
             \/ Refuse(j) \/ Insert(j) \/ WriteFiles(j) \/ ClipScan(j) \/ ClipApply(j)
             \/ RollBack(j) \/ RemoveDirectory(j)
      PROVE  UNCHANGED Readable!stored
  <2>1. /\ job[j].at # "stored" /\ job'[j].at # "stored" /\ UNCHANGED <<row, method>>
        /\ \A i \in Jobs \ {j} : job'[i] = job[i] /\ directory'[i] = directory[i]
    BY <1>0, <1>2 DEF Refuse, Insert, WriteFiles, ClipScan, ClipApply, RollBack, RemoveDirectory, Job
  <2> QED BY <1>0, <2>1, RunningHidden
<1>3. ASSUME NEW j \in Jobs, Commit(j) PROVE Readable!Next
  BY <1>3, CommitStores DEF Readable!Next
<1>4. ASSUME Crash PROVE UNCHANGED Readable!stored
  <2>1. \A j \in Jobs : job'[j].at = "stored" <=> job[j].at = "stored"
    <3>1. \A j \in Jobs : \/ job'[j] = job[j]
                          \/ job[j].at # "stored" /\ job'[j].at = "crashed"
      BY <1>0, <1>4 DEF Crash, Running, Job
    <3> QED BY <3>1
  <2>2. Used' = Used /\ Whole' = Whole
    BY <1>4, <2>1 DEF Crash, Used, Whole
  <2> QED BY <1>4, <2>2 DEF Crash, Readable!stored, Used, Whole
<1>5. ASSUME NEW k \in Jobs, NEW posted \in Corrections, AdminEdit(k, posted) PROVE Readable!Next
  <2>1. /\ row[k] \in Row /\ posted.from \in Bound /\ posted.until \in Bound
        /\ row[k] # NoRow /\ UNCHANGED <<job, directory, method>>
        /\ row' = [row EXCEPT ![k].from = posted.from, ![k].until = posted.until]
    BY <1>0, <1>5, UploadsAssumption DEF AdminEdit
  <2>2. /\ row'[k] = [from |-> posted.from, until |-> posted.until, uploaded |-> row[k].uploaded]
        /\ \A l \in Jobs \ {k} : row'[l] = row[l]
    BY <1>0, <2>1 DEF Row
  <2>3. row'[k] \in Readable!Upload /\ row'[k].uploaded = row[k].uploaded /\ row'[k] \in Row
    BY <2>1, <2>2 DEF Row, Readable!Upload
  <2>4. Whole' = Whole /\ Used' = Used
    BY <2>1, <2>2, <2>3, UploadsAssumption DEF Whole, Used
  <2>5. Readable!Correct(k)
    BY <2>1, <2>2, <2>3, <2>4 DEF Readable!Correct, Whole, Used
  <2> QED BY <2>5 DEF Readable!Next
<1>6. ASSUME NEW k \in Jobs, AdminDelete(k) PROVE Readable!Next
  <2>1. Whole' = Whole \ {k} /\ Used' = Used
    BY <1>0, <1>6 DEF AdminDelete, Whole, Used
  <2>2. Readable!Empty(k)
    BY <1>6, <2>1 DEF AdminDelete, Readable!Empty, Whole, Used
  <2> QED BY <2>2 DEF Readable!Next
<1>7. ASSUME DeleteCommit PROVE Readable!Next
  <2>1. deleting \in Jobs /\ row[deleting] # NoRow /\ deleting \notin Whole
    BY <1>0, <1>7 DEF DeleteCommit, FilesFollow, EmptiedFirst, Whole
  <2>2. Whole' = Whole /\ Used' = Used
    BY <1>0, <1>7, <2>1 DEF DeleteCommit, Whole, Used
  <2>3. Readable!Delete(deleting)
    BY <1>7, <2>1, <2>2 DEF DeleteCommit, Readable!Delete, Whole, Used
  <2> QED BY <2>1, <2>3 DEF Readable!Next
<1>8. ASSUME DeleteCutOff \/ UNCHANGED vars PROVE UNCHANGED Readable!stored
  <2>1. UNCHANGED <<job, row, directory, method>>
    BY <1>8 DEF DeleteCutOff, vars
  <2> QED BY <2>1 DEF Readable!stored
<1>9. ASSUME NEW j \in Jobs, RemoveStored(j)
      PROVE  Readable!Next \/ UNCHANGED Readable!stored
  <2>1. Whole' = Whole \ {j} /\ Used' = Used /\ UNCHANGED <<row, method>>
    BY <1>0, <1>9 DEF RemoveStored, Whole, Used
  <2>2. CASE row[j] # NoRow
    <3>1. Readable!Empty(j)
      BY <2>1, <2>2 DEF Readable!Empty, Whole, Used
    <3> QED BY <3>1 DEF Readable!Next
  <2>3. CASE row[j] = NoRow
    <3>1. Whole' = Whole
      BY <2>1, <2>3 DEF Whole
    <3> QED BY <2>1, <3>1 DEF Readable!stored, Whole, Used
  <2> QED BY <2>2, <2>3
<1> QED BY <1>1, <1>2, <1>3, <1>4, <1>5, <1>6, <1>7, <1>8, <1>9 DEF Next

\* The pipeline implements what Stored promises its readers: an upload appears whole in one
\* step, and only that step ends earlier ones, for any number of uploads and whatever
\* fails, crashes or is deleted.
THEOREM PipelineImplementsStored == Spec => StoredAtOnce
<1> DEFINE IInv == TypeOK /\ LocksHold /\ FilesFollow /\ ServedAlone /\ EmptiedFirst
<1>1. Init => IInv
  BY TypeInit, LocksInit, FilesInit, AloneInit
<1>2. IInv /\ [Next]_vars => IInv'
  BY TypeStep, LocksStep, FilesStep, AloneStep, EmptiedStep
<1>3. Init => Readable!Init
  BY ReadableInit
<1>4. IInv /\ [Next]_vars => [Readable!Next]_(Readable!stored)
  BY ReadableStep
<1> HIDE DEF IInv
<1> QED BY <1>1, <1>2, <1>3, <1>4, PTL DEF Spec, StoredAtOnce, Readable!Spec

=============================================================================
