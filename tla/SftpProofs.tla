------------------------------- MODULE SftpProofs -------------------------------
(***************************************************************************)
(* Proofs about Sftp for any number of dropzones, connections, sessions    *)
(* and paths.                                                              *)
(***************************************************************************)
EXTENDS Sftp, SequenceTheorems, FiniteSetTheorems, WellFoundedInduction, TLAPS

\* A connection ends, by a disconnect or by an error.
Ends == \E c \in Conns, errored \in BOOLEAN : EndConnection(c, errored)

\* The disjuncts of Next, each with what it is applied to.
LEMMA NextCases ==
    ASSUME Next
    PROVE  \/ Restart
           \/ \E c \in Conns, z \in Zones, secret \in Secrets \cup {NoSecret} :
                 Present(c, z, secret)
           \/ \E c \in Conns : Check(c) \/ Admit(c) \/ Reject(c) \/ AdmitGone(c)
           \/ Ends
           \/ \E c \in Conns, s \in Sessions : Open(c, s)
           \/ \E s \in Sessions, f \in Files : Put(s, f) \/ ClientClose(s, f) \/ Remove(s, f)
                                               \/ ForceClose(s, f)
           \/ \E s \in Sessions, f, g \in Files : Rename(s, f, g)
           \/ \E s \in Sessions : CloseChannel(s) \/ ExitBroken(s) \/ Exit(s) \/ FindNothing(s)
                                  \/ StoreSession(s) \/ StoreFails(s) \/ CleanUp(s)
           \/ \E z \in Zones, settings \in Settings : SaveZone(z, settings)
           \/ \E z \in Zones : DeleteZone(z)
BY DEF Next, Client, Thread, Loop, Ends, Disconnect, LoseConnection

-----------------------------------------------------------------------------
(* The queue.                                                              *)

\* A password check and a store are different calls, and so are those of two callers.
LEMMA CallsDiffer ==
    /\ \A c \in Conns : Login(c) \in Calls
    /\ \A s \in Sessions : Store(s) \in Calls
    /\ \A c, d \in Conns : Login(c) = Login(d) => c = d
    /\ \A s, r \in Sessions : Store(s) = Store(r) => s = r
    /\ \A c \in Conns, s \in Sessions : Login(c) # Store(s)
BY DEF Calls, Login, Store

\* What is taken out of a sequence leaves the rest as it stood.
LEMMA TakenOut ==
    ASSUME NEW S, NEW q \in Seq(S), NEW i \in 1..Len(q)
    PROVE  LET r == SubSeq(q, 1, i - 1) \o SubSeq(q, i + 1, Len(q)) IN
           /\ r \in Seq(S)
           /\ Len(r) = Len(q) - 1
           /\ \A k \in 1..Len(r) : r[k] = IF k < i THEN q[k] ELSE q[k + 1]
<1> DEFINE a == SubSeq(q, 1, i - 1)
           b == SubSeq(q, i + 1, Len(q))
<1>1. Len(q) \in Nat /\ \A k \in 1..Len(q) : q[k] \in S
      BY ElementOfSeq, LenProperties
<1>2. a \in Seq(S) /\ Len(a) = i - 1 /\ \A k \in 1..(i - 1) : a[k] = q[k]
  <2>1. \A k \in 1..(i - 1) : q[k] \in S
        BY <1>1
  <2>2. /\ a \in Seq(S)
        /\ Len(a) = IF 1 <= i - 1 THEN i - 1 - 1 + 1 ELSE 0
        /\ \A k \in 1..(i - 1 - 1 + 1) : a[k] = q[1 + k - 1]
        BY ONLY <1>1, <2>1, SubSeqProperties, i \in 1..Len(q)
  <2> QED BY <1>1, <2>2
<1>3. b \in Seq(S) /\ Len(b) = Len(q) - i /\ \A k \in 1..(Len(q) - i) : b[k] = q[i + k]
  <2>1. \A k \in (i + 1)..Len(q) : q[k] \in S
        BY <1>1
  <2>2. /\ b \in Seq(S)
        /\ Len(b) = IF i + 1 <= Len(q) THEN Len(q) - (i + 1) + 1 ELSE 0
        /\ \A k \in 1..(Len(q) - (i + 1) + 1) : b[k] = q[(i + 1) + k - 1]
        BY ONLY <1>1, <2>1, SubSeqProperties, i \in 1..Len(q)
  <2> QED BY <1>1, <2>2
<1> HIDE DEF a, b
<1>4. /\ a \o b \in Seq(S)
      /\ Len(a \o b) = Len(a) + Len(b)
      /\ \A k \in 1..(Len(a) + Len(b)) : (a \o b)[k] = IF k <= Len(a) THEN a[k] ELSE b[k - Len(a)]
      BY <1>2, <1>3, ConcatProperties
<1>5. Len(a \o b) = Len(q) - 1
      BY <1>1, <1>2, <1>3, <1>4
<1>6. \A k \in 1..(Len(q) - 1) : (a \o b)[k] = IF k < i THEN q[k] ELSE q[k + 1]
  <2> SUFFICES ASSUME NEW k \in 1..(Len(q) - 1)
               PROVE  (a \o b)[k] = IF k < i THEN q[k] ELSE q[k + 1]
        OBVIOUS
  <2>1. (a \o b)[k] = IF k <= i - 1 THEN a[k] ELSE b[k - (i - 1)]
        BY <1>1, <1>2, <1>3, <1>4
  <2>2. CASE k < i
        BY <1>1, <1>2, <2>1, <2>2
  <2>3. CASE ~(k < i)
    <3>1. k - (i - 1) \in 1..(Len(q) - i) /\ i + (k - (i - 1)) = k + 1
          BY <1>1, <2>3
    <3>2. (a \o b)[k] = b[k - (i - 1)]
          BY <1>1, <2>1, <2>3
    <3>3. b[k - (i - 1)] = q[k + 1]
      <4>1. b[k - (i - 1)] = q[i + (k - (i - 1))]
            BY ONLY <1>3, <3>1
      <4> QED BY ONLY <3>1, <4>1
    <3> QED BY ONLY <2>3, <3>2, <3>3
  <2> QED BY <2>2, <2>3
<1> QED BY <1>4, <1>5, <1>6 DEF a, b

\* The call in hand leaves the queue, and every other one moves up.
LEMMA DoneMovesUp ==
    ASSUME TypeOK, NEW item \in Calls, InHand(item), Done(item)
    PROVE  /\ queue' \in Seq(Calls)
           /\ Len(queue) \in Nat /\ Len(queue') = Len(queue) - 1
           /\ queue[1] = item
           /\ \A k \in 1..Len(queue') : k + 1 \in 1..Len(queue) /\ queue'[k] = queue[k + 1]
<1>1. queue \in Seq(Calls) /\ Len(queue) \in Nat
      BY LenProperties DEF TypeOK
<1>2. PICK i \in 1..Len(queue) :
          /\ queue[i] = item
          /\ queue' = SubSeq(queue, 1, i - 1) \o SubSeq(queue, i + 1, Len(queue))
      BY DEF Done
<1>3. 1 \in 1..Len(queue) /\ queue[1] = item
      BY <1>1, <1>2 DEF InHand
<1>4. i = 1
  <2>1. \A k \in 1..Len(queue) : queue[k] = queue[i] => k = i
        BY <1>2 DEF TypeOK
  <2> QED BY <1>2, <1>3, <2>1
<1>5. /\ queue' \in Seq(Calls)
      /\ Len(queue') = Len(queue) - 1
      /\ \A k \in 1..Len(queue') : queue'[k] = IF k < i THEN queue[k] ELSE queue[k + 1]
      BY <1>1, <1>2, TakenOut
<1> QED BY <1>1, <1>3, <1>4, <1>5

\* The part of TypeOK about what waits for the thread.
Waiting ==
    \A i \in 1..Len(queue) :
        /\ \A c \in Conns : queue[i] = Login(c) => conn[c].check = "queued"
        /\ \A s \in Sessions : queue[i] = Store(s) => session[s].at = "waiting"
        /\ \A k \in 1..Len(queue) : queue[k] = queue[i] => k = i

\* Where queue and callers stay what they are, so does who waits.
LEMMA SameQueue ==
    ASSUME TypeOK, UNCHANGED queue,
           \A c \in Conns : conn[c].check = "queued" => conn'[c].check = "queued",
           \A s \in Sessions : session[s].at = "waiting" => session'[s].at = "waiting"
    PROVE  queue' \in Seq(Calls) /\ Waiting'
BY DEF TypeOK, Waiting

\* A call that is handed over waits behind the others.
LEMMA HandedOver ==
    ASSUME TypeOK, NEW item \in Calls, queue' = Append(queue, item),
           \A k \in 1..Len(queue) : queue[k] # item,
           \A c \in Conns : conn[c].check = "queued" => conn'[c].check = "queued",
           \A s \in Sessions : session[s].at = "waiting" => session'[s].at = "waiting",
           \A c \in Conns : item = Login(c) => conn'[c].check = "queued",
           \A s \in Sessions : item = Store(s) => session'[s].at = "waiting"
    PROVE  queue' \in Seq(Calls) /\ Waiting'
<1>1. queue \in Seq(Calls) /\ Len(queue) \in Nat
      BY LenProperties DEF TypeOK
<1>2. /\ queue' \in Seq(Calls) /\ Len(queue') = Len(queue) + 1
      /\ \A k \in 1..Len(queue) : queue'[k] = queue[k]
      /\ queue'[Len(queue) + 1] = item
      BY <1>1, AppendProperties
<1>3. \A i \in 1..Len(queue') : i = Len(queue) + 1 \/ i \in 1..Len(queue)
      BY <1>1, <1>2
<1>4. \A i \in 1..Len(queue') :
          /\ \A c \in Conns : queue'[i] = Login(c) => conn'[c].check = "queued"
          /\ \A s \in Sessions : queue'[i] = Store(s) => session'[s].at = "waiting"
      BY <1>2, <1>3 DEF TypeOK
<1>5. \A i, k \in 1..Len(queue') : queue'[k] = queue'[i] => k = i
      BY <1>2, <1>3 DEF TypeOK
<1> QED BY <1>2, <1>4, <1>5 DEF Waiting

\* A call that is done leaves the others waiting.
LEMMA TakenUp ==
    ASSUME TypeOK, NEW item \in Calls, InHand(item), Done(item),
           \A c \in Conns : item # Login(c) /\ conn[c].check = "queued"
                            => conn'[c].check = "queued",
           \A s \in Sessions : item # Store(s) /\ session[s].at = "waiting"
                               => session'[s].at = "waiting"
    PROVE  queue' \in Seq(Calls) /\ Waiting'
<1>1. /\ queue' \in Seq(Calls) /\ Len(queue) \in Nat /\ Len(queue') = Len(queue) - 1
      /\ queue[1] = item
      /\ \A k \in 1..Len(queue') : k + 1 \in 1..Len(queue) /\ queue'[k] = queue[k + 1]
      BY DoneMovesUp
<1>2. \A k \in 1..Len(queue') : queue'[k] # item
  <2> SUFFICES ASSUME NEW k \in 1..Len(queue'), queue'[k] = item PROVE FALSE
        OBVIOUS
  <2>1. 1 \in 1..Len(queue) /\ k + 1 \in 1..Len(queue) /\ queue[k + 1] = queue[1] /\ k + 1 # 1
        BY <1>1
  <2> QED BY <2>1 DEF TypeOK
<1>3. \A i \in 1..Len(queue') :
          /\ \A c \in Conns : queue'[i] = Login(c) => conn'[c].check = "queued"
          /\ \A s \in Sessions : queue'[i] = Store(s) => session'[s].at = "waiting"
      BY <1>1, <1>2 DEF TypeOK
<1>4. ASSUME NEW i \in 1..Len(queue'), NEW k \in 1..Len(queue'), queue'[k] = queue'[i]
      PROVE  k = i
  <2>1. i + 1 \in 1..Len(queue) /\ k + 1 \in 1..Len(queue) /\ queue[k + 1] = queue[i + 1]
        BY <1>1, <1>4
  <2>2. k + 1 = i + 1
        BY <2>1 DEF TypeOK
  <2> QED BY <1>1, <2>2
<1> QED BY <1>1, <1>3, <1>4 DEF Waiting

-----------------------------------------------------------------------------
(* Types.                                                                  *)

\* The parts of TypeOK apart from the queue.
Typed ==
    /\ zone \in [Zones -> Settings \cup {Deleted}]
    /\ conn \in [Conns -> Conn]
    /\ identity \in [Conns -> Zones \cup {Nobody}]
    /\ session \in [Sessions -> Session]
    /\ ofConn \in [Sessions -> Conns \cup {Nobody}]
    /\ uploads \in Seq(Upload)
    /\ ended \in Seq(Sessions)
    /\ accepted \subseteq Zones \X Secrets

\* What the form has let through, and that nobody checks a password twice.
SavedHaveSecrets == \A z \in Zones : zone[z] # Deleted => Saveable(zone[z])

UncheckedYet == \A c \in Conns : conn[c].at \in {"new", "made"} => conn[c].check = "none"

TypeInv == TypeOK /\ SavedHaveSecrets /\ UncheckedYet

\* TypeOK is the types of the variables and what it says of the queue.
LEMMA TypeParts == TypeOK <=> Typed /\ queue \in Seq(Calls) /\ Waiting
BY DEF TypeOK, Typed, Waiting

\* The same of the state after a step.
LEMMA TypePartsNext == TypeOK' <=> Typed' /\ queue' \in Seq(Calls) /\ Waiting'
BY DEF TypeOK, Typed, Waiting

\* A connection begins as one of the type.
LEMMA FreshIsConn ==
    /\ Fresh \in Conn
    /\ [Fresh EXCEPT !.at = "made"] = [at |-> "made", check |-> "none", zone |-> Nobody,
                                       secret |-> NoSecret]
    /\ [Fresh EXCEPT !.at = "closed"] = [at |-> "closed", check |-> "none", zone |-> Nobody,
                                         secret |-> NoSecret]
BY DEF Fresh, Conn

\* An empty directory gives every file a state.
LEMMA NoFilesIsFiles == NoFiles \in [Files -> FileState]
BY DEF NoFiles, FileState

\* Credentials are pairs of a dropzone and a secret.
LEMMA CredentialsTyped ==
    ASSUME NEW settings \in [Zones -> Settings \cup {Deleted}],
           \A z \in Zones : settings[z] # Deleted => Saveable(settings[z])
    PROVE  Credentials(settings) \subseteq Zones \X Secrets
BY SftpAssumption DEF Credentials, Saveable

\* The process starts with every variable of its type.
LEMMA InitType == Init => TypeInv
<1> SUFFICES ASSUME Init PROVE TypeInv
      OBVIOUS
<1>1. zone \in [Zones -> Settings \cup {Deleted}] /\ SavedHaveSecrets
      BY DEF Init, SavedHaveSecrets
<1>2. accepted \subseteq Zones \X Secrets
      BY <1>1, CredentialsTyped DEF Init, SavedHaveSecrets
<1>3. conn \in [Conns -> Conn] /\ UncheckedYet
      BY FreshIsConn DEF Init, UncheckedYet, Fresh
<1>4. session \in [Sessions -> Session]
      BY NoFilesIsFiles DEF Init, Session
<1>5. queue \in Seq(Calls) /\ uploads \in Seq(Upload) /\ ended \in Seq(Sessions) /\ Len(queue) = 0
      BY EmptySeq DEF Init
<1>6. Waiting
      BY <1>5 DEF Waiting
<1> QED BY <1>1, <1>2, <1>3, <1>4, <1>5, <1>6 DEF Init, TypeInv, TypeOK, Waiting

\* A step that leaves connections and dropzones alone has only the rest to show.
LEMMA LoopStep ==
    ASSUME TypeInv, UNCHANGED <<zone, conn, identity, accepted>>,
           session' \in [Sessions -> Session], ofConn' \in [Sessions -> Conns \cup {Nobody}],
           uploads' \in Seq(Upload), ended' \in Seq(Sessions),
           queue' \in Seq(Calls), Waiting'
    PROVE  TypeInv'
<1>1. Typed'
      BY DEF TypeInv, TypeOK, Typed
<1>2. SavedHaveSecrets' /\ UncheckedYet'
      BY DEF TypeInv, SavedHaveSecrets, UncheckedYet
<1> QED BY <1>1, <1>2, TypePartsNext DEF TypeInv

\* A step of one session that leaves the queue alone.
LEMMA SessionStep ==
    ASSUME TypeInv, UNCHANGED <<zone, conn, identity, queue, uploads, ended, accepted>>,
           NEW s \in Sessions, NEW after \in Session,
           session' = [session EXCEPT ![s] = after],
           session[s].at # "waiting",
           ofConn' \in [Sessions -> Conns \cup {Nobody}]
    PROVE  TypeInv'
<1>1. session' \in [Sessions -> Session]
      BY DEF TypeInv, TypeOK
<1>2. \A r \in Sessions : session[r].at = "waiting" => session'[r].at = "waiting"
      BY DEF TypeInv, TypeOK
<1>3. queue' \in Seq(Calls) /\ Waiting'
      BY <1>2, SameQueue DEF TypeInv
<1> QED BY <1>1, <1>3, LoopStep DEF TypeInv, TypeOK

\* The thread has finished with a session.
LEMMA ThreadStep ==
    ASSUME TypeInv, UNCHANGED <<zone, conn, identity, ofConn, ended, accepted>>,
           NEW s \in Sessions, InHand(Store(s)), Done(Store(s)),
           NEW after \in Session, session' = [session EXCEPT ![s] = after],
           uploads' \in Seq(Upload)
    PROVE  TypeInv'
<1>1. session' \in [Sessions -> Session]
      BY DEF TypeInv, TypeOK
<1>2. Store(s) \in Calls /\ \A r \in Sessions : Store(s) # Store(r) => r # s
      BY CallsDiffer
<1>3. \A r \in Sessions : Store(s) # Store(r) /\ session[r].at = "waiting"
                          => session'[r].at = "waiting"
      BY <1>2 DEF TypeInv, TypeOK
<1>4. queue' \in Seq(Calls) /\ Waiting'
      BY <1>2, <1>3, TakenUp DEF TypeInv
<1> QED BY <1>1, <1>4, LoopStep DEF TypeInv, TypeOK

\* A step that changes one connection.
LEMMA ConnStep ==
    ASSUME TypeInv, UNCHANGED <<zone, session, ofConn, uploads, ended, accepted>>,
           NEW c \in Conns, NEW after \in Conn, conn' = [conn EXCEPT ![c] = after],
           after.at \in {"new", "made"} => after.check = "none",
           identity' \in [Conns -> Zones \cup {Nobody}],
           queue' \in Seq(Calls), Waiting'
    PROVE  TypeInv'
<1>1. conn' \in [Conns -> Conn] /\ UncheckedYet'
      BY DEF TypeInv, TypeOK, UncheckedYet
<1>2. Typed'
      BY <1>1 DEF TypeInv, TypeOK, Typed
<1>3. SavedHaveSecrets'
      BY DEF TypeInv, SavedHaveSecrets
<1> QED BY <1>1, <1>2, <1>3, TypePartsNext DEF TypeInv

\* A session is a record of the type, its connection one or nobody.
LEMMA SessionTyped ==
    ASSUME TypeInv
    PROVE  /\ session \in [Sessions -> Session] /\ ofConn \in [Sessions -> Conns \cup {Nobody}]
           /\ uploads \in Seq(Upload) /\ ended \in Seq(Sessions)
BY DEF TypeInv, TypeOK

\* What a file request, or asyncssh in its place, leaves of the session.
LEMMA FileAfter ==
    ASSUME TypeInv, NEW s \in Sessions, NEW f \in Files,
           Put(s, f) \/ ClientClose(s, f) \/ Remove(s, f) \/ ForceClose(s, f)
    PROVE  \E to \in FileState, broken \in BOOLEAN :
              /\ session[s].at \in {"open", "closing"}
              /\ session' = [session EXCEPT ![s] =
                               [session[s] EXCEPT !.files = [session[s].files EXCEPT ![f] = to],
                                                  !.incomplete = broken]]
              /\ UNCHANGED <<zone, conn, identity, ofConn, queue, uploads, ended, accepted>>
<1>1. session \in [Sessions -> Session] /\ session[s].incomplete \in BOOLEAN
      BY DEF TypeInv, TypeOK, Session
<1>2. ASSUME NEW from, NEW to \in FileState, FileStep(s, f, from, to)
      PROVE  session' = [session EXCEPT ![s] =
                           [session[s] EXCEPT !.files = [session[s].files EXCEPT ![f] = to],
                                              !.incomplete = session[s].incomplete]]
      BY <1>1, <1>2 DEF FileStep, Session
<1>3. CASE Put(s, f)
      BY <1>1, <1>2, <1>3 DEF Put, FileStep, FileState
<1>4. CASE ClientClose(s, f)
      BY <1>1, <1>2, <1>4 DEF ClientClose, FileStep, FileState
<1>5. CASE Remove(s, f)
      BY <1>1, <1>2, <1>5 DEF Remove, FileStep, FileState
<1>6. CASE ForceClose(s, f)
      BY <1>1, <1>6 DEF ForceClose, FileState, Session
<1> QED BY <1>3, <1>4, <1>5, <1>6

\* A file request changes one file of an open session.
LEMMA FileType ==
    ASSUME TypeInv, NEW s \in Sessions, NEW f \in Files,
           Put(s, f) \/ ClientClose(s, f) \/ Remove(s, f) \/ ForceClose(s, f)
    PROVE  TypeInv'
<1>1. PICK to \in FileState, broken \in BOOLEAN :
          /\ session[s].at \in {"open", "closing"}
          /\ session' = [session EXCEPT ![s] =
                           [session[s] EXCEPT !.files = [session[s].files EXCEPT ![f] = to],
                                              !.incomplete = broken]]
          /\ UNCHANGED <<zone, conn, identity, ofConn, queue, uploads, ended, accepted>>
      BY FileAfter, Zenon
<1> DEFINE after == [session[s] EXCEPT !.files = [session[s].files EXCEPT ![f] = to],
                                       !.incomplete = broken]
<1>2. after \in Session
  <2>1. session[s] \in Session /\ [session[s].files EXCEPT ![f] = to] \in [Files -> FileState]
        BY DEF TypeInv, TypeOK, Session
  <2> QED BY <2>1 DEF Session
<1>3. session' = [session EXCEPT ![s] = after] /\ session[s].at # "waiting"
      BY <1>1
<1>4. ofConn' \in [Sessions -> Conns \cup {Nobody}]
      BY <1>1 DEF TypeInv, TypeOK
<1> HIDE DEF after
<1> QED BY <1>1, <1>2, <1>3, <1>4, SessionStep

\* Opening a session gives it an empty directory and the connection's identity.
LEMMA OpenType ==
    ASSUME TypeInv, NEW c \in Conns, NEW s \in Sessions, Open(c, s)
    PROVE  TypeInv'
<1> DEFINE after == [session[s] EXCEPT !.at = "open", !.zone = identity[c],
                                       !.directory = "kept"]
<1>1. after \in Session /\ session' = [session EXCEPT ![s] = after]
      BY DEF TypeInv, TypeOK, Session, Open
<1>2. ofConn' \in [Sessions -> Conns \cup {Nobody}]
      BY DEF TypeInv, TypeOK, Open
<1> QED BY <1>1, <1>2, SessionStep DEF Open

\* A rename moves one file onto another.
LEMMA RenameType ==
    ASSUME TypeInv, NEW s \in Sessions, NEW f \in Files, NEW g \in Files, Rename(s, f, g)
    PROVE  TypeInv'
<1> DEFINE after == [session[s] EXCEPT
                       !.files = [session[s].files EXCEPT ![f] = "absent", ![g] = "whole"]]
<1>0. [session[s].files EXCEPT ![f] = "absent", ![g] = "whole"] \in [Files -> FileState]
      BY SessionTyped DEF Session, FileState
<1>1. after \in Session
      BY <1>0, SessionTyped DEF Session
<1>2. session' = [session EXCEPT ![s] = after]
      BY SessionTyped DEF Session, Rename
<1> HIDE DEF after
<1> QED BY <1>1, <1>2, SessionStep, SessionTyped DEF Rename

\* A channel that closes marks its session, and cuts the file that was open.
LEMMA EndType ==
    ASSUME TypeInv, NEW s \in Sessions, CloseChannel(s) \/ ExitBroken(s) \/ CleanUp(s)
    PROVE  TypeInv'
<1>1. CASE CloseChannel(s)
  <2> DEFINE after == [session[s] EXCEPT !.at = "closing"]
  <2>1. after \in Session /\ session' = [session EXCEPT ![s] = after]
        BY <1>1, SessionTyped DEF Session, CloseChannel
  <2> HIDE DEF after
  <2> QED BY <1>1, <2>1, SessionStep, SessionTyped DEF CloseChannel
<1>2. CASE ExitBroken(s)
  <2> DEFINE after == [session[s] EXCEPT !.at = "dropped", !.directory = "none",
                                         !.errored = FALSE, !.files = NoFiles]
  <2>1. after \in Session /\ session' = [session EXCEPT ![s] = after]
        BY <1>2, NoFilesIsFiles, SessionTyped DEF Session, ExitBroken
  <2> HIDE DEF after
  <2> QED BY <1>2, <2>1, SessionStep, SessionTyped DEF ExitBroken
<1>3. CASE CleanUp(s)
  <2> DEFINE after == [session[s] EXCEPT !.directory = "none", !.files = NoFiles]
  <2>1. after \in Session /\ session' = [session EXCEPT ![s] = after]
        BY <1>3, NoFilesIsFiles, SessionTyped DEF Session, CleanUp
  <2> HIDE DEF after
  <2> QED BY <1>3, <2>1, SessionStep, SessionTyped DEF CleanUp
<1> QED BY <1>1, <1>2, <1>3

\* A session that ends goes to the back of the queue, or is dropped.
LEMMA ExitType ==
    ASSUME TypeInv, NEW s \in Sessions, Exit(s)
    PROVE  TypeInv'
<1>1. session' \in [Sessions -> Session] /\ ended' \in Seq(Sessions)
  <2>1. session' \in [Sessions -> Session]
        BY SessionTyped DEF Session, Exit
  <2>2. ended' \in Seq(Sessions)
        BY SessionTyped, AppendProperties DEF Exit
  <2> QED BY <2>1, <2>2
<1>2. Store(s) \in Calls /\ \A c \in Conns : Store(s) # Login(c)
      BY CallsDiffer
<1>3. \A k \in 1..Len(queue) : queue[k] # Store(s)
      BY DEF TypeInv, TypeOK, Exit
<1>4. /\ \A r \in Sessions : session[r].at = "waiting" => session'[r].at = "waiting"
      /\ session'[s].at = "waiting"
      BY SessionTyped DEF Session, Exit
<1>5. \A r \in Sessions : Store(s) = Store(r) => session'[r].at = "waiting"
      BY <1>4, CallsDiffer
<1>6. queue' \in Seq(Calls) /\ Waiting'
      BY <1>2, <1>3, <1>4, <1>5, HandedOver DEF TypeInv, Exit
<1> QED BY <1>1, <1>6, LoopStep, SessionTyped DEF Exit

\* The thread stores the session at the head of the queue, or fails to.
LEMMA StoreType ==
    ASSUME TypeInv, NEW s \in Sessions, FindNothing(s) \/ StoreSession(s) \/ StoreFails(s)
    PROVE  TypeInv'
<1>1. CASE FindNothing(s)
  <2> DEFINE after == [session[s] EXCEPT !.at = "empty", !.errored = FALSE]
  <2>1. after \in Session /\ session' = [session EXCEPT ![s] = after]
        BY <1>1, SessionTyped DEF Session, FindNothing
  <2> HIDE DEF after
  <2> QED BY <1>1, <2>1, ThreadStep, SessionTyped DEF FindNothing
<1>2. CASE StoreSession(s)
  <2> DEFINE after == [session[s] EXCEPT !.at = "stored", !.errored = FALSE]
             upload == [session |-> s, zone |-> session[s].zone, files |-> Spool(Listing(s))]
  <2>1. after \in Session /\ session' = [session EXCEPT ![s] = after]
        BY <1>2, SessionTyped DEF Session, StoreSession
  <2>2. Spool(Listing(s)) \subseteq Files
        BY DEF Spool
  <2>3. upload \in Upload
        BY <2>2 DEF Upload, TypeInv, TypeOK, Session
  <2>4. uploads' \in Seq(Upload)
    <3> HIDE DEF upload
    <3>1. uploads' = Append(uploads, upload)
          BY <1>2 DEF StoreSession, upload
    <3> QED BY <2>3, <3>1 DEF TypeInv, TypeOK
  <2> QED BY <1>2, <2>1, <2>4, ThreadStep DEF StoreSession
<1>3. CASE StoreFails(s)
  <2> DEFINE after == [session[s] EXCEPT !.at = "refused", !.errored = FALSE]
  <2>1. after \in Session
        BY SessionTyped DEF Session
  <2>2. session' = [session EXCEPT ![s] = after]
        BY <1>3, SessionTyped DEF Session, StoreFails
  <2> HIDE DEF after
  <2> QED BY <1>3, <2>1, <2>2, ThreadStep, SessionTyped DEF StoreFails
<1> QED BY <1>1, <1>2, <1>3

\* A connection is a record of the type.
LEMMA ConnTyped ==
    ASSUME TypeInv
    PROVE  conn \in [Conns -> Conn] /\ identity \in [Conns -> Zones \cup {Nobody}]
BY DEF TypeInv, TypeOK

\* A password goes to the back of the queue, and its connection waits.
LEMMA PresentType ==
    ASSUME TypeInv, NEW c \in Conns, NEW z \in Zones, NEW secret \in Secrets \cup {NoSecret},
           Present(c, z, secret)
    PROVE  TypeInv'
<1> DEFINE after == [at |-> "login", check |-> "queued", zone |-> z, secret |-> secret]
<1>1. after \in Conn /\ conn' = [conn EXCEPT ![c] = after] /\ after.check = "queued"
      BY DEF Conn, Present
<1>2. Login(c) \in Calls /\ \A s \in Sessions : Login(c) # Store(s)
      BY CallsDiffer
<1>3. conn[c].check = "none"
      BY DEF TypeInv, UncheckedYet, Present
<1>4. \A k \in 1..Len(queue) : queue[k] # Login(c)
      BY <1>3 DEF TypeInv, TypeOK
<1>5. /\ \A d \in Conns : conn[d].check = "queued" => conn'[d].check = "queued"
      /\ \A d \in Conns : Login(c) = Login(d) => conn'[d].check = "queued"
      BY <1>1, ConnTyped, CallsDiffer
<1>6. queue' \in Seq(Calls) /\ Waiting'
      BY <1>2, <1>4, <1>5, HandedOver DEF TypeInv, Present
<1>7. after.at \notin {"new", "made"}
      OBVIOUS
<1> HIDE DEF after
<1> QED BY <1>1, <1>6, <1>7, ConnStep, ConnTyped DEF Present

\* The thread answers the check at the head of the queue.
LEMMA CheckType ==
    ASSUME TypeInv, NEW c \in Conns, Check(c)
    PROVE  TypeInv'
<1> DEFINE after == IF Authenticates(conn[c].zone, conn[c].secret)
                    THEN [conn[c] EXCEPT !.check = "granted"]
                    ELSE [Fresh EXCEPT !.at = conn[c].at, !.check = "denied"]
<1>1. after \in Conn /\ conn' = [conn EXCEPT ![c] = after]
      BY ConnTyped DEF Conn, Check, Fresh
<1>2. Login(c) \in Calls /\ \A d \in Conns : Login(c) # Login(d) => d # c
      BY CallsDiffer
<1>3. \A d \in Conns : Login(c) # Login(d) /\ conn[d].check = "queued"
                       => conn'[d].check = "queued"
      BY <1>1, <1>2, ConnTyped
<1>4. queue' \in Seq(Calls) /\ Waiting'
      BY <1>2, <1>3, TakenUp DEF TypeInv, Check
<1>5. conn[c].check = "queued"
  <2>1. 1 \in 1..Len(queue) /\ queue[1] = Login(c)
        BY <1>2, DoneMovesUp, LenProperties DEF TypeInv, TypeOK, Check, InHand
  <2> QED BY <2>1 DEF TypeInv, TypeOK
<1>6. after.at \notin {"new", "made"}
      BY <1>5, ConnTyped DEF TypeInv, UncheckedYet, Conn
<1> HIDE DEF after
<1> QED BY <1>1, <1>4, <1>6, ConnStep, ConnTyped DEF Check

\* A step of one connection that leaves the queue alone.
LEMMA AnsweredStep ==
    ASSUME TypeInv, UNCHANGED <<zone, session, ofConn, queue, uploads, ended, accepted>>,
           NEW c \in Conns, NEW after \in Conn, conn' = [conn EXCEPT ![c] = after],
           conn[c].check \in {"granted", "denied"}, after.check = "none",
           identity' \in [Conns -> Zones \cup {Nobody}]
    PROVE  TypeInv'
<1>1. \A d \in Conns : conn[d].check = "queued" => conn'[d].check = "queued"
      BY ConnTyped
<1>2. queue' \in Seq(Calls) /\ Waiting'
      BY <1>1, SameQueue DEF TypeInv
<1> QED BY <1>2, ConnStep

\* An answer reaches a connection whose check is done.
LEMMA AnsweredType ==
    ASSUME TypeInv, NEW c \in Conns, Admit(c) \/ Reject(c) \/ AdmitGone(c)
    PROVE  TypeInv'
<1>1. CASE Admit(c)
  <2> DEFINE after == [conn[c] EXCEPT !.check = "none", !.at = "open"]
  <2>1. after \in Conn /\ after.check = "none" /\ conn' = [conn EXCEPT ![c] = after]
        BY <1>1, ConnTyped DEF Conn, Admit
  <2>2. identity' \in [Conns -> Zones \cup {Nobody}]
        BY <1>1, ConnTyped DEF Conn, Admit
  <2> HIDE DEF after
  <2> QED BY <1>1, <2>1, <2>2, AnsweredStep DEF Admit
<1>2. CASE Reject(c)
  <2> DEFINE after == [at |-> "made", check |-> "none", zone |-> Nobody, secret |-> NoSecret]
  <2>1. after \in Conn /\ after.check = "none" /\ conn' = [conn EXCEPT ![c] = after]
        BY <1>2, FreshIsConn DEF Conn, Reject
  <2> HIDE DEF after
  <2> QED BY <1>2, <2>1, AnsweredStep, ConnTyped DEF Reject
<1>3. CASE AdmitGone(c)
  <2> DEFINE after == [at |-> "closed", check |-> "none", zone |-> Nobody, secret |-> NoSecret]
  <2>1. after \in Conn /\ after.check = "none" /\ conn' = [conn EXCEPT ![c] = after]
        BY <1>3, FreshIsConn DEF Conn, AdmitGone
  <2>2. identity' \in [Conns -> Zones \cup {Nobody}]
        BY <1>3, ConnTyped DEF Conn, AdmitGone
  <2> HIDE DEF after
  <2> QED BY <1>3, <2>1, <2>2, AnsweredStep, ConnTyped DEF AdmitGone
<1> QED BY <1>1, <1>2, <1>3

\* What the end of a connection makes of a session.
LEMMA SessionEnds ==
    ASSUME TypeInv, Ends, NEW s \in Sessions
    PROVE  \/ session'[s] = session[s]
           \/ /\ session[s].at = "open" /\ session'[s].at = "closing"
              /\ session'[s] \in Session
              /\ session'[s].zone = session[s].zone
              /\ session'[s].incomplete = session[s].incomplete
              /\ session'[s].directory = session[s].directory
              /\ session'[s].files = session[s].files
<1>1. PICK c \in Conns, errored \in BOOLEAN : EndConnection(c, errored)
      BY DEF Ends
<1> DEFINE after == [session[s] EXCEPT !.at = "closing", !.errored = errored]
<1>2. /\ after \in Session /\ after.at = "closing"
      /\ after.zone = session[s].zone /\ after.incomplete = session[s].incomplete
      /\ after.directory = session[s].directory /\ after.files = session[s].files
      BY SessionTyped DEF Session
<1>3. session'[s] = session[s] \/ (session[s].at = "open" /\ session'[s] = after)
      BY <1>1 DEF EndConnection
<1> HIDE DEF after
<1> QED BY <1>2, <1>3

\* The end of a connection leaves connections and sessions of their types.
LEMMA EndsType ==
    ASSUME TypeInv, Ends
    PROVE  TypeInv'
<1>0. PICK c \in Conns, errored \in BOOLEAN : EndConnection(c, errored)
      BY DEF Ends
<1>1. conn' \in [Conns -> Conn] /\ identity' \in [Conns -> Zones \cup {Nobody}] /\ UncheckedYet'
  <2>1. conn' \in [Conns -> Conn] /\ identity' \in [Conns -> Zones \cup {Nobody}]
        BY <1>0, ConnTyped DEF Conn, EndConnection
  <2>2. UncheckedYet'
        BY <1>0, ConnTyped DEF Conn, EndConnection, UncheckedYet, TypeInv
  <2> QED BY <2>1, <2>2
<1>2. session' \in [Sessions -> Session]
  <2>1. \A s \in Sessions : session'[s] \in Session
        BY SessionEnds, SessionTyped
  <2>2. session' = [s \in Sessions |-> session'[s]]
        BY <1>0 DEF EndConnection
  <2> QED BY <2>1, <2>2
<1>3. /\ \A d \in Conns : conn[d].check = "queued" => conn'[d].check = "queued"
      /\ \A s \in Sessions : session[s].at = "waiting" => session'[s].at = "waiting"
  <2>1. \A d \in Conns : conn[d].check = "queued" => conn'[d].check = "queued"
        BY <1>0, ConnTyped DEF Conn, EndConnection
  <2> QED BY <2>1, SessionEnds
<1>4. queue' \in Seq(Calls) /\ Waiting'
      BY <1>0, <1>3, SameQueue DEF TypeInv, EndConnection
<1>5. Typed' /\ SavedHaveSecrets'
      BY <1>0, <1>1, <1>2 DEF EndConnection, TypeInv, TypeOK, Typed, SavedHaveSecrets
<1> QED BY <1>1, <1>4, <1>5, TypePartsNext DEF TypeInv

\* A restart leaves connections and sessions of their types.
LEMMA RestartType ==
    ASSUME TypeInv, Restart
    PROVE  TypeInv'
<1>1. conn' \in [Conns -> Conn]
      BY ConnTyped DEF Conn, Restart
<1>2. UncheckedYet'
      BY ConnTyped DEF Conn, Restart, UncheckedYet, TypeInv
<1>3. identity' \in [Conns -> Zones \cup {Nobody}]
      BY DEF Restart
<1>4. session' \in [Sessions -> Session]
  <2> SUFFICES ASSUME NEW s \in Sessions
               PROVE  (IF session[s].directory = "kept"
                       THEN [session[s] EXCEPT
                               !.directory = "orphaned", !.errored = FALSE, !.files = NoFiles,
                               !.at = IF @ \in {"open", "closing", "waiting"}
                                      THEN "lost" ELSE @]
                       ELSE session[s]) \in Session
        BY DEF Restart
  <2> QED BY SessionTyped, NoFilesIsFiles DEF Session
<1>5. queue' \in Seq(Calls) /\ Waiting'
  <2>1. queue' = <<>> /\ Len(queue') = 0
        BY DEF Restart
  <2> QED BY <2>1 DEF Waiting
<1>6. Typed' /\ SavedHaveSecrets'
      BY <1>1, <1>3, <1>4 DEF Restart, TypeInv, TypeOK, Typed, SavedHaveSecrets
<1> QED BY <1>2, <1>5, <1>6, TypePartsNext DEF TypeInv

\* The admin saves a dropzone that has a secret, or deletes one.
LEMMA AdminType ==
    ASSUME TypeInv, NEW z \in Zones,
           (\E settings \in Settings : SaveZone(z, settings)) \/ DeleteZone(z)
    PROVE  TypeInv'
<1>1. zone' \in [Zones -> Settings \cup {Deleted}] /\ SavedHaveSecrets'
  <2>1. CASE \E settings \in Settings : SaveZone(z, settings)
        BY <2>1 DEF SaveZone, TypeInv, TypeOK, SavedHaveSecrets
  <2>2. CASE DeleteZone(z)
        BY <2>2 DEF DeleteZone, TypeInv, TypeOK, SavedHaveSecrets
  <2> QED BY <2>1, <2>2
<1>2. /\ UNCHANGED <<conn, identity, session, ofConn, queue, uploads, ended>>
      /\ accepted' = accepted \/ accepted' = accepted \cup Credentials(zone')
      BY DEF SaveZone, DeleteZone
<1>3. Credentials(zone') \subseteq Zones \X Secrets
      BY <1>1, CredentialsTyped DEF SavedHaveSecrets
<1>4. accepted' \subseteq Zones \X Secrets
      BY <1>2, <1>3 DEF TypeInv, TypeOK
<1>5. Typed' /\ UncheckedYet'
      BY <1>1, <1>2, <1>4 DEF TypeInv, TypeOK, Typed, UncheckedYet
<1>6. queue' \in Seq(Calls) /\ Waiting'
      BY <1>2, SameQueue DEF TypeInv
<1> QED BY <1>1, <1>5, <1>6, TypePartsNext DEF TypeInv

\* Every step keeps the types.
LEMMA StepType == TypeInv /\ [Next]_vars => TypeInv'
<1> SUFFICES ASSUME TypeInv, [Next]_vars PROVE TypeInv'
      OBVIOUS
<1>1. CASE Next
      BY <1>1, NextCases, PresentType, CheckType, AnsweredType, EndsType, OpenType, FileType,
         RenameType, EndType, ExitType, StoreType, RestartType, AdminType
<1>2. CASE UNCHANGED vars
      BY <1>2 DEF vars, TypeInv, TypeOK, SavedHaveSecrets, UncheckedYet
<1> QED BY <1>1, <1>2

\* Every variable stays in its domain, and what waits for the thread waits once (TypeOK; the
\* calls of sync_to_async in sftp.py).
THEOREM TypeCorrect == Spec => []TypeOK
<1>1. Spec => []TypeInv
      BY InitType, StepType, PTL DEF Spec
<1>2. TypeInv => TypeOK
      BY DEF TypeInv
<1> QED BY <1>1, <1>2, PTL

-----------------------------------------------------------------------------
(* A session its client ended is dropped only for a file left unfinished.  *)

\* A session is broken only while its channel closes, and by a file that was cut.
BrokenIsCut ==
    \A s \in Sessions :
        session[s].incomplete /\ session[s].at \in {"new", "open", "closing"} =>
            session[s].at = "closing" /\ \E f \in Files : session[s].files[f] = "cut"

\* No session is broken before there is one.
LEMMA InitBroken == Init => BrokenIsCut
BY DEF Init, BrokenIsCut

\* A file request marks a session broken only where it cuts a file.
LEMMA FileBroken ==
    ASSUME TypeInv, BrokenIsCut, NEW s \in Sessions, NEW f \in Files,
           Put(s, f) \/ ClientClose(s, f) \/ Remove(s, f) \/ ForceClose(s, f)
           \/ (\E g \in Files : Rename(s, f, g))
    PROVE  BrokenIsCut'
<1>1. CASE ForceClose(s, f)
  <2>1. session' = [session EXCEPT ![s].files[f] = "cut", ![s].incomplete = TRUE]
        BY <1>1 DEF ForceClose
  <2>2. session[s].at = "closing"
        BY <1>1 DEF ForceClose
  <2>3. /\ session'[s].at = "closing" /\ session'[s].files[f] = "cut"
        /\ \A r \in Sessions \ {s} : session'[r] = session[r]
        BY <2>1, <2>2, SessionTyped DEF Session
  <2> QED BY <2>3 DEF BrokenIsCut
<1>2. CASE Put(s, f) \/ ClientClose(s, f) \/ Remove(s, f) \/ (\E g \in Files : Rename(s, f, g))
  <2>1. /\ session[s].at = "open" /\ session'[s].incomplete = session[s].incomplete
        /\ \A r \in Sessions \ {s} : session'[r] = session[r]
        BY <1>2, SessionTyped DEF Put, ClientClose, Remove, FileStep, Rename, Session
  <2>2. ~session'[s].incomplete
        BY <2>1 DEF BrokenIsCut
  <2> QED BY <2>1, <2>2 DEF BrokenIsCut
<1> QED BY <1>1, <1>2

\* A session that opens, closes or ends is not marked broken by that.
LEMMA SessionBroken ==
    ASSUME TypeInv, BrokenIsCut, NEW s \in Sessions,
           CloseChannel(s) \/ ExitBroken(s) \/ Exit(s) \/ FindNothing(s) \/ StoreSession(s)
           \/ StoreFails(s) \/ CleanUp(s) \/ (\E c \in Conns : Open(c, s))
    PROVE  BrokenIsCut'
<1>1. \A r \in Sessions \ {s} : session'[r] = session[r]
      BY SessionTyped DEF CloseChannel, ExitBroken, Exit, FindNothing, StoreSession, StoreFails,
         CleanUp, Open
<1>2. CASE CloseChannel(s) \/ (\E c \in Conns : Open(c, s))
  <2>1. CASE CloseChannel(s)
        BY <1>1, <2>1, SessionTyped DEF CloseChannel, Session, BrokenIsCut
  <2>2. CASE \E c \in Conns : Open(c, s)
    <3>1. PICK c \in Conns : Open(c, s)
          BY <2>2
    <3>2. session' = [session EXCEPT ![s].at = "open", ![s].zone = identity[c],
                                     ![s].directory = "kept"]
          BY <3>1 DEF Open
    <3>3. session[s] \in Session /\ session[s].at = "new"
          BY <3>1, SessionTyped DEF Open
    <3>4. session'[s].incomplete = session[s].incomplete
          BY <3>2, <3>3, SessionTyped DEF Session
    <3> QED BY <1>1, <3>3, <3>4 DEF BrokenIsCut
  <2> QED BY <1>2, <2>1, <2>2
<1>3. CASE ExitBroken(s) \/ Exit(s) \/ FindNothing(s) \/ StoreSession(s) \/ StoreFails(s)
           \/ CleanUp(s)
  <2>1. session'[s].at \in {"dropped", "waiting", "empty", "stored", "refused"}
        BY <1>3, SessionTyped DEF ExitBroken, Exit, FindNothing, StoreSession, StoreFails,
           CleanUp, Session
  <2> QED BY <1>1, <2>1 DEF BrokenIsCut
<1> QED BY <1>2, <1>3

\* The end of a connection or a restart marks no session that has no file cut.
LEMMA LoseBroken ==
    ASSUME TypeInv, BrokenIsCut, Restart \/ Ends
    PROVE  BrokenIsCut'
<1> SUFFICES ASSUME NEW s \in Sessions, session'[s].incomplete,
                    session'[s].at \in {"new", "open", "closing"}
             PROVE  session'[s].at = "closing" /\ \E f \in Files : session'[s].files[f] = "cut"
      BY DEF BrokenIsCut
<1>1. session[s] \in Session
      BY SessionTyped
<1>2. CASE Ends
  <2> QED BY <1>2, SessionEnds DEF BrokenIsCut
<1>3. CASE Restart
  <2>1. \/ session'[s] = session[s]
        \/ session'[s] = [session[s] EXCEPT
                             !.directory = "orphaned", !.errored = FALSE, !.files = NoFiles,
                             !.at = IF @ \in {"open", "closing", "waiting"} THEN "lost" ELSE @]
        BY <1>3 DEF Restart
  <2>2. CASE session'[s] = session[s]
        BY <2>2 DEF BrokenIsCut
  <2>3. CASE session'[s] # session[s]
    <3>1. session'[s].incomplete = session[s].incomplete
          /\ session'[s].at = IF session[s].at \in {"open", "closing", "waiting"} THEN "lost"
                              ELSE session[s].at
          BY <1>1, <2>1, <2>3 DEF Session
    <3> QED BY <3>1 DEF BrokenIsCut
  <2> QED BY <2>2, <2>3
<1> QED BY <1>2, <1>3

\* Steps that leave the sessions alone.
LEMMA Elsewhere ==
    ASSUME \/ UNCHANGED vars
           \/ \E c \in Conns : Check(c) \/ Admit(c) \/ Reject(c) \/ AdmitGone(c)
           \/ \E c \in Conns, z \in Zones, secret \in Secrets \cup {NoSecret} :
                 Present(c, z, secret)
           \/ \E z \in Zones, settings \in Settings : SaveZone(z, settings)
           \/ \E z \in Zones : DeleteZone(z)
    PROVE  UNCHANGED <<session, ofConn, uploads, ended>>
BY DEF vars, Check, Admit, Reject, AdmitGone, Present, SaveZone, DeleteZone

\* Every step keeps broken sessions those with a file that was cut.
LEMMA StepBroken == TypeInv /\ BrokenIsCut /\ [Next]_vars => BrokenIsCut'
<1> SUFFICES ASSUME TypeInv, BrokenIsCut, [Next]_vars PROVE BrokenIsCut'
      OBVIOUS
<1>1. CASE UNCHANGED session
      BY <1>1 DEF BrokenIsCut
<1>2. CASE ~UNCHANGED session
      BY <1>2, NextCases, Elsewhere, FileBroken, SessionBroken, LoseBroken
<1> QED BY <1>1, <1>2

\* A session that its client ended is dropped only if asyncssh cut a file of it
\* (SessionSFTPServer.exit), whatever was put, renamed, removed and closed before.
THEOREM DroppedAreCut == Spec => OnlyCutIsDropped
<1> DEFINE Cut ==
      \A s \in Sessions :
          session[s].at # "dropped" /\ session'[s].at = "dropped" /\ ~session[s].errored =>
              \E f \in Files : session[s].files[f] = "cut"
<1>1. Spec => [](TypeInv /\ BrokenIsCut)
      BY InitType, InitBroken, StepType, StepBroken, PTL DEF Spec
<1>2. TypeInv /\ BrokenIsCut /\ [Next]_vars => [Cut]_vars
  <2> SUFFICES ASSUME TypeInv, BrokenIsCut, [Next]_vars, NEW s \in Sessions,
                      session[s].at # "dropped", session'[s].at = "dropped"
               PROVE  \E f \in Files : session[s].files[f] = "cut"
        OBVIOUS
  <2>1. session[s] \in Session /\ ~UNCHANGED session
        BY SessionTyped
  <2>2. ExitBroken(s)
    <3>1. CASE Restart \/ Ends
      <4>1. CASE Restart
        <5>1. \/ session'[s] = session[s]
              \/ session'[s] = [session[s] EXCEPT
                                   !.directory = "orphaned", !.errored = FALSE, !.files = NoFiles,
                                   !.at = IF @ \in {"open", "closing", "waiting"} THEN "lost"
                                          ELSE @]
              BY <4>1 DEF Restart
        <5> QED BY <2>1, <5>1 DEF Session
      <4>2. CASE Ends
            BY <4>2, SessionEnds
      <4> QED BY <3>1, <4>1, <4>2
    <3>2. CASE \E r \in Sessions, f \in Files : Put(r, f) \/ ClientClose(r, f) \/ Remove(r, f)
                  \/ ForceClose(r, f) \/ \E g \in Files : Rename(r, f, g)
      <4>1. session'[s].at = session[s].at
        <5>1. PICK r \in Sessions, f \in Files :
                 Put(r, f) \/ ClientClose(r, f) \/ Remove(r, f) \/ ForceClose(r, f)
                 \/ \E g \in Files : Rename(r, f, g)
              BY <3>2
        <5>2. CASE Put(r, f) \/ ClientClose(r, f) \/ Remove(r, f)
              BY <5>2, SessionTyped DEF Put, ClientClose, Remove, FileStep, Session
        <5>3. CASE ForceClose(r, f)
              BY <5>3, SessionTyped DEF ForceClose, Session
        <5>4. CASE \E g \in Files : Rename(r, f, g)
              BY <5>4, SessionTyped DEF Rename, Session
        <5> QED BY <5>1, <5>2, <5>3, <5>4
      <4> QED BY <4>1
    <3>3. CASE \E r \in Sessions : CloseChannel(r) \/ ExitBroken(r) \/ Exit(r) \/ FindNothing(r)
                  \/ StoreSession(r) \/ StoreFails(r) \/ CleanUp(r) \/ \E c \in Conns : Open(c, r)
      <4>1. PICK r \in Sessions : CloseChannel(r) \/ ExitBroken(r) \/ Exit(r) \/ FindNothing(r)
                  \/ StoreSession(r) \/ StoreFails(r) \/ CleanUp(r) \/ \E c \in Conns : Open(c, r)
            BY <3>3
      <4>2. r = s
            BY <4>1, SessionTyped DEF CloseChannel, ExitBroken, Exit, FindNothing,
               StoreSession, StoreFails, CleanUp, Open
      <4>3. CASE CloseChannel(s) \/ Exit(s)
            BY <4>3, SessionTyped DEF CloseChannel, Exit, Session
      <4>4. CASE \E c \in Conns : Open(c, s)
        <5>1. PICK c \in Conns :
                 session' = [session EXCEPT ![s].at = "open", ![s].zone = identity[c],
                                            ![s].directory = "kept"]
              BY <4>4 DEF Open
        <5>2. session'[s].at = "open"
              BY <5>1, SessionTyped DEF Session
        <5> QED BY <5>2
      <4>5. CASE FindNothing(s) \/ StoreSession(s) \/ StoreFails(s) \/ CleanUp(s)
            BY <4>5, SessionTyped DEF FindNothing, StoreSession, StoreFails, CleanUp, Session
      <4> QED BY <4>1, <4>2, <4>3, <4>4, <4>5
    <3> QED BY <2>1, <3>1, <3>2, <3>3, NextCases, Elsewhere
  <2> QED BY <2>2 DEF ExitBroken, BrokenIsCut
<1> QED BY <1>1, <1>2, PTL DEF Spec, OnlyCutIsDropped

-----------------------------------------------------------------------------
(* Sessions belong to dropzones whose secret the client gave.              *)

Known(c) == <<conn[c].zone, conn[c].secret>> \in accepted /\ conn[c].secret # NoSecret

\* What the loop remembers of a connection is what the thread has checked, and a connection
\* with sessions keeps it to its end and beyond.
LoginsKnown ==
    /\ Credentials(zone) \subseteq accepted
    /\ \A c \in Conns :
          /\ conn[c].check = "queued" => conn[c].zone \in Zones
          /\ conn[c].check = "granted" => Known(c)
          /\ conn[c].at = "open" => /\ Known(c) /\ conn[c].check = "none"
                                    /\ identity[c] = conn[c].zone
    /\ \A s \in Sessions : ofConn[s] # Nobody =>
          LET c == ofConn[s] IN
          /\ conn[c].at \in {"open", "closed"} /\ conn[c].check = "none"
          /\ session[s].zone = conn[c].zone
          /\ Known(c)

\* The marker for no connection is none.
LEMMA NobodyIsNoConn == Nobody \notin Conns
BY SftpAssumption DEF Conns

\* Nobody is logged in at first.
LEMMA InitKnown == Init => LoginsKnown
BY DEF Init, LoginsKnown, Fresh

\* A connection that no session belongs to changes.
LEMMA ConnKnown ==
    ASSUME TypeInv, LoginsKnown, NEW c \in Conns, NEW after \in Conn,
           UNCHANGED <<zone, session, ofConn, accepted>>,
           conn' = [conn EXCEPT ![c] = after],
           conn[c].check # "none" \/ conn[c].at \notin {"open", "closed"},
           \A d \in Conns \ {c} : identity'[d] = identity[d],
           after.check = "queued" => after.zone \in Zones,
           after.check = "granted" \/ after.at = "open" =>
               <<after.zone, after.secret>> \in accepted /\ after.secret # NoSecret,
           after.at = "open" => after.check = "none" /\ identity'[c] = after.zone
    PROVE  LoginsKnown'
<1>1. /\ conn'[c] = after /\ \A d \in Conns \ {c} : conn'[d] = conn[d]
      BY ConnTyped
<1>2. \A s \in Sessions : ofConn[s] # Nobody => ofConn[s] \in Conns \ {c}
      BY SessionTyped DEF LoginsKnown
<1>3. Credentials(zone)' \subseteq accepted'
      BY DEF LoginsKnown, Credentials
<1>4. ASSUME NEW d \in Conns
      PROVE  /\ conn'[d].check = "queued" => conn'[d].zone \in Zones
             /\ conn'[d].check = "granted" => Known(d)'
             /\ conn'[d].at = "open" => /\ Known(d)' /\ conn'[d].check = "none"
                                        /\ identity'[d] = conn'[d].zone
  <2>1. CASE d = c
        BY <1>1, <2>1 DEF Known
  <2>2. CASE d # c
        BY <1>1, <2>2 DEF Known, LoginsKnown
  <2> QED BY <2>1, <2>2
<1>5. ASSUME NEW s \in Sessions, ofConn'[s] # Nobody
      PROVE  /\ conn'[ofConn'[s]].at \in {"open", "closed"} /\ conn'[ofConn'[s]].check = "none"
             /\ session'[s].zone = conn'[ofConn'[s]].zone
             /\ Known(ofConn[s])'
      BY <1>1, <1>2, <1>5 DEF LoginsKnown, Known
<1> QED BY <1>3, <1>4, <1>5 DEF LoginsKnown, Known

\* A connection is granted only what the thread checked against an enabled dropzone.
LEMMA LoginKnown ==
    ASSUME TypeInv, LoginsKnown, NEW c \in Conns,
           Check(c) \/ Admit(c) \/ Reject(c) \/ AdmitGone(c)
           \/ (\E z \in Zones, secret \in Secrets \cup {NoSecret} : Present(c, z, secret))
    PROVE  LoginsKnown'
<1>1. CASE \E z \in Zones, secret \in Secrets \cup {NoSecret} : Present(c, z, secret)
  <2>1. PICK z \in Zones, secret \in Secrets \cup {NoSecret} : Present(c, z, secret)
        BY <1>1
  <2> DEFINE after == [at |-> "login", check |-> "queued", zone |-> z, secret |-> secret]
  <2>2. /\ after \in Conn /\ conn' = [conn EXCEPT ![c] = after]
        /\ conn[c].at \notin {"open", "closed"}
        BY <2>1 DEF Present, Conn
  <2> QED BY <2>1, <2>2, ConnKnown DEF Present
<1>2. CASE Check(c)
  <2> DEFINE after == IF Authenticates(conn[c].zone, conn[c].secret)
                      THEN [conn[c] EXCEPT !.check = "granted"]
                      ELSE [Fresh EXCEPT !.at = conn[c].at, !.check = "denied"]
  <2>1. after \in Conn /\ conn' = [conn EXCEPT ![c] = after]
        BY <1>2, ConnTyped DEF Conn, Check, Fresh
  <2>2. conn[c].check = "queued"
    <3>1. Login(c) \in Calls
          BY CallsDiffer
    <3>2. 1 \in 1..Len(queue) /\ queue[1] = Login(c)
          BY <1>2, <3>1, DoneMovesUp, LenProperties DEF TypeInv, TypeOK, Check, InHand
    <3> QED BY <3>2 DEF TypeInv, TypeOK
  <2>3. Authenticates(conn[c].zone, conn[c].secret) => Known(c)
    <3>1. conn[c].zone \in Zones
          BY <2>2 DEF LoginsKnown
    <3> QED BY <3>1 DEF Authenticates, SecretMatches, Known, LoginsKnown, Credentials
  <2>4. /\ after.check \in {"granted", "denied"} /\ after.at = conn[c].at
        /\ after.check = "granted" =>
              /\ Authenticates(conn[c].zone, conn[c].secret)
              /\ after.zone = conn[c].zone /\ after.secret = conn[c].secret
    <3>1. CASE Authenticates(conn[c].zone, conn[c].secret)
      <4>1. after = [conn[c] EXCEPT !.check = "granted"]
            BY <3>1
      <4> QED BY <3>1, <4>1, ConnTyped DEF Conn
    <3>2. CASE ~Authenticates(conn[c].zone, conn[c].secret)
      <4>1. after = [Fresh EXCEPT !.at = conn[c].at, !.check = "denied"]
            BY <3>2
      <4> QED BY <4>1 DEF Fresh
    <3> QED BY <3>1, <3>2
  <2>5. after.at # "open"
        BY <2>2, <2>4 DEF LoginsKnown
  <2>6. UNCHANGED <<zone, session, ofConn, accepted, identity>>
        BY <1>2 DEF Check
  <2> HIDE DEF after
  <2> QED BY <2>1, <2>2, <2>3, <2>4, <2>5, <2>6, ConnKnown DEF Known
<1>3. CASE Admit(c)
  <2> DEFINE after == [conn[c] EXCEPT !.check = "none", !.at = "open"]
  <2>1. after \in Conn /\ conn' = [conn EXCEPT ![c] = after]
        BY <1>3, ConnTyped DEF Conn, Admit
  <2>2. /\ conn[c].check = "granted" /\ Known(c)
        BY <1>3 DEF Admit, LoginsKnown
  <2>3. after.check = "none" /\ after.zone = conn[c].zone /\ after.secret = conn[c].secret
        BY ConnTyped DEF Conn
  <2>4. /\ \A d \in Conns \ {c} : identity'[d] = identity[d]
        /\ identity'[c] = conn[c].zone
        /\ UNCHANGED <<zone, session, ofConn, accepted>>
        BY <1>3, ConnTyped DEF Admit
  <2> HIDE DEF after
  <2> QED BY <2>1, <2>2, <2>3, <2>4, ConnKnown DEF Known
<1>4. CASE Reject(c)
  <2> DEFINE after == [at |-> "made", check |-> "none", zone |-> Nobody, secret |-> NoSecret]
  <2>1. /\ after \in Conn /\ conn' = [conn EXCEPT ![c] = after]
        /\ conn[c].at \notin {"open", "closed"}
        BY <1>4, FreshIsConn DEF Conn, Reject
  <2> QED BY <1>4, <2>1, ConnKnown DEF Reject
<1>5. CASE AdmitGone(c)
  <2> DEFINE after == [at |-> "closed", check |-> "none", zone |-> Nobody, secret |-> NoSecret]
  <2>1. /\ after \in Conn /\ conn' = [conn EXCEPT ![c] = after]
        /\ conn[c].check # "none"
        BY <1>5, FreshIsConn DEF Conn, AdmitGone
  <2>2. \A d \in Conns \ {c} : identity'[d] = identity[d]
        BY <1>5, ConnTyped DEF AdmitGone
  <2> QED BY <1>5, <2>1, <2>2, ConnKnown DEF AdmitGone
<1> QED BY <1>1, <1>2, <1>3, <1>4, <1>5

\* The connections are left alone, and every session its dropzone.
LEMMA SameKnown ==
    ASSUME LoginsKnown, UNCHANGED <<conn, identity, ofConn>>,
           \A s \in Sessions : session'[s].zone = session[s].zone,
           accepted \subseteq accepted', Credentials(zone') \subseteq accepted'
    PROVE  LoginsKnown'
<1>1. Credentials(zone)' = Credentials(zone')
      BY DEF Credentials
<1>2. \A c : Known(c) => Known(c)'
      BY DEF Known
<1> QED BY <1>1, <1>2 DEF LoginsKnown

\* Saving or deleting a dropzone takes nothing from the credentials it has had.
LEMMA AdminKnown ==
    ASSUME TypeInv, LoginsKnown, NEW z \in Zones,
           (\E settings \in Settings : SaveZone(z, settings)) \/ DeleteZone(z)
    PROVE  LoginsKnown'
<1>1. CASE \E settings \in Settings : SaveZone(z, settings)
      BY <1>1, SameKnown DEF SaveZone
<1>2. CASE DeleteZone(z)
  <2>1. Credentials(zone') \subseteq Credentials(zone)
        BY <1>2 DEF DeleteZone, Credentials, TypeInv, TypeOK
  <2> QED BY <1>2, <2>1, SameKnown DEF DeleteZone, LoginsKnown
<1> QED BY <1>1, <1>2

\* What happens within a session changes neither its dropzone nor a login.
LEMMA SessionKnown ==
    ASSUME TypeInv, LoginsKnown, NEW s \in Sessions,
           \/ CloseChannel(s) \/ ExitBroken(s) \/ Exit(s) \/ FindNothing(s) \/ StoreSession(s)
           \/ StoreFails(s) \/ CleanUp(s)
           \/ \E f \in Files : Put(s, f) \/ ClientClose(s, f) \/ Remove(s, f) \/ ForceClose(s, f)
           \/ \E f, g \in Files : Rename(s, f, g)
    PROVE  LoginsKnown'
<1>1. UNCHANGED <<zone, conn, identity, ofConn, accepted>>
      BY DEF CloseChannel, ExitBroken, Exit, FindNothing, StoreSession, StoreFails, CleanUp,
         Put, ClientClose, Remove, FileStep, ForceClose, Rename
<1>2. ASSUME NEW r \in Sessions
      PROVE  session'[r].zone = session[r].zone
  <2>0. session[r] \in Session /\ session[s] \in Session
        BY SessionTyped
  <2>1. CASE CloseChannel(s)
        BY <2>0, <2>1, SessionTyped DEF CloseChannel, Session
  <2>2. CASE ExitBroken(s)
        BY <2>0, <2>2, SessionTyped DEF ExitBroken, Session
  <2>3. CASE Exit(s)
        BY <2>0, <2>3, SessionTyped DEF Exit, Session
  <2>4. CASE FindNothing(s)
        BY <2>0, <2>4, SessionTyped DEF FindNothing, Session
  <2>5. CASE StoreSession(s)
        BY <2>0, <2>5, SessionTyped DEF StoreSession, Session
  <2>6. CASE StoreFails(s)
        BY <2>0, <2>6, SessionTyped DEF StoreFails, Session
  <2>7. CASE CleanUp(s)
        BY <2>0, <2>7, SessionTyped DEF CleanUp, Session
  <2>8. CASE \E f \in Files : Put(s, f) \/ ClientClose(s, f) \/ Remove(s, f) \/ ForceClose(s, f)
    <3>1. PICK f \in Files : Put(s, f) \/ ClientClose(s, f) \/ Remove(s, f) \/ ForceClose(s, f)
          BY <2>8
    <3>2. PICK to \in FileState, broken \in BOOLEAN :
             /\ session[s].at \in {"open", "closing"}
             /\ session' = [session EXCEPT ![s] =
                              [session[s] EXCEPT !.files = [session[s].files EXCEPT ![f] = to],
                                                 !.incomplete = broken]]
             /\ UNCHANGED <<zone, conn, identity, ofConn, queue, uploads, ended, accepted>>
          BY <3>1, FileAfter
    <3> QED BY <2>0, <3>2, SessionTyped DEF Session
  <2>9. CASE \E f, g \in Files : Rename(s, f, g)
    <3>1. PICK f \in Files, g \in Files : Rename(s, f, g)
          BY <2>9
    <3>2. session' = [session EXCEPT ![s].files[f] = "absent", ![s].files[g] = "whole"]
          BY <3>1 DEF Rename
    <3> QED BY <2>0, <3>2, SessionTyped DEF Session
  <2> QED BY <2>1, <2>2, <2>3, <2>4, <2>5, <2>6, <2>7, <2>8, <2>9
<1>3. Credentials(zone') \subseteq accepted'
      BY <1>1 DEF LoginsKnown
<1> QED BY <1>1, <1>2, <1>3, SameKnown

\* A session is opened on a connection that was granted.
LEMMA OpenKnown ==
    ASSUME TypeInv, LoginsKnown, NEW c \in Conns, NEW s \in Sessions, Open(c, s)
    PROVE  LoginsKnown'
<1>1. /\ UNCHANGED <<zone, conn, identity, accepted>>
      /\ ofConn' = [ofConn EXCEPT ![s] = c]
      BY DEF Open
<1>2. /\ session'[s].zone = identity[c]
      /\ \A r \in Sessions \ {s} : session'[r] = session[r]
      BY SessionTyped DEF Open, Session
<1>3. /\ conn[c].at = "open" /\ conn[c].check = "none" /\ identity[c] = conn[c].zone /\ Known(c)
      BY DEF Open, LoginsKnown
<1>4. Credentials(zone)' = Credentials(zone) /\ \A d : Known(d)' = Known(d)
      BY <1>1 DEF Credentials, Known
<1>5. ASSUME NEW r \in Sessions, ofConn'[r] # Nobody
      PROVE  /\ conn[ofConn'[r]].at \in {"open", "closed"} /\ conn[ofConn'[r]].check = "none"
             /\ session'[r].zone = conn[ofConn'[r]].zone
             /\ Known(ofConn'[r])
  <2>1. CASE r = s
        BY <1>1, <1>2, <1>3, <2>1, SessionTyped
  <2>2. CASE r # s
    <3>1. ofConn'[r] = ofConn[r] /\ session'[r] = session[r]
          BY <1>1, <1>2, <2>2, SessionTyped
    <3> QED BY <1>5, <3>1 DEF LoginsKnown
  <2> QED BY <2>1, <2>2
<1> QED BY <1>1, <1>4, <1>5 DEF LoginsKnown

\* A connection that ends or is restarted is granted nothing by that.
LEMMA LoseKnown ==
    ASSUME TypeInv, LoginsKnown, Restart \/ Ends
    PROVE  LoginsKnown'
<1>1. UNCHANGED <<zone, ofConn, accepted>>
      BY DEF Restart, Ends, EndConnection
<1>2. \A s \in Sessions : session'[s].zone = session[s].zone
  <2> SUFFICES ASSUME NEW s \in Sessions PROVE session'[s].zone = session[s].zone
        OBVIOUS
  <2>0. session[s] \in Session
        BY SessionTyped
  <2>1. CASE Restart
    <3>1. \/ session'[s] = session[s]
          \/ session'[s] = [session[s] EXCEPT
                               !.directory = "orphaned", !.errored = FALSE, !.files = NoFiles,
                               !.at = IF @ \in {"open", "closing", "waiting"} THEN "lost" ELSE @]
          BY <2>1 DEF Restart
    <3> QED BY ONLY <2>0, <3>1 DEF Session
  <2>2. CASE Ends
        BY <2>2, SessionEnds
  <2> QED BY <2>1, <2>2
<1>3. \A d \in Conns :
          \/ conn'[d] = conn[d] /\ identity'[d] = identity[d]
          \/ conn'[d] = conn[d] /\ conn[d].at = "new"
          \/ conn'[d] = [conn[d] EXCEPT !.at = "closed"]
          \/ conn'[d] = [conn[d] EXCEPT !.at = "closed", !.check = "none"]
  <2>1. CASE Restart
        BY <2>1 DEF Restart
  <2>2. CASE Ends
    <3>1. PICK c \in Conns, errored \in BOOLEAN : EndConnection(c, errored)
          BY <2>2 DEF Ends
    <3> QED BY <3>1, ConnTyped DEF EndConnection
  <2> QED BY <2>1, <2>2
<1>4. ASSUME NEW d \in Conns
      PROVE  /\ conn'[d].zone = conn[d].zone /\ conn'[d].secret = conn[d].secret
             /\ conn'[d].check \in {conn[d].check, "none"}
             /\ conn'[d].at \in {conn[d].at, "closed"}
             /\ conn'[d].at = "open" => conn'[d] = conn[d] /\ identity'[d] = identity[d]
  <2>1. conn[d] \in Conn
        BY ConnTyped
  <2>2. CASE conn'[d] = conn[d]
        BY <1>3, <2>1, <2>2 DEF Conn
  <2>3. CASE conn'[d] = [conn[d] EXCEPT !.at = "closed"]
        BY ONLY <2>1, <2>3 DEF Conn
  <2>4. CASE conn'[d] = [conn[d] EXCEPT !.at = "closed", !.check = "none"]
        BY ONLY <2>1, <2>4 DEF Conn
  <2> QED BY <1>3, <2>2, <2>3, <2>4
<1>5. \A d \in Conns : Known(d)' <=> Known(d)
      BY <1>1, <1>4 DEF Known
<1>6. Credentials(zone)' \subseteq accepted'
      BY <1>1 DEF Credentials, LoginsKnown
<1>7. ASSUME NEW d \in Conns
      PROVE  /\ conn'[d].check = "queued" => conn'[d].zone \in Zones
             /\ conn'[d].check = "granted" => Known(d)'
             /\ conn'[d].at = "open" => /\ Known(d)' /\ conn'[d].check = "none"
                                        /\ identity'[d] = conn'[d].zone
      BY <1>4, <1>5 DEF LoginsKnown
<1>8. ASSUME NEW s \in Sessions, ofConn'[s] # Nobody
      PROVE  /\ conn'[ofConn'[s]].at \in {"open", "closed"} /\ conn'[ofConn'[s]].check = "none"
             /\ session'[s].zone = conn'[ofConn'[s]].zone
             /\ Known(ofConn[s])'
  <2>1. ofConn'[s] = ofConn[s] /\ ofConn[s] \in Conns
        BY <1>1, <1>8, SessionTyped
  <2>2. /\ conn[ofConn[s]].at \in {"open", "closed"} /\ conn[ofConn[s]].check = "none"
        /\ session[s].zone = conn[ofConn[s]].zone
        /\ Known(ofConn[s])
        BY <1>8, <2>1 DEF LoginsKnown
  <2> HIDE DEF Known
  <2> QED BY <1>2, <1>4, <1>5, <2>1, <2>2
<1> QED BY <1>6, <1>7, <1>8 DEF LoginsKnown

\* Every step keeps logins to credentials an enabled dropzone had.
LEMMA StepKnown == TypeInv /\ LoginsKnown /\ [Next]_vars => LoginsKnown'
<1> SUFFICES ASSUME TypeInv, LoginsKnown, [Next]_vars PROVE LoginsKnown'
      OBVIOUS
<1>1. CASE Next
      BY <1>1, NextCases, LoginKnown, AdminKnown, SessionKnown, OpenKnown, LoseKnown
<1>2. CASE UNCHANGED vars
      BY <1>2 DEF vars, LoginsKnown, Known, Credentials
<1> QED BY <1>1, <1>2

\* No session without the password of an enabled dropzone (authenticate, secret_matches),
\* whatever the admin does while it is being checked and whenever the connection is lost.
THEOREM CredentialsNeeded == Spec => []OnlyWithCredentials
<1>1. Spec => [](TypeInv /\ LoginsKnown)
      BY InitType, InitKnown, StepType, StepKnown, PTL DEF Spec
<1>2. LoginsKnown => OnlyWithCredentials
      BY DEF LoginsKnown, Known, OnlyWithCredentials
<1> QED BY <1>1, <1>2, PTL

-----------------------------------------------------------------------------
(* Sessions are stored in the order they ended.                            *)

Underway == {"new", "open", "closing"}

Before(s, r) == \A p \in Positions(s), q \in Positions(r) : p < q

\* A session ends once; what waits stands in the order of its end, behind what is stored.
InOrder ==
    /\ \A i, k \in 1..Len(ended) : ended[i] = ended[k] => i = k
    /\ \A s \in Sessions : session[s].at \in Underway => Positions(s) = {}
    /\ \A i \in 1..Len(uploads) : session[uploads[i].session].at \notin Underway
    /\ \A i, k \in 1..Len(queue), s, r \in Sessions :
          i < k /\ queue[i] = Store(s) /\ queue[k] = Store(r) => Before(s, r)
    /\ \A i \in 1..Len(uploads), k \in 1..Len(queue), r \in Sessions :
          queue[k] = Store(r) => Before(uploads[i].session, r)
    /\ \A i, k \in 1..Len(uploads) :
          i < k => Before(uploads[i].session, uploads[k].session)

\* Nothing has ended and nothing is stored.
LEMMA InitOrder == Init => InOrder
<1> SUFFICES ASSUME Init PROVE InOrder
      OBVIOUS
<1>1. Len(queue) = 0 /\ Len(uploads) = 0 /\ Len(ended) = 0
      BY DEF Init
<1> QED BY <1>1 DEF InOrder, Positions

\* Queue, uploads and ends are sequences, and their entries calls, uploads and sessions.
LEMMA LengthsAreNat ==
    ASSUME TypeInv
    PROVE  /\ queue \in Seq(Calls) /\ Len(queue) \in Nat
           /\ uploads \in Seq(Upload) /\ Len(uploads) \in Nat
           /\ ended \in Seq(Sessions) /\ Len(ended) \in Nat
           /\ \A i \in 1..Len(uploads) : uploads[i].session \in Sessions
<1>1. /\ queue \in Seq(Calls) /\ uploads \in Seq(Upload) /\ ended \in Seq(Sessions)
      BY DEF TypeInv, TypeOK
<1>2. \A i \in 1..Len(uploads) : uploads[i] \in Upload
      BY <1>1, ElementOfSeq
<1> QED BY <1>1, <1>2, LenProperties DEF Upload

\* No step brings back a session that has ended.
LEMMA StaysEnded ==
    ASSUME TypeInv, [Next]_vars, NEW s \in Sessions, session'[s].at \in Underway
    PROVE  session[s].at \in Underway
<1>0. session[s] \in Session
      BY SessionTyped
<1>1. CASE UNCHANGED session
      BY <1>1
<1>2. CASE Restart
  <2>1. \/ session'[s] = session[s]
        \/ session'[s] = [session[s] EXCEPT
                             !.directory = "orphaned", !.errored = FALSE, !.files = NoFiles,
                             !.at = IF @ \in {"open", "closing", "waiting"} THEN "lost" ELSE @]
        BY <1>2 DEF Restart
  <2> QED BY <1>0, <2>1 DEF Session, Underway
<1>3. CASE Ends
      BY <1>3, SessionEnds DEF Underway
<1>4. CASE \E r \in Sessions, f \in Files : Put(r, f) \/ ClientClose(r, f) \/ Remove(r, f)
              \/ ForceClose(r, f)
  <2>1. PICK r \in Sessions, f \in Files : Put(r, f) \/ ClientClose(r, f) \/ Remove(r, f)
              \/ ForceClose(r, f)
        BY <1>4
  <2>2. session[r].at \in Underway /\ (r # s => session'[s] = session[s])
        BY <2>1, SessionTyped DEF Put, ClientClose, Remove, FileStep, ForceClose, Underway
  <2> QED BY <2>2
<1>5. CASE \E r \in Sessions, f, g \in Files : Rename(r, f, g)
  <2>1. PICK r \in Sessions, f \in Files, g \in Files : Rename(r, f, g)
        BY <1>5
  <2>2. session[r].at \in Underway /\ (r # s => session'[s] = session[s])
        BY <2>1, SessionTyped DEF Rename, Underway
  <2> QED BY <2>2
<1>6. CASE \E r \in Sessions : CloseChannel(r) \/ ExitBroken(r) \/ Exit(r)
              \/ \E c \in Conns : Open(c, r)
  <2>1. PICK r \in Sessions : CloseChannel(r) \/ ExitBroken(r) \/ Exit(r)
              \/ \E c \in Conns : Open(c, r)
        BY <1>6
  <2>2. session[r].at \in Underway /\ (r # s => session'[s] = session[s])
        BY <2>1, SessionTyped DEF CloseChannel, ExitBroken, Exit, Open, Underway
  <2> QED BY <2>2
<1>7. CASE \E r \in Sessions : FindNothing(r) \/ StoreSession(r) \/ StoreFails(r) \/ CleanUp(r)
  <2>1. PICK r \in Sessions : FindNothing(r) \/ StoreSession(r) \/ StoreFails(r) \/ CleanUp(r)
        BY <1>7
  <2>2. CASE r # s
        BY <2>1, <2>2, SessionTyped DEF FindNothing, StoreSession, StoreFails, CleanUp
  <2>3. CASE r = s
    <3>1. CASE FindNothing(s)
          BY <1>0, <3>1, SessionTyped DEF FindNothing, Underway, Session
    <3>2. CASE StoreSession(s)
          BY <1>0, <3>2, SessionTyped DEF StoreSession, Underway, Session
    <3>3. CASE StoreFails(s)
          BY <1>0, <3>3, SessionTyped DEF StoreFails, Underway, Session
    <3>4. CASE CleanUp(s)
          BY <1>0, <3>4, SessionTyped DEF CleanUp, Underway, Session
    <3> QED BY <2>1, <2>3, <3>1, <3>2, <3>3, <3>4
  <2> QED BY <2>2, <2>3
<1> QED BY <1>1, <1>2, <1>3, <1>4, <1>5, <1>6, <1>7, NextCases, Elsewhere

\* Nothing ends and nothing is stored; what still waits has moved up by `d`.
LEMMA OrderKept ==
    ASSUME TypeInv, InOrder, [Next]_vars, UNCHANGED <<uploads, ended>>,
           Len(queue') \in Nat, NEW d \in Nat,
           \A k \in 1..Len(queue'), r \in Sessions :
               queue'[k] = Store(r) => k + d \in 1..Len(queue) /\ queue[k + d] = Store(r)
    PROVE  InOrder'
<1>1. \A s, r : Positions(s)' = Positions(s) /\ (Before(s, r)' <=> Before(s, r))
      BY DEF Positions, Before
<1>2. /\ \A s \in Sessions : session'[s].at \in Underway => Positions(s)' = {}
      /\ \A i \in 1..Len(uploads') : session'[uploads'[i].session].at \notin Underway
      BY <1>1, StaysEnded, LengthsAreNat DEF InOrder
<1>3. ASSUME NEW i \in 1..Len(queue'), NEW k \in 1..Len(queue'), NEW s \in Sessions,
             NEW r \in Sessions, i < k, queue'[i] = Store(s), queue'[k] = Store(r)
      PROVE  Before(s, r)'
  <2>1. /\ i + d \in 1..Len(queue) /\ queue[i + d] = Store(s)
        /\ k + d \in 1..Len(queue) /\ queue[k + d] = Store(r)
        /\ i + d < k + d
        BY <1>3
  <2> QED BY <1>1, <2>1 DEF InOrder
<1>4. ASSUME NEW i \in 1..Len(uploads'), NEW k \in 1..Len(queue'), NEW r \in Sessions,
             queue'[k] = Store(r)
      PROVE  Before(uploads[i].session, r)'
  <2>1. k + d \in 1..Len(queue) /\ queue[k + d] = Store(r)
        BY <1>4
  <2>2. Before(uploads[i].session, r)
        BY <2>1 DEF InOrder
  <2> QED BY <2>2 DEF Before, Positions
<1> QED BY <1>1, <1>2, <1>3, <1>4 DEF InOrder, Before, Positions

\* The session that ends now ends last.
LEMMA ExitOrder ==
    ASSUME TypeInv, InOrder, [Next]_vars, NEW s \in Sessions, Exit(s)
    PROVE  InOrder'
<1>1. /\ ended' \in Seq(Sessions) /\ Len(ended') = Len(ended) + 1
      /\ \A i \in 1..Len(ended) : ended'[i] = ended[i]
      /\ ended'[Len(ended) + 1] = s
      BY LengthsAreNat, AppendProperties DEF Exit
<1>2. /\ Len(queue') = Len(queue) + 1
      /\ \A k \in 1..Len(queue) : queue'[k] = queue[k]
      /\ queue'[Len(queue) + 1] = Store(s)
  <2>1. Store(s) \in Calls
        BY CallsDiffer
  <2> QED BY <2>1, LengthsAreNat, AppendProperties DEF Exit
<1>3. /\ session[s].at = "closing" /\ session'[s].at = "waiting"
      /\ UNCHANGED uploads
      BY SessionTyped DEF Exit, Session
<1>4. Positions(s) = {}
      BY <1>3 DEF InOrder, Underway
<1>5. /\ Positions(s)' = {Len(ended) + 1}
      /\ \A r \in Sessions \ {s} : Positions(r)' = Positions(r)
  <2>1. /\ \A r : Positions(r)' = {i \in 1..(Len(ended) + 1) : ended'[i] = r}
        /\ \A r : Positions(r) = {i \in 1..Len(ended) : ended'[i] = r}
        BY <1>1 DEF Positions
  <2>2. 1..(Len(ended) + 1) = 1..Len(ended) \cup {Len(ended) + 1}
        BY LengthsAreNat
  <2> QED BY <1>1, <1>4, <2>1, <2>2
<1>6. \A i, k \in 1..Len(ended') : ended'[i] = ended'[k] => i = k
  <2> SUFFICES ASSUME NEW i \in 1..Len(ended'), NEW k \in 1..Len(ended'), ended'[i] = ended'[k]
               PROVE  i = k
        OBVIOUS
  <2>1. /\ i \in 1..Len(ended) \/ i = Len(ended) + 1
        /\ k \in 1..Len(ended) \/ k = Len(ended) + 1
        BY <1>1, LengthsAreNat
  <2>2. \A j \in 1..Len(ended) : ended[j] # s
        BY <1>4 DEF Positions
  <2> QED BY <1>1, <2>1, <2>2 DEF InOrder
<1>7. \A r \in Sessions : session'[r].at \in Underway => Positions(r)' = {}
  <2> SUFFICES ASSUME NEW r \in Sessions, session'[r].at \in Underway
               PROVE  Positions(r)' = {}
        OBVIOUS
  <2>1. r # s /\ session[r].at \in Underway
        BY <1>3, StaysEnded DEF Underway
  <2> QED BY <1>5, <2>1 DEF InOrder
<1>8. \A i \in 1..Len(uploads) : uploads[i].session \in Sessions \ {s}
      BY <1>3, LengthsAreNat DEF InOrder, Underway
<1>9. \A i \in 1..Len(uploads') : session'[uploads'[i].session].at \notin Underway
      BY <1>3, StaysEnded, LengthsAreNat DEF InOrder
<1>10. \A k \in 1..Len(queue) : queue[k] # Store(s)
      BY <1>3 DEF TypeInv, TypeOK
<1>11. \A q, r \in Sessions \ {s} : Before(q, r) => Before(q, r)'
      BY <1>5 DEF Before
<1>12. \A q \in Sessions \ {s} : Before(q, s)'
  <2>1. \A q : Positions(q) \subseteq 1..Len(ended)
        BY DEF Positions
  <2> QED BY <1>5, <2>1, LengthsAreNat DEF Before
<1>13. ASSUME NEW i \in 1..Len(queue'), NEW k \in 1..Len(queue'), NEW q \in Sessions,
              NEW r \in Sessions, i < k, queue'[i] = Store(q), queue'[k] = Store(r)
       PROVE  Before(q, r)'
  <2>1. i \in 1..Len(queue) /\ queue[i] = Store(q) /\ q # s
        BY <1>2, <1>10, <1>13, LengthsAreNat
  <2>2. CASE k \in 1..Len(queue)
    <3>1. queue[k] = Store(r) /\ r # s
          BY <1>2, <1>10, <1>13, <2>2
    <3>2. Before(q, r)
          BY <1>13, <2>1, <2>2, <3>1 DEF InOrder
    <3> QED BY <1>11, <2>1, <3>1, <3>2
  <2>3. CASE k = Len(queue) + 1
    <3>1. r = s
          BY <1>2, <1>13, <2>3, CallsDiffer
    <3> QED BY <1>12, <2>1, <3>1
  <2> QED BY <1>2, <2>2, <2>3, LengthsAreNat
<1>14. ASSUME NEW i \in 1..Len(uploads'), NEW k \in 1..Len(queue'), NEW r \in Sessions,
              queue'[k] = Store(r)
       PROVE  Before(uploads[i].session, r)'
  <2>1. i \in 1..Len(uploads) /\ uploads[i].session \in Sessions \ {s}
        BY <1>3, <1>8
  <2>2. CASE k \in 1..Len(queue)
    <3>1. queue[k] = Store(r) /\ r # s
          BY <1>2, <1>10, <1>14, <2>2
    <3>2. Before(uploads[i].session, r)
          BY <2>1, <2>2, <3>1 DEF InOrder
    <3>3. /\ Positions(uploads[i].session)' = Positions(uploads[i].session)
          /\ Positions(r)' = Positions(r)
          BY <1>3, <1>5, <2>1, <3>1 DEF Positions
    <3> QED BY <3>2, <3>3 DEF Before
  <2>3. CASE k = Len(queue) + 1
    <3>1. r = s
          BY <1>2, <1>14, <2>3, CallsDiffer
    <3>2. Before(uploads[i].session, s)'
      <4>1. \A q \in Positions(uploads[i].session)' : q < Len(ended) + 1
        <5>1. Positions(uploads[i].session)' = Positions(uploads[i].session)
              BY <1>3, <1>5, <2>1 DEF Positions
        <5> QED BY <5>1, LengthsAreNat DEF Positions
      <4> QED BY <1>5, <4>1 DEF Before
    <3> QED BY <3>1, <3>2
  <2> QED BY <1>2, <2>2, <2>3, LengthsAreNat
<1>15. ASSUME NEW i \in 1..Len(uploads'), NEW k \in 1..Len(uploads'), i < k
       PROVE  Before(uploads[i].session, uploads[k].session)'
  <2>1. Before(uploads[i].session, uploads[k].session)
        BY <1>3, <1>15 DEF InOrder
  <2>2. /\ Positions(uploads[i].session)' = Positions(uploads[i].session)
        /\ Positions(uploads[k].session)' = Positions(uploads[k].session)
        BY <1>3, <1>5, <1>8 DEF Positions
  <2> QED BY <2>1, <2>2 DEF Before
<1> QED BY <1>6, <1>7, <1>9, <1>13, <1>14, <1>15 DEF InOrder

\* What is stored has waited in front of all that still waits, and behind all that is stored.
LEMMA StoreOrder ==
    ASSUME TypeInv, InOrder, [Next]_vars, NEW s \in Sessions, StoreSession(s)
    PROVE  InOrder'
<1>1. /\ Len(queue') \in Nat /\ 1 \in 1..Len(queue) /\ queue[1] = Store(s)
      /\ \A k \in 1..Len(queue') : k + 1 \in 1..Len(queue) /\ queue'[k] = queue[k + 1]
  <2>1. Store(s) \in Calls
        BY CallsDiffer
  <2>2. /\ queue' \in Seq(Calls) /\ Len(queue') = Len(queue) - 1 /\ queue[1] = Store(s)
        /\ \A k \in 1..Len(queue') : k + 1 \in 1..Len(queue) /\ queue'[k] = queue[k + 1]
        BY <2>1, DoneMovesUp DEF StoreSession, TypeInv
  <2> QED BY <2>2, LengthsAreNat, LenProperties
<1>2. /\ Len(uploads') = Len(uploads) + 1
      /\ \A i \in 1..Len(uploads) : uploads'[i] = uploads[i]
      /\ uploads'[Len(uploads) + 1].session = s
  <2> DEFINE upload == [session |-> s, zone |-> session[s].zone, files |-> Spool(Listing(s))]
  <2>1. upload \in Upload
    <3>1. Spool(Listing(s)) \subseteq Files /\ session[s].zone \in Zones \cup {Nobody}
          BY SessionTyped DEF Spool, Session
    <3> QED BY <3>1 DEF Upload
  <2>2. upload.session = s
        OBVIOUS
  <2>3. uploads' = Append(uploads, upload)
        BY DEF StoreSession
  <2> HIDE DEF upload
  <2> QED BY <2>1, <2>2, <2>3, LengthsAreNat, AppendProperties
<1>3. \A q, r : Positions(q)' = Positions(q) /\ (Before(q, r)' <=> Before(q, r))
      BY DEF StoreSession, Positions, Before
<1>4. session'[s].at = "stored" /\ UNCHANGED ended
      BY SessionTyped DEF StoreSession, Session
<1>5. \A i, k \in 1..Len(ended') : ended'[i] = ended'[k] => i = k
      BY <1>4 DEF InOrder
<1>6. /\ \A r \in Sessions : session'[r].at \in Underway => Positions(r)' = {}
      /\ \A i \in 1..Len(uploads') : session'[uploads'[i].session].at \notin Underway
  <2>1. \A r \in Sessions : session'[r].at \in Underway => Positions(r)' = {}
        BY <1>3, StaysEnded DEF InOrder
  <2>2. ASSUME NEW i \in 1..Len(uploads')
        PROVE  session'[uploads'[i].session].at \notin Underway
    <3>1. CASE i = Len(uploads) + 1
          BY <1>2, <1>4, <3>1 DEF Underway
    <3>2. CASE i \in 1..Len(uploads)
      <4>1. uploads'[i].session = uploads[i].session /\ uploads[i].session \in Sessions
            /\ session[uploads[i].session].at \notin Underway
            BY <1>2, <3>2, LengthsAreNat DEF InOrder
      <4> QED BY <4>1, StaysEnded
    <3> QED BY <1>2, <3>1, <3>2, LengthsAreNat
  <2> QED BY <2>1, <2>2
<1>7. ASSUME NEW i \in 1..Len(queue'), NEW k \in 1..Len(queue'), NEW q \in Sessions,
             NEW r \in Sessions, i < k, queue'[i] = Store(q), queue'[k] = Store(r)
      PROVE  Before(q, r)
  <2>1. /\ i + 1 \in 1..Len(queue) /\ queue[i + 1] = Store(q)
        /\ k + 1 \in 1..Len(queue) /\ queue[k + 1] = Store(r)
        /\ i + 1 < k + 1
        BY <1>1, <1>7
  <2> QED BY <2>1 DEF InOrder
<1>8. ASSUME NEW i \in 1..Len(uploads'), NEW k \in 1..Len(queue'), NEW r \in Sessions,
             queue'[k] = Store(r)
      PROVE  Before(uploads'[i].session, r)
  <2>1. k + 1 \in 1..Len(queue) /\ queue[k + 1] = Store(r) /\ 1 < k + 1
        BY <1>1, <1>8
  <2>2. CASE i = Len(uploads) + 1
        BY <1>1, <1>2, <2>1, <2>2 DEF InOrder
  <2>3. CASE i \in 1..Len(uploads)
        BY <1>2, <2>1, <2>3 DEF InOrder
  <2>4. i = Len(uploads) + 1 \/ i \in 1..Len(uploads)
        BY <1>2, LengthsAreNat
  <2> QED BY <2>2, <2>3, <2>4
<1>9. ASSUME NEW i \in 1..Len(uploads'), NEW k \in 1..Len(uploads'), i < k
      PROVE  Before(uploads'[i].session, uploads'[k].session)
  <2>1. i \in 1..Len(uploads)
        BY <1>2, <1>9, LengthsAreNat
  <2>2. CASE k = Len(uploads) + 1
        BY <1>1, <1>2, <2>1, <2>2 DEF InOrder
  <2>3. CASE k \in 1..Len(uploads)
        BY <1>2, <1>9, <2>1, <2>3 DEF InOrder
  <2>4. k = Len(uploads) + 1 \/ k \in 1..Len(uploads)
        BY <1>2, LengthsAreNat
  <2> QED BY <2>2, <2>3, <2>4
<1>10. /\ \A i, k \in 1..Len(queue'), q, r \in Sessions :
             i < k /\ queue'[i] = Store(q) /\ queue'[k] = Store(r) => Before(q, r)'
       /\ \A i \in 1..Len(uploads'), k \in 1..Len(queue'), r \in Sessions :
             queue'[k] = Store(r) => Before(uploads[i].session, r)'
       /\ \A i, k \in 1..Len(uploads') :
             i < k => Before(uploads[i].session, uploads[k].session)'
      BY <1>4, <1>7, <1>8, <1>9 DEF Before, Positions
<1> QED BY <1>5, <1>6, <1>10 DEF InOrder

\* Every step keeps the order of the ends.
LEMMA StepOrder == TypeInv /\ InOrder /\ [Next]_vars => InOrder'
<1> SUFFICES ASSUME TypeInv, InOrder, [Next]_vars PROVE InOrder'
      OBVIOUS
<1>1. Len(queue) \in Nat
      BY LengthsAreNat
<1>2. CASE UNCHANGED <<queue, uploads, ended>>
  <2>1. \A k \in 1..Len(queue'), r \in Sessions :
            queue'[k] = Store(r) => k + 0 \in 1..Len(queue) /\ queue[k + 0] = Store(r)
        BY <1>1, <1>2
  <2> QED BY <1>1, <1>2, <2>1, OrderKept
<1>3. CASE \E c \in Conns, z \in Zones, secret \in Secrets \cup {NoSecret} :
               Present(c, z, secret)
  <2>1. PICK c \in Conns, z \in Zones, secret \in Secrets \cup {NoSecret} :
               Present(c, z, secret)
        BY <1>3
  <2>2. /\ Len(queue') = Len(queue) + 1
        /\ \A k \in 1..Len(queue) : queue'[k] = queue[k]
        /\ queue'[Len(queue) + 1] = Login(c)
        BY <2>1, CallsDiffer, LengthsAreNat, AppendProperties DEF Present
  <2>3. \A k \in 1..Len(queue'), r \in Sessions :
            queue'[k] = Store(r) => k + 0 \in 1..Len(queue) /\ queue[k + 0] = Store(r)
        BY <1>1, <2>2, CallsDiffer
  <2> QED BY <1>1, <2>1, <2>2, <2>3, OrderKept DEF Present
<1>4. CASE Restart
  <2>1. Len(queue') = 0 /\ UNCHANGED <<uploads, ended>>
        BY <1>4 DEF Restart
  <2> QED BY <2>1, OrderKept
<1>5. ASSUME NEW item \in Calls, InHand(item), Done(item), UNCHANGED <<uploads, ended>>
      PROVE  InOrder'
  <2>1. /\ queue' \in Seq(Calls) /\ Len(queue') \in Nat
        /\ \A k \in 1..Len(queue') : k + 1 \in 1..Len(queue) /\ queue'[k] = queue[k + 1]
        BY <1>5, DoneMovesUp, LenProperties DEF TypeInv
  <2> QED BY <1>5, <2>1, OrderKept
<1>6. CASE \E c \in Conns : Check(c)
      BY <1>5, <1>6, CallsDiffer DEF Check
<1>7. CASE \E s \in Sessions : FindNothing(s) \/ StoreFails(s)
      BY <1>5, <1>7, CallsDiffer DEF FindNothing, StoreFails
<1>8. CASE \E s \in Sessions : Exit(s)
      BY <1>8, ExitOrder
<1>9. CASE \E s \in Sessions : StoreSession(s)
      BY <1>9, StoreOrder
<1>10. \/ UNCHANGED <<queue, uploads, ended>>
       \/ \E c \in Conns, z \in Zones, secret \in Secrets \cup {NoSecret} : Present(c, z, secret)
       \/ Restart
       \/ \E c \in Conns : Check(c)
       \/ \E s \in Sessions : FindNothing(s) \/ StoreFails(s) \/ Exit(s) \/ StoreSession(s)
  <2>1. CASE UNCHANGED vars
        BY <2>1 DEF vars
  <2>2. CASE Next
        BY <2>2, NextCases DEF Admit, Reject, AdmitGone, Ends, EndConnection, Open, Put, ClientClose,
           Remove, FileStep, ForceClose, Rename, CloseChannel, ExitBroken, CleanUp, SaveZone,
           DeleteZone
  <2> QED BY <2>1, <2>2
<1> QED BY <1>2, <1>3, <1>4, <1>6, <1>7, <1>8, <1>9, <1>10

\* The uploads of SFTP sessions are stored in the order in which the sessions ended
\* (_finish_session on the one thread of sync_to_async), whatever is dropped, refused or lost
\* between them.
THEOREM StoredInOrder == Spec => []StoredAsEnded
<1>1. Spec => [](TypeInv /\ InOrder)
      BY InitType, InitOrder, StepType, StepOrder, PTL DEF Spec
<1>2. InOrder => StoredAsEnded
      BY DEF InOrder, StoredAsEnded, Before
<1> QED BY <1>1, <1>2, PTL
-----------------------------------------------------------------------------
(* The files of a session.                                                 *)

\* A set of numbers that holds 0, and with each number the next, holds all.
LEMMA AllNumbers ==
    ASSUME NEW P \in SUBSET Nat, 0 \in P, \A n \in P : n + 1 \in P
    PROVE  \A n \in Nat : n \in P
<1> DEFINE T == Nat \ P
<1> SUFFICES ASSUME T # {} PROVE FALSE
      OBVIOUS
<1>1. PICK n \in T : \A m \in T : ~(m < n)
  <2>1. T \subseteq Nat
        OBVIOUS
  <2> HIDE DEF T
  <2>2. \E n \in T : \A m \in T : ~(<<m, n>> \in OpToRel(<, Nat))
        BY <2>1, NatLessThanWellFounded, WFMin
  <2> QED BY <2>1, <2>2 DEF OpToRel
<1>2. n - 1 \in Nat /\ n - 1 < n
      BY <1>1
<1>3. (n - 1) + 1 \in P
      BY <1>1, <1>2
<1> QED BY <1>1, <1>2, <1>3

Letters == UNION {{FileName(f)[k] : k \in 1..Len(FileName(f))} : f \in Files}

\* File names, with any numbers added.
Names == Seq(Letters \cup Nat)

\* The names of files, numbered or not, are among those considered.
LEMMA FilesHaveNames ==
    /\ Paths \in Seq(Files) /\ Len(Paths) \in Nat
    /\ \A i \in 1..Len(Paths) : Paths[i] \in Files
    /\ \A f \in Files : FileName(f) \in Names
<1>1. Paths \in Seq(Files) /\ \A f \in Files : FileName(f) \in Seq(Letters)
      BY SftpAssumption DEF Letters
<1>2. \A name \in Seq(Letters) : name \in Names
      BY DEF Names
<1> QED BY <1>1, <1>2, LenProperties DEF Files

\* Different numbers make different names.
LEMMA NumbersApart ==
    ASSUME NEW name \in Names, NEW n \in Nat
    PROVE  /\ Append(name, n) \in Names
           /\ \A m \in Nat : Append(name, n) = Append(name, m) => n = m
<1>1. \A m \in Nat : /\ Append(name, m) \in Names
                     /\ Len(name) \in Nat /\ Append(name, m)[Len(name) + 1] = m
      BY AppendProperties, LenProperties DEF Names
<1> QED BY <1>1

Free(name, taken, i) == {n \in 1..i : Append(name, n) \notin taken}

NameFor(name, taken, i) ==
    IF name \notin taken THEN name
    ELSE Append(name, CHOOSE n \in Free(name, taken, i) : \A m \in Free(name, taken, i) : n <= m)

\* One suffix more than there are names is enough to find a free one.
LEMMA NameIsFree ==
    ASSUME NEW i \in Nat \ {0}, NEW name \in Names, NEW taken,
           IsFiniteSet(taken), Cardinality(taken) < i
    PROVE  NameFor(name, taken, i) \in Names /\ NameFor(name, taken, i) \notin taken
<1> DEFINE free == Free(name, taken, i)
<1>1. free # {}
  <2> SUFFICES ASSUME free = {} PROVE FALSE
        OBVIOUS
  <2> DEFINE f == [n \in 1..i |-> Append(name, n)]
  <2>1. f \in [1..i -> taken]
        BY DEF Free
  <2>2. IsFiniteSet(1..i) /\ Cardinality(1..i) = i
        BY FS_Interval
  <2>3. \E n, m \in 1..i : n # m /\ f[n] = f[m]
    <3> HIDE DEF f
    <3> QED BY ONLY <2>1, <2>2, FS_PigeonHole, IsFiniteSet(taken), Cardinality(taken) < i
  <2> QED BY <2>3, NumbersApart
<1>2. \E n \in free : \A m \in free : n <= m
  <2>1. free \subseteq Nat
        BY DEF Free
  <2> HIDE DEF free
  <2>2. \E n \in free : \A m \in free : ~(<<m, n>> \in OpToRel(<, Nat))
        BY <1>1, <2>1, NatLessThanWellFounded, WFMin
  <2>3. PICK n \in free : \A m \in free : ~(m < n)
        BY <2>1, <2>2 DEF OpToRel
  <2> QED BY <2>1, <2>3
<1>3. (CHOOSE n \in free : \A m \in free : n <= m) \in free
      BY <1>2
<1> QED BY <1>3, NumbersApart DEF NameFor, Free

\* The recursion of Spooled, a step of it and all of them.
Named(list, i, names) ==
    IF i = 0 THEN <<>>
    ELSE Append(names, NameFor(FileName(list[i]), {names[k] : k \in 1..(i - 1)}, i))

NamedTo(list, n, names) == names = [i \in 0..n |-> Named(list, i, names[i - 1])]

\* The recursion that numbers the files of a list has a solution.
LEMMA NamesExist ==
    ASSUME NEW list, NEW n \in Nat
    PROVE  \E names : NamedTo(list, n, names)
<1> DEFINE P == {m \in Nat : \E names : NamedTo(list, m, names)}
<1>1. 0 \in P
  <2>1. NamedTo(list, 0, [i \in 0..0 |-> <<>>])
        BY DEF NamedTo, Named
  <2> QED BY <2>1
<1>2. ASSUME NEW m \in P PROVE m + 1 \in P
  <2>1. PICK names : NamedTo(list, m, names)
        OBVIOUS
  <2> DEFINE more == [i \in 0..(m + 1) |-> IF i = m + 1 THEN Named(list, m + 1, names[m])
                                           ELSE names[i]]
  <2>2. \A i \in 0..m : more[i] = names[i] /\ names[i] = Named(list, i, names[i - 1])
        BY <2>1 DEF NamedTo
  <2>3. ASSUME NEW i \in 0..(m + 1) PROVE more[i] = Named(list, i, more[i - 1])
    <3>1. CASE i = m + 1
          BY <2>2, <3>1
    <3>2. CASE i \in 1..m
          BY <2>2, <3>2
    <3>3. CASE i = 0
      <4>1. Named(list, 0, names[0 - 1]) = <<>> /\ Named(list, 0, more[0 - 1]) = <<>>
            BY ONLY DEF Named
      <4>2. more[0] = Named(list, 0, names[0 - 1])
            BY ONLY <2>2, m \in Nat
      <4> QED BY <3>3, <4>1, <4>2
    <3> QED BY <3>1, <3>2, <3>3
  <2>4. NamedTo(list, m + 1, more)
    <3>1. more = [i \in 0..(m + 1) |-> more[i]]
          OBVIOUS
    <3> HIDE DEF more
    <3> QED BY <2>3, <3>1 DEF NamedTo
  <2> QED BY <2>4
<1> HIDE DEF P
<1>3. P \in SUBSET Nat
      BY DEF P
<1>4. n \in P
      BY <1>1, <1>2, <1>3, AllNumbers
<1> QED BY <1>4 DEF P
\* _spool gives every file a name, and no two files the same.
LEMMA SpooledApart ==
    ASSUME NEW list \in Seq(Files)
    PROVE  /\ Len(list) \in Nat
           /\ \A i, k \in 1..Len(list) : Spooled(list)[i] = Spooled(list)[k] => i = k
<1> DEFINE len == Len(list)
<1>1. len \in Nat /\ \A i \in 1..len : list[i] \in Files
      BY LenProperties, ElementOfSeq
<1> DEFINE Solves(names) ==
             names = [i \in 0..Len(list) |->
                IF i = 0 THEN <<>>
                ELSE LET name == FileName(list[i])
                         taken == {names[i - 1][k] : k \in 1..(i - 1)}
                         free == {n \in 1..i : Append(name, n) \notin taken}
                     IN Append(names[i - 1],
                               IF name \notin taken THEN name
                               ELSE Append(name, CHOOSE n \in free : \A m \in free : n <= m))]
           all == CHOOSE names : Solves(names)
<1>2. Spooled(list) = all[len]
      BY DEF Spooled
<1>3. \A names : Solves(names) <=> NamedTo(list, len, names)
      BY DEF NamedTo, Named, NameFor, Free
<1> HIDE DEF Solves
<1>4. NamedTo(list, len, all)
  <2>1. \E names : Solves(names)
        BY <1>1, <1>3, NamesExist
  <2>2. Solves(all)
        BY <2>1
  <2> QED BY <1>3, <2>2
<1> HIDE DEF all
<1> DEFINE Apart(n) == /\ all[n] \in Seq(Names) /\ Len(all[n]) = n
                       /\ \A i, k \in 1..n : all[n][i] = all[n][k] => i = k
           P == {n \in Nat : n <= len => Apart(n)}
<1>5. 0 \in P
  <2>1. all[0] = <<>>
        BY <1>1, <1>4 DEF NamedTo, Named
  <2>2. /\ all[0] \in Seq(Names) /\ Len(all[0]) = 0
        /\ \A i \in 1..0 : FALSE
        BY ONLY <2>1, EmptySeq
  <2> QED BY <2>2
<1>6. ASSUME NEW n \in P PROVE n + 1 \in P
  <2> SUFFICES ASSUME n + 1 <= len PROVE Apart(n + 1)
        OBVIOUS
  <2>1. n \in Nat /\ n + 1 \in 0..len /\ Apart(n)
        BY <1>1
  <2> DEFINE taken == {all[n][k] : k \in 1..n}
             next == NameFor(FileName(list[n + 1]), taken, n + 1)
  <2>2. all[n + 1] = Append(all[n], next)
    <3>1. all[n + 1] = Named(list, n + 1, all[(n + 1) - 1])
          BY ONLY <1>4, <2>1 DEF NamedTo
    <3>2. (n + 1) - 1 = n /\ n + 1 # 0
          BY <2>1
    <3> QED BY ONLY <3>1, <3>2 DEF Named
  <2>3. next \in Names /\ next \notin taken
    <3>1. IsFiniteSet(1..n) /\ Cardinality(1..n) = n
      <4>1. n \in Nat
            BY <2>1
      <4> QED BY ONLY <4>1, FS_Interval
    <3> DEFINE at == [k \in 1..n |-> all[n][k]]
    <3>2. IsFiniteSet(taken) /\ Cardinality(taken) <= n
      <4>1. at \in Surjection(1..n, taken)
            BY DEF Surjection
      <4> HIDE DEF at, taken
      <4> QED BY <3>1, <4>1, FS_Surjection
    <3>3. Cardinality(taken) < n + 1
          BY <2>1, <3>2, FS_CardinalityType
    <3>4. FileName(list[n + 1]) \in Names
          BY <1>1, <2>1, FilesHaveNames
    <3> HIDE DEF taken
    <3> QED BY <2>1, <3>2, <3>3, <3>4, NameIsFree
  <2> HIDE DEF next
  <2>4. /\ all[n + 1] \in Seq(Names) /\ Len(all[n + 1]) = n + 1
        /\ \A k \in 1..n : all[n + 1][k] = all[n][k]
        /\ all[n + 1][n + 1] = next
        BY ONLY <2>1, <2>2, <2>3, AppendProperties
  <2>5. \A i, k \in 1..(n + 1) : all[n + 1][i] = all[n + 1][k] => i = k
    <3>1. \A k \in 1..n : all[n][k] # next
          BY <2>3
    <3>2. \A i \in 1..(n + 1) : i \in 1..n \/ i = n + 1
          BY <2>1
    <3> QED BY <2>1, <2>4, <3>1, <3>2
  <2> QED BY <2>4, <2>5
<1>7. len \in P
  <2> HIDE DEF P
  <2>1. P \in SUBSET Nat
        BY DEF P
  <2> QED BY <1>1, <1>5, <1>6, <2>1, AllNumbers
<1>8. Apart(len)
      BY <1>1, <1>7
<1> QED BY <1>1, <1>2, <1>8

\* So what is stored is all of the list, each file as itself.
LEMMA NothingReplaced ==
    ASSUME NEW list \in Seq(Files)
    PROVE  Spool(list) = {list[i] : i \in 1..Len(list)}
<1>1. \A i \in 1..Len(list) : list[i] \in Files
      BY ElementOfSeq
<1>2. \A i \in 1..Len(list) :
          \A k \in (i + 1)..Len(list) : Spooled(list)[k] # Spooled(list)[i]
      BY SpooledApart
<1> QED BY <1>1, <1>2 DEF Spool

\* The recursion of Listing.
Kept(files, i, list) ==
    IF i = 0 THEN <<>>
    ELSE IF files[Paths[i]] = "absent" THEN list
    ELSE Append(list, Paths[i])

KeptTo(files, n, kept) == kept = [i \in 0..n |-> Kept(files, i, kept[i - 1])]

\* The recursion that lists a directory has a solution.
LEMMA KeptExists ==
    ASSUME NEW files, NEW n \in Nat
    PROVE  \E kept : KeptTo(files, n, kept)
<1> DEFINE P == {m \in Nat : \E kept : KeptTo(files, m, kept)}
<1>1. 0 \in P
  <2>1. KeptTo(files, 0, [i \in 0..0 |-> <<>>])
        BY DEF KeptTo, Kept
  <2> QED BY <2>1
<1>2. ASSUME NEW m \in P PROVE m + 1 \in P
  <2>1. PICK kept : KeptTo(files, m, kept)
        OBVIOUS
  <2> DEFINE more == [i \in 0..(m + 1) |-> IF i = m + 1 THEN Kept(files, m + 1, kept[m])
                                           ELSE kept[i]]
  <2>2. \A i \in 0..m : more[i] = kept[i] /\ kept[i] = Kept(files, i, kept[i - 1])
        BY <2>1 DEF KeptTo
  <2>3. ASSUME NEW i \in 0..(m + 1) PROVE more[i] = Kept(files, i, more[i - 1])
    <3>1. CASE i = m + 1
          BY <2>2, <3>1
    <3>2. CASE i \in 1..m
          BY <2>2, <3>2
    <3>3. CASE i = 0
      <4>1. Kept(files, 0, kept[0 - 1]) = <<>> /\ Kept(files, 0, more[0 - 1]) = <<>>
            BY ONLY DEF Kept
      <4>2. more[0] = Kept(files, 0, kept[0 - 1])
            BY ONLY <2>2, m \in Nat
      <4> QED BY <3>3, <4>1, <4>2
    <3> QED BY <3>1, <3>2, <3>3
  <2>4. KeptTo(files, m + 1, more)
    <3>1. more = [i \in 0..(m + 1) |-> more[i]]
          OBVIOUS
    <3> HIDE DEF more
    <3> QED BY <2>3, <3>1 DEF KeptTo
  <2> QED BY <2>4
<1> HIDE DEF P
<1>3. P \in SUBSET Nat
      BY DEF P
<1>4. n \in P
      BY <1>1, <1>2, <1>3, AllNumbers
<1> QED BY <1>4 DEF P

\* _session_files lists what is there, and nothing else.
LEMMA ListingIsAll ==
    ASSUME NEW s
    PROVE  /\ Listing(s) \in Seq(Files)
           /\ {Listing(s)[i] : i \in 1..Len(Listing(s))}
                = {f \in Files : session[s].files[f] # "absent"}
<1> DEFINE len == Len(Paths)
           files == session[s].files
           Solves(kept) ==
             kept = [i \in 0..Len(Paths) |->
                IF i = 0 THEN <<>>
                ELSE IF session[s].files[Paths[i]] = "absent" THEN kept[i - 1]
                ELSE Append(kept[i - 1], Paths[i])]
           all == CHOOSE kept : Solves(kept)
<1>1. len \in Nat /\ \A i \in 1..len : Paths[i] \in Files
      BY FilesHaveNames
<1>2. Listing(s) = all[len]
      BY DEF Listing
<1>3. \A kept : Solves(kept) <=> KeptTo(files, len, kept)
      BY DEF KeptTo, Kept
<1> HIDE DEF Solves
<1>4. KeptTo(files, len, all)
  <2>1. \E kept : Solves(kept)
        BY <1>1, <1>3, KeptExists
  <2>2. Solves(all)
        BY <2>1
  <2> QED BY <1>3, <2>2
<1> HIDE DEF all, files
<1> DEFINE Holds(n) == /\ all[n] \in Seq(Files)
                       /\ {all[n][i] : i \in 1..Len(all[n])}
                            = {Paths[i] : i \in {k \in 1..n : files[Paths[k]] # "absent"}}
           P == {n \in Nat : n <= len => Holds(n)}
<1> HIDE DEF Holds
<1>5. 0 \in P
  <2>1. all[0] = <<>>
        BY <1>1, <1>4 DEF KeptTo, Kept
  <2>2. /\ all[0] \in Seq(Files) /\ Len(all[0]) = 0
        /\ \A i \in 1..0 : FALSE
        BY ONLY <2>1, EmptySeq
  <2>3. Holds(0)
        BY <2>2 DEF Holds
  <2> QED BY <2>3
<1>6. ASSUME NEW n \in P PROVE n + 1 \in P
  <2> SUFFICES ASSUME n + 1 <= len PROVE Holds(n + 1)
        OBVIOUS
  <2>1. n \in Nat /\ n + 1 \in 1..len /\ Holds(n) /\ Paths[n + 1] \in Files
        BY <1>1
  <2> DEFINE before == all[n]
             after == all[n + 1]
  <2>2. all[n + 1] = Kept(files, n + 1, all[n])
    <3>1. all[n + 1] = Kept(files, n + 1, all[(n + 1) - 1])
          BY ONLY <1>4, <2>1 DEF KeptTo
    <3>2. (n + 1) - 1 = n
          BY <2>1
    <3> QED BY ONLY <3>1, <3>2
  <2>3. 1..(n + 1) = 1..n \cup {n + 1}
        BY <2>1
  <2>4. CASE files[Paths[n + 1]] = "absent"
    <3>1. all[n + 1] = all[n]
          BY <2>1, <2>2, <2>4 DEF Kept
    <3>2. {k \in 1..(n + 1) : files[Paths[k]] # "absent"}
            = {k \in 1..n : files[Paths[k]] # "absent"}
          BY <2>3, <2>4
    <3> QED BY <2>1, <3>1, <3>2 DEF Holds
  <2>5. CASE files[Paths[n + 1]] # "absent"
    <3>1. after = Append(before, Paths[n + 1])
          BY <2>1, <2>2, <2>5 DEF Kept
    <3>2. before \in Seq(Files)
          BY <2>1 DEF Holds
    <3> HIDE DEF before, after
    <3>3. /\ after \in Seq(Files) /\ Len(before) \in Nat
          /\ Len(after) = Len(before) + 1
          /\ \A k \in 1..Len(before) : after[k] = before[k]
          /\ after[Len(before) + 1] = Paths[n + 1]
          BY ONLY <2>1, <3>1, <3>2, AppendProperties, LenProperties
    <3>4. {k \in 1..(n + 1) : files[Paths[k]] # "absent"}
            = {k \in 1..n : files[Paths[k]] # "absent"} \cup {n + 1}
          BY <2>3, <2>5
    <3>5. {after[i] : i \in 1..Len(after)}
            = {before[i] : i \in 1..Len(before)} \cup {Paths[n + 1]}
      <4>1. 1..Len(after) = 1..Len(before) \cup {Len(before) + 1}
            BY ONLY <3>3
      <4>2. ASSUME NEW x
            PROVE  (\E i \in 1..Len(after) : x = after[i])
                     <=> (\E i \in 1..Len(before) : x = before[i]) \/ x = Paths[n + 1]
            BY ONLY <3>3, <4>1
      <4> QED BY ONLY <4>2
    <3>6. {Paths[i] : i \in {k \in 1..(n + 1) : files[Paths[k]] # "absent"}}
            = {Paths[i] : i \in {k \in 1..n : files[Paths[k]] # "absent"}} \cup {Paths[n + 1]}
          BY ONLY <3>4
    <3> QED BY <2>1, <3>3, <3>5, <3>6 DEF Holds, before, after
  <2> QED BY <2>4, <2>5
<1>7. len \in P
  <2> HIDE DEF P
  <2>1. P \in SUBSET Nat
        BY DEF P
  <2>2. \A n \in P : n + 1 \in P
        BY <1>6
  <2>3. \A n \in Nat : n \in P
        BY ONLY <1>5, <2>1, <2>2, AllNumbers
  <2> QED BY <1>1, <2>3
<1>8. Holds(len)
      BY <1>1, <1>7
<1>9. {Paths[i] : i \in {k \in 1..len : files[Paths[k]] # "absent"}}
        = {f \in Files : files[f] # "absent"}
      BY DEF Files
<1> QED BY <1>2, <1>8, <1>9 DEF files, Holds
-----------------------------------------------------------------------------
(* An upload is what one client wrote and closed in one session.           *)

\* A session that waits has only files its client has closed.
SealedSession(s) ==
    /\ session[s].at # "new" => ofConn[s] # Nobody
    /\ session[s].at = "waiting" => ~session[s].incomplete
    /\ \A f \in Files :
          /\ session[s].files[f] = "cut" => session[s].incomplete
          /\ session[s].at = "waiting" => session[s].files[f] # "open"

\* And one that is stored waits no more.
Sealed ==
    /\ \A s \in Sessions : SealedSession(s)
    /\ \A i \in 1..Len(uploads) : session[uploads[i].session].at = "stored"

\* No session waits and none is stored.
LEMMA InitSealed == Init => Sealed
<1> SUFFICES ASSUME Init PROVE Sealed
      OBVIOUS
<1>1. Len(uploads) = 0
      BY DEF Init
<1>2. \A s \in Sessions : session[s].at = "new" /\ session[s].files = NoFiles
      BY DEF Init
<1> QED BY <1>1, <1>2 DEF Sealed, SealedSession, NoFiles

\* The session in the thread's hand waits, and its upload becomes the last.
LEMMA InHandWaits ==
    ASSUME TypeInv, NEW s \in Sessions, InHand(Store(s)), Done(Store(s))
    PROVE  session[s].at = "waiting"
<1>1. Store(s) \in Calls
      BY CallsDiffer
<1>2. 1 \in 1..Len(queue) /\ queue[1] = Store(s)
      BY <1>1, DoneMovesUp, LengthsAreNat DEF TypeInv, InHand
<1> QED BY <1>2 DEF TypeInv, TypeOK

\* A store appends one upload and leaves the others alone.
LEMMA StoredIsLast ==
    ASSUME TypeInv, NEW s \in Sessions, StoreSession(s)
    PROVE  /\ Len(uploads') = Len(uploads) + 1
           /\ \A i \in 1..Len(uploads) : uploads'[i] = uploads[i]
           /\ uploads'[Len(uploads) + 1] = [session |-> s, zone |-> session[s].zone,
                                            files |-> Spool(Listing(s))]
<1> DEFINE upload == [session |-> s, zone |-> session[s].zone, files |-> Spool(Listing(s))]
<1>1. upload \in Upload
  <2>1. Spool(Listing(s)) \subseteq Files /\ session[s].zone \in Zones \cup {Nobody}
        BY SessionTyped DEF Spool, Session
  <2> QED BY <2>1 DEF Upload
<1>2. uploads' = Append(uploads, upload)
      BY DEF StoreSession
<1> HIDE DEF upload
<1>3. /\ Len(uploads') = Len(uploads) + 1
      /\ \A i \in 1..Len(uploads) : uploads'[i] = uploads[i]
      /\ uploads'[Len(uploads) + 1] = upload
      BY <1>1, <1>2, LengthsAreNat, AppendProperties
<1> QED BY <1>3 DEF upload

\* A step of one session that stores nothing.
LEMMA OneSealed ==
    ASSUME TypeInv, Sealed, NEW s \in Sessions, UNCHANGED uploads,
           \A r \in Sessions \ {s} : session'[r] = session[r] /\ ofConn'[r] = ofConn[r],
           session[s].at = "stored" => session'[s].at = "stored",
           SealedSession(s)'
    PROVE  Sealed'
<1>1. \A r \in Sessions \ {s} : SealedSession(r)'
      BY DEF Sealed, SealedSession
<1>2. \A i \in 1..Len(uploads) : uploads[i].session \in Sessions
      BY LengthsAreNat
<1> QED BY <1>1, <1>2 DEF Sealed

\* File requests reach open sessions only.
LEMMA FileSealed ==
    ASSUME TypeInv, Sealed, NEW s \in Sessions, NEW f \in Files,
           Put(s, f) \/ ClientClose(s, f) \/ Remove(s, f) \/ ForceClose(s, f)
           \/ (\E g \in Files : Rename(s, f, g))
    PROVE  Sealed'
<1>0. session[s] \in Session /\ SealedSession(s)
      BY SessionTyped DEF Sealed
<1>1. /\ UNCHANGED <<ofConn, uploads>> /\ session[s].at \in {"open", "closing"}
      /\ \A r \in Sessions \ {s} : session'[r] = session[r]
      BY SessionTyped DEF Put, ClientClose, Remove, FileStep, ForceClose, Rename
<1>2. /\ session'[s].at = session[s].at
      /\ \A g \in Files : session'[s].files[g] = "cut" => session'[s].incomplete
  <2>1. ASSUME NEW from, NEW to, to # "cut", FileStep(s, f, from, to)
        PROVE  /\ session'[s].at = session[s].at
               /\ \A g \in Files : session'[s].files[g] = "cut" => session'[s].incomplete
        BY <1>0, <2>1, SessionTyped DEF FileStep, Session, SealedSession
  <2>2. CASE Put(s, f) \/ ClientClose(s, f) \/ Remove(s, f)
        BY <2>1, <2>2 DEF Put, ClientClose, Remove
  <2>3. CASE ForceClose(s, f)
        BY <1>0, <2>3, SessionTyped DEF ForceClose, Session
  <2>4. CASE \E g \in Files : Rename(s, f, g)
    <3>1. PICK g \in Files :
             session' = [session EXCEPT ![s].files[f] = "absent", ![s].files[g] = "whole"]
          BY <2>4 DEF Rename
    <3>2. /\ session'[s].at = session[s].at
          /\ session'[s].incomplete = session[s].incomplete
          /\ session'[s].files
               = [[session[s].files EXCEPT ![f] = "absent"] EXCEPT ![g] = "whole"]
          BY <1>0, <3>1, SessionTyped DEF Session
    <3>3. session[s].files \in [Files -> FileState]
          BY <1>0 DEF Session
    <3> QED BY <1>0, <3>2, <3>3 DEF SealedSession
  <2> QED BY <2>2, <2>3, <2>4
<1>3. SealedSession(s)'
      BY <1>0, <1>1, <1>2 DEF SealedSession
<1> QED BY <1>1, <1>2, <1>3, OneSealed

\* A channel that closes leaves no file open, and marks its session if one was.
LEMMA SessionSealed ==
    ASSUME TypeInv, Sealed, NEW s \in Sessions,
           CloseChannel(s) \/ ExitBroken(s) \/ Exit(s) \/ FindNothing(s)
           \/ StoreFails(s) \/ CleanUp(s) \/ (\E c \in Conns : Open(c, s))
    PROVE  Sealed'
<1>0. session[s] \in Session /\ SealedSession(s)
      BY SessionTyped DEF Sealed
<1>1. /\ UNCHANGED uploads
      /\ \A r \in Sessions \ {s} : session'[r] = session[r] /\ ofConn'[r] = ofConn[r]
      BY SessionTyped DEF CloseChannel, ExitBroken, Exit, FindNothing, StoreFails, CleanUp, Open
<1>2. CASE CloseChannel(s) \/ ExitBroken(s) \/ Exit(s) \/ CleanUp(s)
  <2>1. CASE CloseChannel(s)
    <3>1. session'[s] = [session[s] EXCEPT !.at = "closing"] /\ UNCHANGED ofConn
          /\ session[s].at = "open"
          BY <2>1, SessionTyped DEF CloseChannel
    <3>2. SealedSession(s)'
          BY <1>0, <3>1 DEF SealedSession, Session
    <3> QED BY <1>1, <3>1, <3>2, OneSealed
  <2>2. CASE ExitBroken(s)
    <3>1. session'[s] = [session[s] EXCEPT !.at = "dropped", !.directory = "none",
                                           !.errored = FALSE, !.files = NoFiles]
          /\ UNCHANGED ofConn /\ session[s].at = "closing"
          BY <2>2, SessionTyped DEF ExitBroken
    <3>2. SealedSession(s)'
          BY <1>0, <3>1 DEF SealedSession, Session, NoFiles
    <3> QED BY <1>1, <3>1, <3>2, OneSealed
  <2>3. CASE Exit(s)
    <3>1. session'[s] = [session[s] EXCEPT !.at = "waiting"] /\ UNCHANGED ofConn
          /\ session[s].at = "closing" /\ ~session[s].incomplete
          /\ \A f \in Files : session[s].files[f] # "open"
          BY <2>3, SessionTyped DEF Exit
    <3>2. SealedSession(s)'
          BY <1>0, <3>1 DEF SealedSession, Session
    <3> QED BY <1>1, <3>1, <3>2, OneSealed
  <2>4. CASE CleanUp(s)
    <3>1. session'[s] = [session[s] EXCEPT !.directory = "none", !.files = NoFiles]
          /\ UNCHANGED ofConn /\ session[s].at \in {"stored", "empty", "refused"}
          BY <2>4, SessionTyped DEF CleanUp
    <3>2. SealedSession(s)' /\ session'[s].at = session[s].at
          BY <1>0, <3>1 DEF SealedSession, Session, NoFiles
    <3> QED BY <1>1, <3>2, OneSealed
  <2> QED BY <1>2, <2>1, <2>2, <2>3, <2>4
<1>3. CASE FindNothing(s) \/ StoreFails(s)
  <2>1. /\ UNCHANGED ofConn
        /\ \/ session'[s] = [session[s] EXCEPT !.at = "empty", !.errored = FALSE]
           \/ session'[s] = [session[s] EXCEPT !.at = "refused", !.errored = FALSE]
    <3>1. CASE FindNothing(s)
          BY <3>1, SessionTyped DEF FindNothing
    <3>2. CASE StoreFails(s)
          BY <3>2, SessionTyped DEF StoreFails
    <3> QED BY <1>3, <3>1, <3>2
  <2>2. /\ session'[s].at \in {"empty", "refused"}
        /\ session'[s].incomplete = session[s].incomplete
        /\ session'[s].files = session[s].files
    <3>1. CASE session'[s] = [session[s] EXCEPT !.at = "empty", !.errored = FALSE]
          BY ONLY <1>0, <3>1 DEF Session
    <3>2. CASE session'[s] = [session[s] EXCEPT !.at = "refused", !.errored = FALSE]
          BY ONLY <1>0, <3>2 DEF Session
    <3> QED BY <2>1, <3>1, <3>2
  <2>3. session[s].at = "waiting" /\ SealedSession(s)'
        BY <1>0, <1>3, <2>1, <2>2, InHandWaits DEF SealedSession, FindNothing, StoreFails
  <2> QED BY <1>1, <2>3, OneSealed
<1>4. CASE \E c \in Conns : Open(c, s)
  <2>1. PICK c \in Conns : Open(c, s)
        BY <1>4
  <2>2. /\ session[s].at = "new" /\ ofConn'[s] = c
        /\ session' = [session EXCEPT ![s].at = "open", ![s].zone = identity[c],
                                      ![s].directory = "kept"]
        BY <2>1, SessionTyped DEF Open
  <2>3. /\ session'[s].at = "open" /\ session'[s].incomplete = session[s].incomplete
        /\ session'[s].files = session[s].files
        BY <1>0, <2>2, SessionTyped DEF Session
  <2>4. SealedSession(s)'
        BY <1>0, <2>2, <2>3, NobodyIsNoConn DEF SealedSession
  <2> QED BY <1>1, <2>2, <2>4, OneSealed
<1> QED BY <1>2, <1>3, <1>4

\* The session that was stored waits no more, and none other was.
LEMMA StoreSealed ==
    ASSUME TypeInv, Sealed, NEW s \in Sessions, StoreSession(s)
    PROVE  Sealed'
<1>0. session[s] \in Session /\ SealedSession(s)
      BY SessionTyped DEF Sealed
<1>1. /\ session'[s] = [session[s] EXCEPT !.at = "stored", !.errored = FALSE] /\ UNCHANGED ofConn
      /\ \A r \in Sessions \ {s} : session'[r] = session[r]
      BY SessionTyped DEF StoreSession
<1>2. /\ Len(uploads') = Len(uploads) + 1
      /\ \A i \in 1..Len(uploads) : uploads'[i] = uploads[i]
      /\ uploads'[Len(uploads) + 1].session = s
  <2> DEFINE upload == [session |-> s, zone |-> session[s].zone, files |-> Spool(Listing(s))]
  <2>1. upload.session = s
        OBVIOUS
  <2> HIDE DEF upload
  <2> QED BY <2>1, StoredIsLast DEF upload
<1>3. ASSUME NEW r \in Sessions PROVE SealedSession(r)'
  <2>1. CASE r = s
    <3>1. /\ session'[s].at = "stored" /\ session'[s].incomplete = session[s].incomplete
          /\ session'[s].files = session[s].files
          BY <1>0, <1>1 DEF Session
    <3>2. session[s].at = "waiting"
          BY InHandWaits DEF StoreSession
    <3>3. ofConn'[s] = ofConn[s]
          BY <1>1
    <3> QED BY <1>0, <2>1, <3>1, <3>2, <3>3 DEF SealedSession
  <2>2. CASE r # s
        BY <1>1, <2>2 DEF Sealed, SealedSession
  <2> QED BY <2>1, <2>2
<1>4. session'[s].at = "stored" /\ session[s].at = "waiting"
  <2>1. session[s].at = "waiting"
        BY InHandWaits DEF StoreSession
  <2>2. session'[s].at = "stored"
        BY <1>0, <1>1 DEF Session
  <2> QED BY <2>1, <2>2
<1>5. \A i \in 1..Len(uploads) : session'[uploads[i].session].at = "stored"
      BY <1>1, <1>4, LengthsAreNat DEF Sealed
<1>6. \A i \in 1..Len(uploads') : i = Len(uploads) + 1 \/ i \in 1..Len(uploads)
      BY <1>2, LengthsAreNat
<1> QED BY <1>2, <1>3, <1>4, <1>5, <1>6 DEF Sealed

\* The end of a connection and a restart let no session wait that did not.
LEMMA LoseSealed ==
    ASSUME TypeInv, Sealed, Restart \/ Ends
    PROVE  Sealed'
<1>1. UNCHANGED <<ofConn, uploads>>
      BY DEF Restart, Ends, EndConnection
<1>2. ASSUME NEW s \in Sessions
      PROVE  SealedSession(s)' /\ (session[s].at = "stored" => session'[s].at = "stored")
  <2>0. session[s] \in Session /\ SealedSession(s)
        BY SessionTyped DEF Sealed
  <2>1. CASE Restart
    <3>1. \/ session'[s] = session[s]
          \/ session'[s] = [session[s] EXCEPT
                               !.directory = "orphaned", !.errored = FALSE, !.files = NoFiles,
                               !.at = IF @ \in {"open", "closing", "waiting"} THEN "lost" ELSE @]
          BY <2>1 DEF Restart
    <3>2. CASE session'[s] = session[s]
          BY <1>1, <2>0, <3>2 DEF SealedSession
    <3>3. CASE session'[s] # session[s]
      <4>1. /\ session'[s].files = NoFiles
            /\ session'[s].at = IF session[s].at \in {"open", "closing", "waiting"} THEN "lost"
                                ELSE session[s].at
            BY <2>0, <3>1, <3>3 DEF Session
      <4> QED BY <1>1, <2>0, <4>1 DEF SealedSession, NoFiles
    <3> QED BY <3>2, <3>3
  <2>2. CASE Ends
        BY <1>1, <2>0, <2>2, SessionEnds DEF SealedSession
  <2> QED BY <2>1, <2>2
<1> QED BY <1>1, <1>2, LengthsAreNat DEF Sealed

\* Every step keeps what waits sealed.
LEMMA StepSealed == TypeInv /\ Sealed /\ [Next]_vars => Sealed'
<1> SUFFICES ASSUME TypeInv, Sealed, [Next]_vars PROVE Sealed'
      OBVIOUS
<1>1. CASE UNCHANGED <<session, ofConn, uploads>>
      BY <1>1 DEF Sealed, SealedSession
<1>2. CASE ~UNCHANGED <<session, ofConn, uploads>>
      BY <1>2, NextCases, Elsewhere, FileSealed, SessionSealed, StoreSealed, LoseSealed
<1> QED BY <1>1, <1>2
\* Whatever is stored is, name for name, what the client of one session wrote and closed
\* (_session_files, _spool), for the dropzone it logged in to, and no session is stored twice
\* ("one session becomes one upload", sftp.py): for any number of sessions, of files of one
\* name and of names that look numbered.
THEOREM UploadsAreSessions == Spec => UploadIsTheSession
<1> DEFINE Same ==
      \A i \in (Len(uploads) + 1)..Len(uploads') :
        LET s == uploads'[i].session IN
        /\ uploads'[i].files = Whole(s) /\ Whole(s) # {}
        /\ \A f \in Files : session[s].files[f] \in {"whole", "absent"}
        /\ uploads'[i].zone = conn[ofConn[s]].zone
        /\ \A k \in 1..Len(uploads) : uploads[k].session # s
<1>1. Spec => [](TypeInv /\ LoginsKnown /\ Sealed)
      BY InitType, InitKnown, InitSealed, StepType, StepKnown, StepSealed, PTL DEF Spec
<1>2. TypeInv /\ LoginsKnown /\ Sealed /\ [Next]_vars => [Same]_vars
  <2> SUFFICES ASSUME TypeInv, LoginsKnown, Sealed, [Next]_vars PROVE Same
        OBVIOUS
  <2>1. CASE UNCHANGED uploads
        BY <2>1, LengthsAreNat
  <2>2. CASE \E s \in Sessions : StoreSession(s)
    <3>1. PICK s \in Sessions : StoreSession(s)
          BY <2>2
    <3> DEFINE upload == [session |-> s, zone |-> session[s].zone, files |-> Spool(Listing(s))]
    <3>2. /\ upload.session = s /\ upload.zone = session[s].zone
          /\ upload.files = Spool(Listing(s))
          OBVIOUS
    <3> HIDE DEF upload
    <3>3. Len(uploads') = Len(uploads) + 1 /\ uploads'[Len(uploads) + 1] = upload
          BY <3>1, StoredIsLast DEF upload
    <3>4. \A i \in (Len(uploads) + 1)..Len(uploads') : uploads'[i] = upload
          BY <3>3, LengthsAreNat
    <3>5. session[s].at = "waiting" /\ session[s].files \in [Files -> FileState]
          BY <3>1, InHandWaits, SessionTyped DEF StoreSession, Session
    <3>6. \A f \in Files : session[s].files[f] \in {"whole", "absent"}
          BY <3>5 DEF Sealed, SealedSession, FileState
    <3>7. Spool(Listing(s)) = {f \in Files : session[s].files[f] # "absent"}
          BY ListingIsAll, NothingReplaced
    <3>8. Spool(Listing(s)) = Whole(s)
          BY <3>6, <3>7 DEF Whole
    <3>9. Whole(s) # {}
      <4>1. Listing(s) \in Seq(Files) /\ Listing(s) # <<>>
            BY <3>1, ListingIsAll DEF StoreSession
      <4>2. 1 \in 1..Len(Listing(s))
            BY <4>1, EmptySeq, LenProperties
      <4>3. Listing(s)[1] \in {Listing(s)[i] : i \in 1..Len(Listing(s))}
            BY <4>2
      <4> QED BY <3>7, <3>8, <4>3, ListingIsAll
    <3>10. session[s].zone = conn[ofConn[s]].zone
          BY <3>5 DEF Sealed, SealedSession, LoginsKnown
    <3>11. \A k \in 1..Len(uploads) : uploads[k].session # s
          BY <3>5 DEF Sealed
    <3> QED BY <3>2, <3>4, <3>6, <3>8, <3>9, <3>10, <3>11
  <2>3. UNCHANGED uploads \/ \E s \in Sessions : StoreSession(s)
    <3>1. CASE UNCHANGED vars
          BY <3>1 DEF vars
    <3>2. CASE Next
          BY <3>2, NextCases DEF Restart, Present, Check, Admit, Reject, AdmitGone,
             Ends, EndConnection, Open, Put, ClientClose, Remove, FileStep, ForceClose, Rename,
             CloseChannel, ExitBroken, Exit, FindNothing, StoreFails, CleanUp, SaveZone,
             DeleteZone
    <3> QED BY <3>1, <3>2
  <2> QED BY <2>1, <2>2, <2>3
<1> QED BY <1>1, <1>2, PTL DEF Spec, UploadIsTheSession
================================================================================
