--------------------------------- MODULE Sftp ---------------------------------
(***************************************************************************)
(* The SFTP endpoint (crudman/app/dropzones/sftp.py and endpoint.py).      *)
(*                                                                         *)
(* One asyncio loop serves every connection.  What touches the database,   *)
(* the password check and the storing of a session, is handed to one       *)
(* thread (sync_to_async), which takes it in the order it was handed over, *)
(* while the loop goes on.  A session is the channel of one transfer: it   *)
(* writes into a directory of its own and becomes one upload once its      *)
(* channel is closed, unless asyncssh had to close a file for the client.  *)
(***************************************************************************)
EXTENDS Naturals, FiniteSets, Sequences

CONSTANTS
    Zones,      \* dropzones; a client logs in by the name of one
    Settings,   \* what the admin may save: [method, enabled, secret]
    Secrets,    \* passwords
    NoSecret,   \* the empty secret
    Deleted,    \* the settings of a deleted dropzone
    MaxConns,   \* bounds the connections, numbered as they are made
    MaxSessions,\* bounds the sessions, numbered as they are opened
    Paths,      \* the paths a session may write, in sorted order: <<directory, file name>>
    Nobody      \* no identity

Conns == 1..MaxConns
Sessions == 1..MaxSessions

Files == {Paths[i] : i \in 1..Len(Paths)}
FileName(f) == f[2]

ASSUME SftpAssumption ==
    /\ Settings \subseteq [method : {"sftp", "other"}, enabled : BOOLEAN,
                           secret : Secrets \cup {NoSecret}]
    /\ NoSecret \notin Secrets
    /\ Deleted \notin Settings
    /\ Nobody \notin Zones \cup Nat
    /\ MaxConns \in Nat /\ MaxSessions \in Nat
    /\ Paths \in Seq(Files)
    /\ LET letters == UNION {{FileName(f)[k] : k \in 1..Len(FileName(f))} : f \in Files}
       IN \A f \in Files : FileName(f) \in Seq(letters)

\* A file is cut when asyncssh, not the client, has closed it.
FileState == {"absent", "open", "whole", "cut"}

NoFiles == [f \in Files |-> "absent"]

Conn == [at : {"new", "made", "login", "open", "closed"}, check : {"none", "queued", "granted", "denied"},
         zone : Zones \cup {Nobody}, secret : Secrets \cup {NoSecret}]

Fresh == [at |-> "new", check |-> "none", zone |-> Nobody, secret |-> NoSecret]

\* incomplete is _incomplete; errored is what connection_lost is told and does not ask, until
\* the session is settled.
Session == [at : {"new", "open", "closing", "waiting", "stored", "empty", "refused",
                  "dropped", "lost"},
            zone : Zones \cup {Nobody}, incomplete : BOOLEAN, errored : BOOLEAN,
            directory : {"none", "kept", "orphaned"},
            files : [Files -> FileState]]

VARIABLES
    zone,       \* dropzones_dropzone
    conn,       \* the SSH connections
    identity,   \* _sessions: the dropzone of each authenticated connection
    session,    \* the sessions and their directories
    ofConn,     \* the connection of each session
    queue,      \* what was handed to the thread; it works on the head
    uploads,    \* the uploads stored, in the order of their commits
    ended,      \* history: the sessions handed over, in the order they ended
    accepted    \* history: the credentials an enabled SFTP dropzone has ever had

vars == <<zone, conn, identity, session, ofConn, queue, uploads, ended, accepted>>

Credentials(settings) ==
    {<<z, settings[z].secret>> : z \in {y \in Zones : /\ settings[y] # Deleted
                                                      /\ settings[y].method = "sftp"
                                                      /\ settings[y].enabled}}

\* DropzoneForm.clean: an SFTP dropzone is not saved without a secret.
Saveable(settings) == settings.method = "sftp" => settings.secret # NoSecret

Init ==
    /\ zone \in [Zones -> {s \in Settings : Saveable(s)}]
    /\ conn = [c \in Conns |-> Fresh]
    /\ identity = [c \in Conns |-> Nobody]
    /\ session = [s \in Sessions |-> [at |-> "new", zone |-> Nobody, incomplete |-> FALSE,
                                      errored |-> FALSE, directory |-> "none",
                                      files |-> NoFiles]]
    /\ ofConn = [s \in Sessions |-> Nobody]
    /\ queue = <<>>
    /\ uploads = <<>>
    /\ ended = <<>>
    /\ accepted = Credentials(zone)

-----------------------------------------------------------------------------
(* Logging in.                                                             *)

Login(c) == [kind |-> "login", of |-> c]
Store(s) == [kind |-> "store", of |-> s]

\* validate_password hands the check to the thread; the username names the dropzone.
Present(c, z, secret) ==
    /\ conn[c].at \in {"new", "made"}
    /\ \A d \in 1..(c - 1) : conn[d].at # "new"
    /\ conn' = [conn EXCEPT ![c] = [at |-> "login", check |-> "queued", zone |-> z,
                                    secret |-> secret]]
    /\ queue' = Append(queue, Login(c))
    /\ UNCHANGED <<zone, identity, session, ofConn, uploads, ended, accepted>>

\* secret_matches: an empty secret matches nothing, not even an empty password.
SecretMatches(settings, presented) ==
    settings.secret # NoSecret /\ presented # NoSecret /\ settings.secret = presented

\* A mutant of Authenticates: whether the dropzone is enabled is not asked.
AuthenticatesDisabled(z, secret) ==
    /\ zone[z] # Deleted /\ zone[z].method = "sftp"
    /\ SecretMatches(zone[z], secret)

\* authenticate.
Authenticates(z, secret) ==
    /\ zone[z] # Deleted /\ zone[z].method = "sftp" /\ zone[z].enabled
    /\ SecretMatches(zone[z], secret)

\* A mutant of InHand: a thread for every call.
InHandOfAny(item) == \E i \in 1..Len(queue) : queue[i] = item

\* The thread works on the call that was handed over first.
InHand(item) == queue # <<>> /\ Head(queue) = item

Done(item) ==
    \E i \in 1..Len(queue) :
        queue[i] = item /\ queue' = SubSeq(queue, 1, i - 1) \o SubSeq(queue, i + 1, Len(queue))

\* Of what was refused nothing is kept.
Check(c) ==
    /\ InHand(Login(c))
    /\ Done(Login(c))
    /\ conn' = [conn EXCEPT ![c] = IF Authenticates(conn[c].zone, conn[c].secret)
                                   THEN [conn[c] EXCEPT !.check = "granted"]
                                   ELSE [Fresh EXCEPT !.at = conn[c].at, !.check = "denied"]]
    /\ UNCHANGED <<zone, identity, session, ofConn, uploads, ended, accepted>>

\* Back on the loop. A client that was refused may try again.
Admit(c) ==
    /\ conn[c].at = "login" /\ conn[c].check = "granted"
    /\ conn' = [conn EXCEPT ![c].check = "none", ![c].at = "open"]
    /\ identity' = [identity EXCEPT ![c] = conn[c].zone]
    /\ UNCHANGED <<zone, session, ofConn, queue, uploads, ended, accepted>>

Reject(c) ==
    /\ conn[c].at = "login" /\ conn[c].check = "denied"
    /\ conn' = [conn EXCEPT ![c] = [Fresh EXCEPT !.at = "made"]]
    /\ UNCHANGED <<zone, identity, session, ofConn, queue, uploads, ended, accepted>>

\* The connection went while its password was being checked. The identity is written all
\* the same, after connection_lost has removed what there was.
AdmitGone(c) ==
    /\ conn[c].at = "closed" /\ conn[c].check \in {"granted", "denied"}
    /\ conn' = [conn EXCEPT ![c] = [Fresh EXCEPT !.at = "closed"]]
    /\ identity' = [identity EXCEPT ![c] = IF conn[c].check = "granted" THEN conn[c].zone ELSE @]
    /\ UNCHANGED <<zone, session, ofConn, queue, uploads, ended, accepted>>

-----------------------------------------------------------------------------
(* The session.                                                            *)

\* SessionSFTPServer.__init__.
Open(c, s) ==
    /\ conn[c].at = "open"
    /\ session[s].at = "new" /\ \A r \in 1..(s - 1) : session[r].at # "new"
    /\ session' = [session EXCEPT ![s].at = "open", ![s].zone = identity[c],
                                  ![s].directory = "kept"]
    /\ ofConn' = [ofConn EXCEPT ![s] = c]
    /\ UNCHANGED <<zone, conn, identity, queue, uploads, ended, accepted>>

\* What the client's file requests do to the directory.
FileStep(s, f, from, to) ==
    /\ session[s].at = "open"
    /\ session[s].files[f] \in from
    /\ session' = [session EXCEPT ![s].files[f] = to]
    /\ UNCHANGED <<zone, conn, identity, ofConn, queue, uploads, ended, accepted>>

Put(s, f) == FileStep(s, f, {"absent", "whole"}, "open")

\* A mutant of ClientClose: every close is taken for one of asyncssh's.
ClientCloseBreaks(s, f) ==
    /\ session[s].at = "open"
    /\ session[s].files[f] = "open"
    /\ session' = [session EXCEPT ![s].files[f] = "whole", ![s].incomplete = TRUE]
    /\ UNCHANGED <<zone, conn, identity, ofConn, queue, uploads, ended, accepted>>

\* close while the channel is open.
ClientClose(s, f) == FileStep(s, f, {"open"}, "whole")

Remove(s, f) == FileStep(s, f, {"whole"}, "absent")

\* An upload under a temporary name, renamed once it is there.
Rename(s, f, g) ==
    /\ session[s].at = "open"
    /\ session[s].files[f] = "whole" /\ session[s].files[g] = "absent"
    /\ session' = [session EXCEPT ![s].files[f] = "absent", ![s].files[g] = "whole"]
    /\ UNCHANGED <<zone, conn, identity, ofConn, queue, uploads, ended, accepted>>

\* The client closes the channel, whatever it has open.
CloseChannel(s) ==
    /\ session[s].at = "open"
    /\ session' = [session EXCEPT ![s].at = "closing"]
    /\ UNCHANGED <<zone, conn, identity, ofConn, queue, uploads, ended, accepted>>

\* The connection ends, and every channel with it.
EndConnection(c, errored) ==
    /\ conn[c].at \in {"made", "login", "open"}
    /\ conn' = [conn EXCEPT ![c].at = "closed"]
    /\ identity' = [identity EXCEPT ![c] = Nobody]
    /\ session' = [s \in Sessions |-> IF ofConn[s] = c /\ session[s].at = "open"
                                      THEN [session[s] EXCEPT !.at = "closing", !.errored = errored]
                                      ELSE session[s]]
    /\ UNCHANGED <<zone, ofConn, queue, uploads, ended, accepted>>

\* The client disconnects, or its socket is lost. connection_lost does not look at exc, and
\* exit cannot tell the two apart.
Disconnect(c) == EndConnection(c, FALSE)
LoseConnection(c) == EndConnection(c, TRUE)

\* A mutant of ForceClose: a file asyncssh closes is taken for one the client closed.
ForceCloseSilently(s, f) ==
    /\ session[s].at = "closing"
    /\ session[s].files[f] = "open"
    /\ session' = [session EXCEPT ![s].files[f] = "cut"]
    /\ UNCHANGED <<zone, conn, identity, ofConn, queue, uploads, ended, accepted>>

\* close while the channel is closing.
ForceClose(s, f) ==
    /\ session[s].at = "closing"
    /\ session[s].files[f] = "open"
    /\ session' = [session EXCEPT ![s].files[f] = "cut", ![s].incomplete = TRUE]
    /\ UNCHANGED <<zone, conn, identity, ofConn, queue, uploads, ended, accepted>>

\* exit, once every file is closed. A broken session is removed where it is.
ExitBroken(s) ==
    /\ session[s].at = "closing"
    /\ \A f \in Files : session[s].files[f] # "open"
    /\ session[s].incomplete
    /\ session' = [session EXCEPT ![s].at = "dropped", ![s].directory = "none",
                                  ![s].errored = FALSE, ![s].files = NoFiles]
    /\ UNCHANGED <<zone, conn, identity, ofConn, queue, uploads, ended, accepted>>

\* A mutant of Exit: the session is handed over as often as exit is called.
ExitAgain(s) ==
    /\ session[s].at = "closing"
    /\ \A f \in Files : session[s].files[f] # "open"
    /\ ~session[s].incomplete
    /\ queue' = Append(queue, Store(s))
    /\ ended' = Append(ended, s)
    /\ UNCHANGED <<zone, conn, identity, session, ofConn, uploads, accepted>>

Exit(s) ==
    /\ session[s].at = "closing"
    /\ \A f \in Files : session[s].files[f] # "open"
    /\ ~session[s].incomplete
    /\ session' = [session EXCEPT ![s].at = "waiting"]
    /\ queue' = Append(queue, Store(s))
    /\ ended' = Append(ended, s)
    /\ UNCHANGED <<zone, conn, identity, ofConn, uploads, accepted>>

-----------------------------------------------------------------------------
(* Storing a finished session.                                             *)

\* _session_files: what the directory holds, sorted.
Listing(s) ==
    LET kept[i \in 0..Len(Paths)] ==
            IF i = 0 THEN <<>>
            ELSE IF session[s].files[Paths[i]] = "absent" THEN kept[i - 1]
            ELSE Append(kept[i - 1], Paths[i])
    IN kept[Len(Paths)]

\* A mutant of Spooled: the bare names are used as they are.
SpooledFlat(list) == [i \in 1..Len(list) |-> FileName(list[i])]

\* _spool drops the directories, and tells files of one name apart by the first free suffix.
Spooled(list) ==
    LET names[i \in 0..Len(list)] ==
            IF i = 0 THEN <<>>
            ELSE LET name == FileName(list[i])
                     taken == {names[i - 1][k] : k \in 1..(i - 1)}
                     free == {n \in 1..i : Append(name, n) \notin taken}
                 IN Append(names[i - 1],
                           IF name \notin taken THEN name
                           ELSE Append(name, CHOOSE n \in free : \A m \in free : n <= m))
    IN names[Len(list)]

\* The files that are there once all have been written: a later one replaces an earlier one
\* of the same name.
Spool(list) ==
    {f \in Files : \E i \in 1..Len(list) :
        list[i] = f /\ \A k \in (i + 1)..Len(list) : Spooled(list)[k] # Spooled(list)[i]}

\* _store_session_files lists on the thread; a session without files ends there.
FindNothing(s) ==
    /\ InHand(Store(s))
    /\ Listing(s) = <<>>
    /\ session' = [session EXCEPT ![s].at = "empty", ![s].errored = FALSE]
    /\ Done(Store(s))
    /\ UNCHANGED <<zone, conn, identity, ofConn, uploads, ended, accepted>>

\* store_session and process_upload: the upload appears in one step (see Stored).
StoreSession(s) ==
    /\ InHand(Store(s))
    /\ Listing(s) # <<>>
    /\ zone[session[s].zone] # Deleted
    /\ uploads' = Append(uploads, [session |-> s, zone |-> session[s].zone,
                                   files |-> Spool(Listing(s))])
    /\ session' = [session EXCEPT ![s].at = "stored", ![s].errored = FALSE]
    /\ Done(Store(s))
    /\ UNCHANGED <<zone, conn, identity, ofConn, ended, accepted>>

\* The checker or converter rejects the files, the disk is full, the dropzone no longer
\* exists: the client is gone, and nobody but the log is told.
StoreFails(s) ==
    /\ InHand(Store(s))
    /\ Listing(s) # <<>>
    /\ session' = [session EXCEPT ![s].at = "refused", ![s].errored = FALSE]
    /\ Done(Store(s))
    /\ UNCHANGED <<zone, conn, identity, ofConn, uploads, ended, accepted>>

\* A mutant of CleanUp: only what was stored is removed.
CleanUpStored(s) ==
    /\ session[s].at = "stored"
    /\ session[s].directory = "kept"
    /\ session' = [session EXCEPT ![s].directory = "none",
                                  ![s].files = NoFiles]
    /\ UNCHANGED <<zone, conn, identity, ofConn, queue, uploads, ended, accepted>>

\* The finally of _finish_session, back on the loop.
CleanUp(s) ==
    /\ session[s].at \in {"stored", "empty", "refused"}
    /\ session[s].directory = "kept"
    /\ session' = [session EXCEPT ![s].directory = "none",
                                  ![s].files = NoFiles]
    /\ UNCHANGED <<zone, conn, identity, ofConn, queue, uploads, ended, accepted>>

\* The process is killed: what it knew is gone, what it wrote is not.
Restart ==
    /\ conn' = [c \in Conns |-> IF conn[c].at = "new" THEN conn[c]
                                ELSE [conn[c] EXCEPT !.at = "closed", !.check = "none"]]
    /\ identity' = [c \in Conns |-> Nobody]
    /\ session' = [s \in Sessions |->
                      IF session[s].directory = "kept"
                      THEN [session[s] EXCEPT
                               !.directory = "orphaned", !.errored = FALSE, !.files = NoFiles,
                               !.at = IF @ \in {"open", "closing", "waiting"}
                                      THEN "lost" ELSE @]
                      ELSE session[s]]
    /\ queue' = <<>>
    /\ UNCHANGED <<zone, ofConn, uploads, ended, accepted>>

-----------------------------------------------------------------------------
(* The dropzone page of the admin.                                         *)

SaveZone(z, settings) ==
    /\ zone[z] # Deleted /\ Saveable(settings)
    /\ zone' = [zone EXCEPT ![z] = settings]
    /\ accepted' = accepted \cup Credentials(zone')
    /\ UNCHANGED <<conn, identity, session, ofConn, queue, uploads, ended>>

\* Upload.dropzone is PROTECT.
DeleteZone(z) ==
    /\ \A i \in 1..Len(uploads) : uploads[i].zone # z
    /\ zone' = [zone EXCEPT ![z] = Deleted]
    /\ UNCHANGED <<conn, identity, session, ofConn, queue, uploads, ended, accepted>>

-----------------------------------------------------------------------------

Thread ==
    \/ \E c \in Conns : Check(c)
    \/ \E s \in Sessions : FindNothing(s) \/ StoreSession(s) \/ StoreFails(s)

\* What the loop does by itself with the sessions whose channel is closed.
Loop ==
    \/ \E s \in Sessions, f \in Files : ForceClose(s, f)
    \/ \E s \in Sessions : ExitBroken(s) \/ Exit(s) \/ CleanUp(s)

Client ==
    \/ \E c \in Conns, z \in Zones, secret \in Secrets \cup {NoSecret} : Present(c, z, secret)
    \/ \E c \in Conns : Disconnect(c) \/ LoseConnection(c)
    \/ \E c \in Conns, s \in Sessions : Open(c, s)
    \/ \E s \in Sessions, f \in Files : Put(s, f) \/ ClientClose(s, f) \/ Remove(s, f)
    \/ \E s \in Sessions, f, g \in Files : Rename(s, f, g)
    \/ \E s \in Sessions : CloseChannel(s)

Next ==
    \/ Client \/ Thread \/ Restart
    \/ \E c \in Conns : Admit(c) \/ Reject(c) \/ AdmitGone(c)
    \/ Loop
    \/ \E z \in Zones, settings \in Settings : SaveZone(z, settings)
    \/ \E z \in Zones : DeleteZone(z)

Spec == Init /\ [][Next]_vars

\* The thread takes what it is handed, and the loop runs what is ready. Nothing makes a
\* client go on, an admin save or the process die.
Fairness == WF_vars(Thread) /\ WF_vars(Loop)

FairSpec == Spec /\ Fairness

-----------------------------------------------------------------------------
(* Properties.                                                             *)

Calls == {Login(c) : c \in Conns} \cup {Store(s) : s \in Sessions}

Upload == [session : Sessions, zone : Zones \cup {Nobody}, files : SUBSET Files]

\* Every variable holds what its table, its Python object or the directory can hold, and what
\* waits for the thread is waiting once.
TypeOK ==
    /\ zone \in [Zones -> Settings \cup {Deleted}]
    /\ conn \in [Conns -> Conn]
    /\ identity \in [Conns -> Zones \cup {Nobody}]
    /\ session \in [Sessions -> Session]
    /\ ofConn \in [Sessions -> Conns \cup {Nobody}]
    /\ queue \in Seq(Calls)
    /\ \A i \in 1..Len(queue) :
          /\ \A c \in Conns : queue[i] = Login(c) => conn[c].check = "queued"
          /\ \A s \in Sessions : queue[i] = Store(s) => session[s].at = "waiting"
          /\ \A k \in 1..Len(queue) : queue[k] = queue[i] => k = i
    /\ uploads \in Seq(Upload)
    /\ ended \in Seq(Sessions)
    /\ accepted \subseteq Zones \X Secrets

Positions(s) == {i \in 1..Len(ended) : ended[i] = s}

Whole(s) == {f \in Files : session[s].files[f] = "whole"}

\* "One session becomes one upload, and a session that breaks off mid-file stores nothing"
\* (sftp.py:5-6): an upload is exactly the files one client wrote and closed in one session,
\* however many share a name, it goes to the dropzone that client logged in to, and no
\* session makes two.
UploadIsTheSession ==
    [][\A i \in (Len(uploads) + 1)..Len(uploads') :
        LET s == uploads'[i].session IN
        /\ uploads'[i].files = Whole(s) /\ Whole(s) # {}
        /\ \A f \in Files : session[s].files[f] \in {"whole", "absent"}
        /\ uploads'[i].zone = conn[ofConn[s]].zone
        /\ \A k \in 1..Len(uploads) : uploads[k].session # s]_vars

\* "One cleanly disconnected session becomes one upload" (dropzones/requirements.md:114): a
\* session whose client closed the channel or disconnected is dropped only for a file that
\* client had not finished, whatever else became of its files before.
OnlyCutIsDropped ==
    [][\A s \in Sessions :
        session[s].at # "dropped" /\ session'[s].at = "dropped" /\ ~session[s].errored =>
            \E f \in Files : session[s].files[f] = "cut"]_vars

\* "A session that ends in a connection error stores nothing, like an aborted POST"
\* (dropzones/requirements.md:116-117).
ErroredStoresNothing ==
    [][\A i \in (Len(uploads) + 1)..Len(uploads') :
        ~session[uploads'[i].session].errored]_vars

\* Sessions are stored in the order in which they ended, whatever else the thread is asked:
\* of two transfers the later one is the newest upload and decides what is valid.
StoredAsEnded ==
    \A i, k \in 1..Len(uploads) : i < k =>
        \A p \in Positions(uploads[i].session), q \in Positions(uploads[k].session) : p < q

\* A session belongs to a dropzone that was enabled for SFTP with the password the client
\* gave, at some moment; a dropzone without a secret never was.
OnlyWithCredentials ==
    \A s \in Sessions : ofConn[s] # Nobody =>
        /\ <<session[s].zone, conn[ofConn[s]].secret>> \in accepted
        /\ conn[ofConn[s]].secret # NoSecret

\* A session whose channel closes is stored, refused or dropped and its directory removed,
\* unless the process is killed first. There being only so many sessions, this is to say
\* that again and again no directory is kept but those of open sessions.
ClosedIsSettled ==
    []<>(\A s \in Sessions : session[s].directory = "kept" => session[s].at = "open")

=============================================================================
