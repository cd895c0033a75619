-------------------------------- MODULE Flight --------------------------------
(***************************************************************************)
(* The Arrow Flight endpoint (crudman/app/dropzones/flight.py): handler    *)
(* threads, the session table under its lock, the throwaway directories    *)
(* and the sweeper thread.                                                 *)
(*                                                                         *)
(* A step is what the code does between two points where another thread    *)
(* can be seen: a block under _lock, the write of one attribute, one       *)
(* operation on the file system.  A client may give a call up at any       *)
(* moment; the thread that serves it runs on and learns of it only where   *)
(* do_put asks is_cancelled.                                               *)
(***************************************************************************)
CONSTANTS
    Tokens,     \* bearer tokens; one token is one upload session
    Threads,    \* the handler threads of the Flight server
    Tables,     \* table names a client puts
    Free,       \* the state of a thread that serves no call
    NoTable,    \* the table of a call that carries none
    NoToken     \* what the sweeper discards when it discards nothing

FileState == {"none", "partial", "whole"}

\* A call in a handler thread: in `listed` what it saw last in the directory, in `late`
\* whether a table of the session was known to be truncated when the call began.
Call == [call : {"put", "commit", "other"}, token : Tokens, table : Tables \cup {NoTable},
         at : {"lookup", "touch", "read", "open", "write", "pop", "check", "probe", "list",
               "store", "discard", "unlink"},
         listed : SUBSET Tables, late : BOOLEAN]

Upload == [by : Threads, late : BOOLEAN,
           tables : UNION {[S -> {"partial", "whole"}] : S \in SUBSET Tables}]

ASSUME FlightAssumption ==
    /\ Free \notin Call
    /\ NoTable \notin Tables
    /\ NoToken \notin Tokens

VARIABLES
    sessions,    \* the keys of _sessions
    stale,       \* sessions whose `touched` is more than the timeout ago
    truncated,   \* sessions whose `truncated` flag is set
    dirs,        \* sessions whose directory exists
    file,        \* the parquet files in it
    thread,      \* the call each handler thread serves
    cancelled,   \* threads whose client has given the call up
    sweeper,     \* the sweeper thread: sessions it has popped, the one it discards
    uploads,     \* what the pipeline stored, by session
    opened,      \* tokens ever minted
    dead,        \* clients that will call no more
    acked,       \* history: tables whose put was answered with success
    confirmed,   \* history: sessions with a commit that was answered with success
    disturbed,   \* history: sessions with a call that was given up or ran out of disk
    caught       \* history: sessions swept while one of their calls was being served

table == <<sessions, stale>>
disk == <<dirs, file>>
calls == <<thread, cancelled>>
client == <<opened, dead>>
history == <<acked, confirmed, disturbed, caught>>
vars == <<table, truncated, disk, calls, sweeper, uploads, client, history>>

Files(t) == {x \in Tables : file[t][x] # "none"}

Asleep == [todo |-> {}, current |-> NoToken, left |-> {}]

Init ==
    /\ sessions = {} /\ stale = {} /\ truncated = {} /\ dirs = {}
    /\ file = [t \in Tokens |-> [x \in Tables |-> "none"]]
    /\ thread = [h \in Threads |-> Free]
    /\ cancelled = {}
    /\ sweeper = Asleep
    /\ uploads = [t \in Tokens |-> {}]
    /\ opened = {} /\ dead = {}
    /\ acked = [t \in Tokens |-> {}]
    /\ confirmed = {} /\ disturbed = {} /\ caught = {}

-----------------------------------------------------------------------------
(* The client.                                                             *)

Serving(t) == {h \in Threads : thread[h] # Free /\ thread[h].token = t}
Live(t) == Serving(t) \ cancelled

\* start_call with Basic credentials: authenticate and _open_session.
OpenSession(t) ==
    /\ t \notin opened
    /\ opened' = opened \cup {t}
    /\ sessions' = sessions \cup {t}
    /\ dirs' = dirs \cup {t}
    /\ UNCHANGED <<stale, truncated, file, calls, sweeper, uploads, dead, history>>

\* A client may send several tables at once, each under its own name, and commits when
\* it waits for no other answer. It may retry a call it gave up.
MayCall(t, call, x) ==
    /\ t \in opened \ dead
    /\ \/ call = "put" /\ x \in Tables \ acked[t]
          /\ \A h \in Live(t) : thread[h].call = "put" /\ thread[h].table # x
       \/ call \in {"commit", "other"} /\ x = NoTable /\ Live(t) = {}

StartCall(t, h, call, x) ==
    /\ thread[h] = Free
    /\ MayCall(t, call, x)
    /\ thread' = [thread EXCEPT ![h] = [call |-> call, token |-> t, table |-> x,
                                        at |-> "lookup", listed |-> {},
                                        late |-> t \in truncated]]
    /\ UNCHANGED <<table, truncated, disk, cancelled, sweeper, uploads, client, history>>

\* A deadline passes, the network breaks or the user interrupts the call.
GiveUp(t, h) ==
    /\ h \in Live(t)
    /\ cancelled' = cancelled \cup {h}
    /\ disturbed' = disturbed \cup {t}
    /\ UNCHANGED <<table, truncated, disk, thread, sweeper, uploads, client, acked,
                   confirmed, caught>>

ClientDies(t) ==
    /\ t \in opened \ dead
    /\ dead' = dead \cup {t}
    /\ cancelled' = cancelled \cup Serving(t)
    /\ disturbed' = IF Live(t) = {} THEN disturbed ELSE disturbed \cup {t}
    /\ UNCHANGED <<table, truncated, disk, thread, sweeper, uploads, opened, acked,
                   confirmed, caught>>

-----------------------------------------------------------------------------
(* A handler thread.                                                       *)

At(h, at) == thread[h] # Free /\ thread[h].at = at
MoveTo(h, at) == thread' = [thread EXCEPT ![h].at = at]

\* A mutant of Finish: the next call of the thread begins as one that was given up.
FinishGivenUp(h) ==
    /\ thread' = [thread EXCEPT ![h] = Free]
    /\ UNCHANGED cancelled

\* The answer or the error goes out.
Finish(h) ==
    /\ thread' = [thread EXCEPT ![h] = Free]
    /\ cancelled' = cancelled \ {h}

\* start_call with a bearer token and _session both ask under the lock; an unknown token
\* is refused by either alike.
Lookup(h) ==
    /\ At(h, "lookup")
    /\ \/ thread[h].token \in sessions /\ MoveTo(h, "touch") /\ UNCHANGED cancelled
       \/ thread[h].token \notin sessions /\ Finish(h)
    /\ UNCHANGED <<table, truncated, disk, sweeper, uploads, client, history>>

\* `touched` is written after the lock is released. An action that is not "commit" ends
\* here with an error.
Touch(h) ==
    /\ At(h, "touch")
    /\ stale' = stale \ {thread[h].token}
    /\ \/ thread[h].call = "put" /\ MoveTo(h, "read") /\ UNCHANGED cancelled
       \/ thread[h].call = "commit" /\ MoveTo(h, "pop") /\ UNCHANGED cancelled
       \/ thread[h].call = "other" /\ Finish(h)
    /\ UNCHANGED <<sessions, truncated, disk, sweeper, uploads, client, history>>

\* do_put: read_all returns, and is_cancelled tells a truncated table from a whole one.
ReadAll(h) ==
    /\ At(h, "read")
    /\ \/ h \in cancelled /\ truncated' = truncated \cup {thread[h].token} /\ Finish(h)
       \/ h \notin cancelled /\ MoveTo(h, "open") /\ UNCHANGED <<truncated, cancelled>>
    /\ UNCHANGED <<table, disk, sweeper, uploads, client, history>>

\* write_table creates the file, which fails when the directory is gone.
WriteOpen(h) ==
    LET c == thread[h] IN
    /\ At(h, "open")
    /\ \/ /\ c.token \in dirs
          /\ file' = [file EXCEPT ![c.token][c.table] = "partial"]
          /\ MoveTo(h, "write")
          /\ UNCHANGED cancelled
       \/ c.token \notin dirs /\ Finish(h) /\ UNCHANGED file
    /\ UNCHANGED <<table, truncated, dirs, sweeper, uploads, client, history>>

\* The rest of write_table; a client that still listens is told. A table written into a
\* file unlinked meanwhile is lost, and the call succeeds all the same.
WriteClose(h) ==
    LET c == thread[h] IN
    /\ At(h, "write")
    /\ file' = IF c.table \in Files(c.token)
               THEN [file EXCEPT ![c.token][c.table] = "whole"] ELSE file
    /\ acked' = IF h \in cancelled THEN acked
                ELSE [acked EXCEPT ![c.token] = @ \cup {c.table}]
    /\ Finish(h)
    /\ UNCHANGED <<table, truncated, dirs, sweeper, uploads, client, confirmed, disturbed,
                   caught>>

\* A full disk ends the call with an error and leaves the partial file where it is.
WriteFails(h) ==
    /\ At(h, "write")
    /\ disturbed' = disturbed \cup {thread[h].token}
    /\ Finish(h)
    /\ UNCHANGED <<table, truncated, disk, sweeper, uploads, client, acked, confirmed,
                   caught>>

\* do_action: the session leaves the table before anything is looked at.
Pop(h) ==
    /\ At(h, "pop")
    /\ sessions' = sessions \ {thread[h].token}
    /\ MoveTo(h, "check")
    /\ UNCHANGED <<stale, truncated, disk, cancelled, sweeper, uploads, client, history>>

\* A mutant of CheckTruncated: the flag is never asked.
CommitTruncated(h) ==
    /\ At(h, "check")
    /\ MoveTo(h, "probe")
    /\ UNCHANGED <<table, truncated, disk, cancelled, sweeper, uploads, client, history>>

CheckTruncated(h) ==
    /\ At(h, "check")
    /\ MoveTo(h, IF thread[h].token \in truncated THEN "discard" ELSE "probe")
    /\ UNCHANGED <<table, truncated, disk, cancelled, sweeper, uploads, client, history>>

\* Mutants of Probe: nothing tells an upload without tables; it is refused outside the
\* try block, with its directory left behind.
CommitEmpty(h) ==
    /\ At(h, "probe")
    /\ MoveTo(h, "list")
    /\ UNCHANGED <<table, truncated, disk, cancelled, sweeper, uploads, client, history>>

RefuseEmpty(h) ==
    /\ At(h, "probe")
    /\ \/ Files(thread[h].token) = {} /\ Finish(h)
       \/ Files(thread[h].token) # {} /\ MoveTo(h, "list") /\ UNCHANGED cancelled
    /\ UNCHANGED <<table, truncated, disk, sweeper, uploads, client, history>>

\* any(iterdir()): an empty or a missing directory is an error.
Probe(h) ==
    /\ At(h, "probe")
    /\ MoveTo(h, IF Files(thread[h].token) = {} THEN "discard" ELSE "list")
    /\ UNCHANGED <<table, truncated, disk, cancelled, sweeper, uploads, client, history>>

\* The second iterdir: only a missing directory is an error now.
List(h) ==
    LET t == thread[h].token IN
    /\ At(h, "list")
    /\ thread' = [thread EXCEPT ![h].listed = Files(t),
                                ![h].at = IF t \in dirs THEN "store" ELSE "discard"]
    /\ UNCHANGED <<table, truncated, disk, cancelled, sweeper, uploads, client, history>>

\* stored_file_count answers for no paths without a look at the pipeline; store_session
\* opens every path before the pipeline takes the files.
Store(h) ==
    LET c == thread[h] IN
    /\ At(h, "store")
    /\ c.listed \subseteq Files(c.token)
    /\ uploads' = IF c.listed = {} THEN uploads
                  ELSE [uploads EXCEPT ![c.token] = @ \cup
                         {[by |-> h, late |-> c.late,
                           tables |-> [x \in c.listed |-> file[c.token][x]]]}]
    /\ confirmed' = confirmed \cup {c.token}
    /\ MoveTo(h, "discard")
    /\ UNCHANGED <<table, truncated, disk, cancelled, sweeper, client, acked, disturbed,
                   caught>>

\* A path is gone, or the checker or converter rejects the files.
StoreRefused(h) ==
    /\ At(h, "store")
    /\ thread[h].listed # {}
    /\ MoveTo(h, "discard")
    /\ UNCHANGED <<table, truncated, disk, cancelled, sweeper, uploads, client, history>>

\* discard: rmtree lists the directory, unlinks what it found and removes the directory,
\* if that is still empty; every error is ignored.
DiscardList(h) ==
    /\ At(h, "discard")
    /\ thread' = [thread EXCEPT ![h].listed = Files(thread[h].token), ![h].at = "unlink"]
    /\ UNCHANGED <<table, truncated, disk, cancelled, sweeper, uploads, client, history>>

DiscardUnlink(h, x) ==
    /\ At(h, "unlink")
    /\ x \in thread[h].listed
    /\ file' = [file EXCEPT ![thread[h].token][x] = "none"]
    /\ thread' = [thread EXCEPT ![h].listed = @ \ {x}]
    /\ UNCHANGED <<table, truncated, dirs, cancelled, sweeper, uploads, client, history>>

DiscardRmdir(h) ==
    LET t == thread[h].token IN
    /\ At(h, "unlink")
    /\ thread[h].listed = {}
    /\ dirs' = IF Files(t) = {} THEN dirs \ {t} ELSE dirs
    /\ Finish(h)
    /\ UNCHANGED <<table, truncated, file, sweeper, uploads, client, history>>

-----------------------------------------------------------------------------
(* The sweeper thread and the process.                                     *)

\* FLIGHT_SESSION_TIMEOUT has passed since `touched` was written.
TimePasses(t) ==
    /\ t \in sessions \ stale
    /\ stale' = stale \cup {t}
    /\ UNCHANGED <<sessions, truncated, disk, calls, sweeper, uploads, client, history>>

\* A mutant of Expired: a truncated session waits for its commit to be refused.
ExpiredWhole == (sessions \cap stale) \ truncated

Expired == sessions \cap stale

\* _sweep under the lock.
SweepPop ==
    /\ sweeper = Asleep
    /\ Expired # {}
    /\ sweeper' = [Asleep EXCEPT !.todo = Expired]
    /\ sessions' = sessions \ Expired
    /\ caught' = caught \cup {t \in Expired : Serving(t) # {}}
    /\ UNCHANGED <<stale, truncated, disk, calls, uploads, client, acked, confirmed,
                   disturbed>>

\* _sweep after the lock: the same rmtree, one session after another.
SweepList(t) ==
    /\ sweeper.current = NoToken
    /\ t \in sweeper.todo
    /\ sweeper' = [todo |-> sweeper.todo \ {t}, current |-> t, left |-> Files(t)]
    /\ UNCHANGED <<table, truncated, disk, calls, uploads, client, history>>

SweepUnlink(x) ==
    /\ sweeper.current # NoToken
    /\ x \in sweeper.left
    /\ file' = [file EXCEPT ![sweeper.current][x] = "none"]
    /\ sweeper' = [sweeper EXCEPT !.left = @ \ {x}]
    /\ UNCHANGED <<table, truncated, dirs, calls, uploads, client, history>>

SweepRmdir ==
    /\ sweeper.current # NoToken
    /\ sweeper.left = {}
    /\ dirs' = IF Files(sweeper.current) = {} THEN dirs \ {sweeper.current} ELSE dirs
    /\ sweeper' = [sweeper EXCEPT !.current = NoToken]
    /\ UNCHANGED <<table, truncated, file, calls, uploads, client, history>>

\* The container is replaced: threads, sessions and directories are gone.
Restart ==
    /\ sessions' = {} /\ stale' = {} /\ truncated' = {} /\ dirs' = {}
    /\ file' = [t \in Tokens |-> [x \in Tables |-> "none"]]
    /\ thread' = [h \in Threads |-> Free]
    /\ cancelled' = {}
    /\ sweeper' = Asleep
    /\ UNCHANGED <<uploads, client, history>>

-----------------------------------------------------------------------------

Handler(h) ==
    \/ Lookup(h) \/ Touch(h) \/ WriteOpen(h) \/ WriteClose(h) \/ WriteFails(h)
    \/ Pop(h) \/ CheckTruncated(h) \/ Probe(h) \/ List(h) \/ Store(h) \/ StoreRefused(h)
    \/ DiscardList(h) \/ DiscardRmdir(h) \/ \E x \in Tables : DiscardUnlink(h, x)

Sweeper ==
    SweepPop \/ SweepRmdir \/ (\E t \in Tokens : SweepList(t)) \/ \E x \in Tables : SweepUnlink(x)

Client(t) ==
    \/ OpenSession(t) \/ ClientDies(t)
    \/ \E h \in Threads : GiveUp(t, h)
    \/ \E h \in Threads, call \in {"put", "commit", "other"}, x \in Tables \cup {NoTable} :
          StartCall(t, h, call, x)

Next ==
    \/ \E t \in Tokens : Client(t) \/ TimePasses(t)
    \/ \E h \in Threads : Handler(h) \/ ReadAll(h)
    \/ Sweeper
    \/ Restart

Spec == Init /\ [][Next]_vars

\* Threads run, time passes and the sweeper comes round again; a client owes the server
\* nothing, and read_all returns only when the stream ends or the call was given up.
Fairness ==
    /\ \A h \in Threads : WF_vars(Handler(h)) /\ WF_vars(h \in cancelled /\ ReadAll(h))
    /\ \A t \in Tokens : WF_vars(TimePasses(t))
    /\ WF_vars(Sweeper)

FairSpec == Spec /\ Fairness

-----------------------------------------------------------------------------
(* Properties.                                                             *)

\* Every variable holds what its part of the server can hold; only a call can be given up.
TypeOK ==
    /\ sessions \subseteq opened /\ stale \subseteq Tokens /\ truncated \subseteq Tokens
    /\ dirs \subseteq opened
    /\ file \in [Tokens -> [Tables -> FileState]]
    /\ thread \in [Threads -> Call \cup {Free}]
    /\ cancelled \subseteq {h \in Threads : thread[h] # Free}
    /\ sweeper \in [todo : SUBSET Tokens, current : Tokens \cup {NoToken}, left : SUBSET Tables]
    /\ uploads \in [Tokens -> SUBSET Upload]
    /\ opened \subseteq Tokens /\ dead \subseteq opened
    /\ acked \in [Tokens -> SUBSET Tables]
    /\ confirmed \subseteq Tokens /\ disturbed \subseteq Tokens /\ caught \subseteq Tokens

\* "One upload spans several DoPut calls and is stored only on an explicit commit"
\* (dropzones/requirements.md:139): for a client that gave no call up and was not swept in
\* the middle of one, there is at most one upload, it holds every table that was
\* acknowledged and no other, each one whole, and a confirmed commit has one.
UndisturbedUploadIsWhole ==
    \A t \in Tokens \ (disturbed \cup caught) :
        /\ \A up \in uploads[t] : up.tables = [x \in acked[t] |-> "whole"]
        /\ \A up, other \in uploads[t] : up = other
        /\ t \in confirmed => uploads[t] # {}

\* "One that saw a table break off mid-transfer refuses to commit" (requirements.md:141):
\* whatever retries and sweeps run beside it, no commit that begins after the flag was set
\* stores anything.
TruncationBlocksCommit ==
    \A t \in Tokens : \A up \in uploads[t] : ~up.late

\* "Each session collects its tables in its own throwaway directory, discarded when the
\* session ends however it ends" (requirements.md:146), for sessions whose calls were not
\* given up or caught by the sweeper: once nobody works on an ended session, its
\* directory is gone, with the tables that were never committed.
EndedLeavesNoDirectory ==
    \A t \in Tokens \ (sessions \cup disturbed \cup caught) :
        Serving(t) = {} /\ t \notin sweeper.todo /\ t # sweeper.current => t \notin dirs

\* The sweeper takes no session while a table of it is being transferred or written: "how
\* long an upload may stay open between calls before it is discarded"
\* (crudman/settings.py:242).
SweepOnlyBetweenCalls ==
    [][SweepPop => \A h \in Threads : thread[h] # Free /\ thread[h].token \in Expired =>
                       thread[h].at \notin {"read", "open", "write"}]_vars

\* A client that dies leaves no session behind: the sweeper comes to every one of them,
\* whatever calls were under way, and keeps none alive for good.
AbandonedIsSwept ==
    \A t \in Tokens : t \in dead ~> t \notin sessions
=============================================================================
