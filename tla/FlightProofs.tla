----------------------------- MODULE FlightProofs -----------------------------
(***************************************************************************)
(* What holds of the Flight endpoint for every set of clients, handler     *)
(* threads and tables.                                                     *)
(***************************************************************************)
EXTENDS Flight, TLAPS

-----------------------------------------------------------------------------
(* Types.                                                                  *)

\* Only a put reads and writes, and a put has a table.
PutsHaveTables ==
    \A h \in Threads : thread[h] # Free =>
        /\ thread[h].call = "put" => thread[h].table \in Tables
        /\ thread[h].at \in {"read", "open", "write"} => thread[h].call = "put"

Typed == TypeOK /\ PutsHaveTables

\* What Typed says of the handler threads.
CallsTyped ==
    /\ thread \in [Threads -> Call \cup {Free}]
    /\ cancelled \subseteq {h \in Threads : thread[h] # Free}
    /\ PutsHaveTables

\* The call a thread serves is a call.
LEMMA CallOf ==
    ASSUME CallsTyped, NEW h \in Threads, thread[h] # Free
    PROVE  thread[h] \in Call
  BY DEF CallsTyped

\* A thread that moves on stays with its call; it reads and writes only for a put.
LEMMA MoveTypes ==
    ASSUME CallsTyped, NEW h \in Threads, NEW c \in Call,
           thread[h] # Free, thread' = [thread EXCEPT ![h] = c], cancelled' = cancelled,
           c.call = thread[h].call, c.table = thread[h].table,
           c.at \in {"read", "open", "write"} => c.call = "put"
    PROVE  CallsTyped'
<1>1. c # Free
  BY FlightAssumption
<1>2. \A g \in Threads : thread'[g] = IF g = h THEN c ELSE thread[g]
  BY DEF CallsTyped
<1>3. thread' \in [Threads -> Call \cup {Free}]
  BY DEF CallsTyped
<1>4. cancelled' \subseteq {g \in Threads : thread'[g] # Free}
  BY <1>1, <1>2 DEF CallsTyped
<1>5. PutsHaveTables'
  BY <1>2 DEF CallsTyped, PutsHaveTables
<1> QED BY <1>3, <1>4, <1>5 DEF CallsTyped

\* A thread that has answered is free, and nobody's call is given up in its place.
LEMMA FinishTypes ==
    ASSUME CallsTyped, NEW h \in Threads, Finish(h)
    PROVE  CallsTyped'
<1>1. \A g \in Threads : thread'[g] = IF g = h THEN Free ELSE thread[g]
  BY DEF CallsTyped, Finish
<1>2. thread' \in [Threads -> Call \cup {Free}]
  BY DEF CallsTyped, Finish
<1>3. cancelled' \subseteq {g \in Threads : thread'[g] # Free}
  BY <1>1 DEF CallsTyped, Finish
<1>4. PutsHaveTables'
  BY <1>1 DEF CallsTyped, PutsHaveTables
<1> QED BY <1>2, <1>3, <1>4 DEF CallsTyped

\* A thread that goes on to another place of its handler keeps its call.
LEMMA MoveToTypes ==
    ASSUME CallsTyped, NEW h \in Threads, thread[h] # Free,
           NEW at \in {"touch", "read", "open", "write", "pop", "check", "probe", "list",
                       "store", "discard", "unlink"},
           MoveTo(h, at), cancelled' = cancelled,
           at \in {"read", "open", "write"} => thread[h].call = "put"
    PROVE  CallsTyped'
<1>1. thread[h] \in Call
  BY CallOf
<1> DEFINE c == [thread[h] EXCEPT !.at = at]
<1>2. c \in Call /\ c.call = thread[h].call /\ c.table = thread[h].table /\ c.at = at
  BY <1>1 DEF Call
<1>3. thread' = [thread EXCEPT ![h] = c]
  BY DEF MoveTo
<1> HIDE DEF c
<1> QED BY <1>2, <1>3, MoveTypes

\* A thread that looks at the directory notes what it sees.
LEMMA ListTypes ==
    ASSUME CallsTyped, NEW h \in Threads, thread[h] # Free, NEW seen \in SUBSET Tables,
           NEW at \in {"store", "discard", "unlink"},
           thread' = [thread EXCEPT ![h].listed = seen, ![h].at = at], cancelled' = cancelled
    PROVE  CallsTyped'
<1>1. thread[h] \in Call
  BY CallOf
<1> DEFINE c == [[thread[h] EXCEPT !.listed = seen] EXCEPT !.at = at]
<1>2. c \in Call /\ c.call = thread[h].call /\ c.table = thread[h].table /\ c.at = at
  BY <1>1 DEF Call
<1>3. thread' = [thread EXCEPT ![h] = c]
  BY DEF CallsTyped
<1> HIDE DEF c
<1> QED BY <1>2, <1>3, MoveTypes

\* What Typed says of everything else.
RestTyped ==
    /\ sessions \subseteq opened /\ stale \subseteq Tokens /\ truncated \subseteq Tokens
    /\ dirs \subseteq opened
    /\ file \in [Tokens -> [Tables -> FileState]]
    /\ sweeper \in [todo : SUBSET Tokens, current : Tokens \cup {NoToken}, left : SUBSET Tables]
    /\ uploads \in [Tokens -> SUBSET Upload]
    /\ opened \subseteq Tokens /\ dead \subseteq opened
    /\ acked \in [Tokens -> SUBSET Tables]
    /\ confirmed \subseteq Tokens /\ disturbed \subseteq Tokens /\ caught \subseteq Tokens

\* The two halves are the whole.
LEMMA TypedHalves == Typed <=> CallsTyped /\ RestTyped
  BY DEF Typed, TypeOK, CallsTyped, RestTyped

\* So they are after a step.
LEMMA TypedHalvesAfter == CallsTyped' /\ RestTyped' => Typed'
  BY DEF Typed, TypeOK, CallsTyped, RestTyped

\* No session, call or upload exists at first.
LEMMA TypedInit == Init => Typed
  BY FlightAssumption DEF Init, Typed, TypeOK, PutsHaveTables, Asleep, FileState

\* What a handler does keeps the threads typed.
LEMMA HandlerCalls ==
    ASSUME Typed, NEW h \in Threads, Handler(h) \/ ReadAll(h)
    PROVE  CallsTyped'
<1>0. CallsTyped
  BY TypedHalves
<1>1. CASE Lookup(h)
  BY <1>0, <1>1, MoveToTypes, FinishTypes DEF Lookup, At
<1>2. CASE Touch(h)
  BY <1>0, <1>2, MoveToTypes, FinishTypes DEF Touch, At
<1>3. CASE WriteOpen(h)
  BY <1>0, <1>3, MoveToTypes, FinishTypes DEF WriteOpen, At, CallsTyped, PutsHaveTables
<1>4. CASE WriteClose(h)
  BY <1>0, <1>4, FinishTypes DEF WriteClose, At
<1>5. CASE WriteFails(h)
  BY <1>0, <1>5, FinishTypes DEF WriteFails, At
<1>6. CASE Pop(h)
  BY <1>0, <1>6, MoveToTypes DEF Pop, At
<1>7. CASE CheckTruncated(h)
  BY <1>0, <1>7, MoveToTypes DEF CheckTruncated, At
<1>8. CASE Probe(h)
  BY <1>0, <1>8, MoveToTypes DEF Probe, At
<1>9. CASE List(h)
  BY <1>0, <1>9, ListTypes DEF List, At, Files
<1>10. CASE Store(h)
  BY <1>0, <1>10, MoveToTypes DEF Store, At
<1>11. CASE StoreRefused(h)
  BY <1>0, <1>11, MoveToTypes DEF StoreRefused, At
<1>12. CASE DiscardList(h)
  BY <1>0, <1>12, ListTypes DEF DiscardList, At, Files
<1>13. CASE DiscardRmdir(h)
  BY <1>0, <1>13, FinishTypes DEF DiscardRmdir, At
<1>14. ASSUME NEW x \in Tables, DiscardUnlink(h, x) PROVE CallsTyped'
  <2>1. thread[h] \in Call /\ thread[h] # Free
    BY <1>0, <1>14, CallOf DEF DiscardUnlink, At
  <2> DEFINE c == [thread[h] EXCEPT !.listed = @ \ {x}]
  <2>2. c \in Call /\ c.call = thread[h].call /\ c.table = thread[h].table /\ c.at = "unlink"
    BY <1>14, <2>1 DEF Call, DiscardUnlink, At
  <2>3. thread' = [thread EXCEPT ![h] = c] /\ cancelled' = cancelled
    BY <1>14 DEF DiscardUnlink
  <2> HIDE DEF c
  <2> QED BY <1>0, <2>1, <2>2, <2>3, MoveTypes
<1>15. CASE ReadAll(h)
  BY <1>0, <1>15, MoveToTypes, FinishTypes DEF ReadAll, At, CallsTyped, PutsHaveTables
<1> QED BY <1>1, <1>2, <1>3, <1>4, <1>5, <1>6, <1>7, <1>8, <1>9, <1>10, <1>11, <1>12,
           <1>13, <1>14, <1>15 DEF Handler

\* What a handler does keeps the table, the volume and the pipeline typed.
LEMMA HandlerRest ==
    ASSUME Typed, NEW h \in Threads, Handler(h) \/ ReadAll(h)
    PROVE  RestTyped'
<1>0. CallsTyped /\ RestTyped /\ (thread[h] # Free => thread[h] \in Call)
  BY TypedHalves, CallOf
<1> DEFINE t == thread[h].token
<1>1. CASE Lookup(h)
  BY <1>0, <1>1 DEF Lookup, RestTyped, table, disk, client, history
<1>2. CASE Touch(h)
  BY <1>0, <1>2 DEF Touch, RestTyped, disk, client, history
<1>3. CASE WriteOpen(h)
  BY <1>0, <1>3 DEF WriteOpen, RestTyped, FileState, table, client, history
<1>4. CASE WriteClose(h)
  <2>1. thread[h] \in Call /\ thread[h].table \in Tables
    BY <1>0, <1>4 DEF WriteClose, At, CallsTyped, PutsHaveTables
  <2>2. file' \in [Tokens -> [Tables -> FileState]]
    BY <1>0, <1>4 DEF WriteClose, RestTyped, FileState
  <2>3. acked' \in [Tokens -> SUBSET Tables]
    BY <1>0, <1>4, <2>1 DEF WriteClose, RestTyped
  <2> QED BY <1>0, <1>4, <2>2, <2>3 DEF WriteClose, RestTyped, table, client
<1>5. CASE WriteFails(h)
  BY <1>0, <1>5 DEF WriteFails, At, RestTyped, Call, table, disk, client
<1>6. CASE Pop(h)
  BY <1>0, <1>6 DEF Pop, RestTyped, disk, client, history
<1>7. CASE CheckTruncated(h)
  BY <1>0, <1>7 DEF CheckTruncated, RestTyped, table, disk, client, history
<1>8. CASE Probe(h)
  BY <1>0, <1>8 DEF Probe, RestTyped, table, disk, client, history
<1>9. CASE List(h)
  BY <1>0, <1>9 DEF List, RestTyped, table, disk, client, history
<1>10. CASE Store(h)
  <2>1. thread[h] \in Call
    BY <1>0, <1>10 DEF Store, At
  <2> DEFINE c == thread[h]
             up == [by |-> h, late |-> c.late, tables |-> [x \in c.listed |-> file[c.token][x]]]
  <2>2. c.token \in Tokens /\ c.late \in BOOLEAN /\ c.listed \in SUBSET Tables
    BY <2>1 DEF Call
  <2>3. up.tables \in [c.listed -> {"partial", "whole"}]
    BY <1>0, <1>10, <2>2 DEF Store, RestTyped, Files, FileState
  <2>4. up \in Upload
    BY <2>2, <2>3 DEF Upload
  <2>5. uploads' = uploads \/ uploads' = [uploads EXCEPT ![c.token] = @ \cup {up}]
    BY <1>10 DEF Store
  <2> HIDE DEF up
  <2>6. uploads' \in [Tokens -> SUBSET Upload]
    BY <1>0, <2>2, <2>4, <2>5 DEF RestTyped
  <2> QED BY <1>0, <1>10, <2>2, <2>6 DEF Store, RestTyped, table, disk, client
<1>11. CASE StoreRefused(h)
  BY <1>0, <1>11 DEF StoreRefused, RestTyped, table, disk, client, history
<1>12. CASE DiscardList(h)
  BY <1>0, <1>12 DEF DiscardList, RestTyped, table, disk, client, history
<1>13. CASE DiscardRmdir(h)
  BY <1>0, <1>13 DEF DiscardRmdir, RestTyped, table, client, history
<1>14. ASSUME NEW x \in Tables, DiscardUnlink(h, x) PROVE RestTyped'
  BY <1>0, <1>14 DEF DiscardUnlink, RestTyped, FileState, table, client, history
<1>15. CASE ReadAll(h)
  BY <1>0, <1>15 DEF ReadAll, At, Call, RestTyped, table, disk, client, history
<1> QED BY <1>1, <1>2, <1>3, <1>4, <1>5, <1>6, <1>7, <1>8, <1>9, <1>10, <1>11, <1>12,
           <1>13, <1>14, <1>15 DEF Handler

\* What a client does keeps the types.
LEMMA ClientTypes ==
    ASSUME Typed, NEW t \in Tokens, Client(t)
    PROVE  Typed'
<1>0. CallsTyped /\ RestTyped
  BY TypedHalves
<1>1. CASE OpenSession(t)
  <2>1. CallsTyped'
    BY <1>0, <1>1 DEF OpenSession, CallsTyped, PutsHaveTables, calls
  <2>2. RestTyped'
    BY <1>0, <1>1 DEF OpenSession, RestTyped, history
  <2> QED BY <2>1, <2>2, TypedHalvesAfter
<1>2. CASE ClientDies(t)
  <2>1. CallsTyped'
    BY <1>0, <1>2 DEF ClientDies, Serving, CallsTyped, PutsHaveTables
  <2>2. RestTyped'
    BY <1>0, <1>2 DEF ClientDies, RestTyped, table, disk
  <2> QED BY <2>1, <2>2, TypedHalvesAfter
<1>3. ASSUME NEW h \in Threads, GiveUp(t, h) PROVE Typed'
  <2>1. CallsTyped'
    BY <1>0, <1>3 DEF GiveUp, Live, Serving, CallsTyped, PutsHaveTables
  <2>2. RestTyped'
    BY <1>0, <1>3 DEF GiveUp, RestTyped, table, disk, client
  <2> QED BY <2>1, <2>2, TypedHalvesAfter
<1>4. ASSUME NEW h \in Threads, NEW call \in {"put", "commit", "other"},
             NEW x \in Tables \cup {NoTable}, StartCall(t, h, call, x)
      PROVE  Typed'
  <2> DEFINE c == [call |-> call, token |-> t, table |-> x, at |-> "lookup", listed |-> {},
                   late |-> t \in truncated]
  <2>1. c \in Call /\ (c.call = "put" => c.table \in Tables) /\ c.at = "lookup"
    BY <1>4 DEF StartCall, MayCall, Call
  <2>2. thread' = [thread EXCEPT ![h] = c] /\ cancelled' = cancelled /\ thread[h] = Free
    BY <1>4 DEF StartCall
  <2> HIDE DEF c
  <2>3. c # Free
    BY <2>1, FlightAssumption
  <2>4. \A g \in Threads : thread'[g] = IF g = h THEN c ELSE thread[g]
    BY <1>0, <2>2 DEF CallsTyped
  <2>5. CallsTyped'
    BY <1>0, <2>1, <2>2, <2>3, <2>4 DEF CallsTyped, PutsHaveTables
  <2>6. RestTyped'
    BY <1>0, <1>4 DEF StartCall, RestTyped, table, disk, client, history
  <2> QED BY <2>5, <2>6, TypedHalvesAfter
<1> QED BY <1>1, <1>2, <1>3, <1>4 DEF Client

\* What the sweeper, the clock and a restart do keeps the types.
LEMMA ServerTypes ==
    ASSUME Typed, Sweeper \/ (\E t \in Tokens : TimePasses(t)) \/ Restart
    PROVE  Typed'
<1>0. CallsTyped /\ RestTyped
  BY TypedHalves
<1>1. CASE SweepPop
  <2>1. CallsTyped'
    BY <1>0, <1>1 DEF SweepPop, CallsTyped, PutsHaveTables, calls
  <2>2. RestTyped'
    BY <1>0, <1>1 DEF SweepPop, Asleep, Expired, RestTyped, disk, client
  <2> QED BY <2>1, <2>2, TypedHalvesAfter
<1>2. ASSUME NEW t \in Tokens, SweepList(t) PROVE Typed'
  <2>1. CallsTyped'
    BY <1>0, <1>2 DEF SweepList, CallsTyped, PutsHaveTables, calls
  <2>2. RestTyped'
    BY <1>0, <1>2 DEF SweepList, Files, RestTyped, table, disk, client, history
  <2> QED BY <2>1, <2>2, TypedHalvesAfter
<1>3. ASSUME NEW x \in Tables, SweepUnlink(x) PROVE Typed'
  <2>1. CallsTyped'
    BY <1>0, <1>3 DEF SweepUnlink, CallsTyped, PutsHaveTables, calls
  <2>2. RestTyped'
    BY <1>0, <1>3 DEF SweepUnlink, FileState, RestTyped, table, client, history
  <2> QED BY <2>1, <2>2, TypedHalvesAfter
<1>4. CASE SweepRmdir
  <2>1. CallsTyped'
    BY <1>0, <1>4 DEF SweepRmdir, CallsTyped, PutsHaveTables, calls
  <2>2. RestTyped'
    BY <1>0, <1>4 DEF SweepRmdir, RestTyped, table, client, history
  <2> QED BY <2>1, <2>2, TypedHalvesAfter
<1>5. ASSUME NEW t \in Tokens, TimePasses(t) PROVE Typed'
  <2>1. CallsTyped'
    BY <1>0, <1>5 DEF TimePasses, CallsTyped, PutsHaveTables, calls
  <2>2. RestTyped'
    BY <1>0, <1>5 DEF TimePasses, RestTyped, disk, client, history
  <2> QED BY <2>1, <2>2, TypedHalvesAfter
<1>6. CASE Restart
  <2>1. CallsTyped'
    BY <1>0, <1>6 DEF Restart, CallsTyped, PutsHaveTables
  <2>2. RestTyped'
    BY <1>0, <1>6 DEF Restart, Asleep, RestTyped, FileState, client, history
  <2> QED BY <2>1, <2>2, TypedHalvesAfter
<1> QED BY <1>1, <1>2, <1>3, <1>4, <1>5, <1>6 DEF Sweeper

\* Every step keeps the types.
LEMMA TypedStep == Typed /\ [Next]_vars => Typed'
<1> SUFFICES ASSUME Typed, [Next]_vars PROVE Typed'
  OBVIOUS
<1>1. ASSUME NEW h \in Threads, Handler(h) \/ ReadAll(h) PROVE Typed'
  BY <1>1, HandlerCalls, HandlerRest, TypedHalvesAfter
<1>2. CASE UNCHANGED vars
  BY <1>2 DEF vars, table, disk, calls, client, history, Typed, TypeOK, PutsHaveTables
<1> QED BY <1>1, <1>2, ClientTypes, ServerTypes DEF Next

\* Every variable holds what its part of the server can hold, and only a call that is
\* served is ever given up: no thread starts its next call as cancelled.
THEOREM TypeCorrect == Spec => []TypeOK
<1>1. Init => Typed
  BY TypedInit
<1>2. Typed /\ [Next]_vars => Typed'
  BY TypedStep
<1>3. Typed => TypeOK
  BY DEF Typed
<1> QED BY <1>1, <1>2, <1>3, PTL DEF Spec

-----------------------------------------------------------------------------
(* Truncated sessions.                                                     *)

\* A call that began on a truncated session finds the flag still set, because only a
\* restart clears it, and a restart ends the call too; so it never passes the check.
LateIsRefused ==
    \A h \in Threads : thread[h] # Free /\ thread[h].late =>
        /\ thread[h].token \in truncated
        /\ thread[h].at \notin {"probe", "list", "store"}

Refusing == LateIsRefused /\ TruncationBlocksCommit

\* Nothing is truncated at first.
LEMMA RefusingInit == Init => Refusing
  BY DEF Init, Refusing, LateIsRefused, TruncationBlocksCommit

\* A step of a handler that is not the pipeline's moves its thread along or frees it.
LEMMA ThreadMoves ==
    ASSUME Typed, Refusing, NEW h \in Threads,
           uploads' = uploads, truncated \subseteq truncated',
           \A g \in Threads \ {h} : thread'[g] = thread[g],
           \/ thread'[h] = Free
           \/ /\ thread[h] # Free
              /\ thread'[h].late = thread[h].late /\ thread'[h].token = thread[h].token
              /\ thread'[h].at \in {"probe", "list", "store"} =>
                    \/ thread[h].at \in {"probe", "list", "store"}
                    \/ thread[h].token \notin truncated
    PROVE  Refusing'
<1>1. LateIsRefused'
  BY DEF Refusing, LateIsRefused
<1>2. TruncationBlocksCommit'
  BY DEF Refusing, TruncationBlocksCommit
<1> QED BY <1>1, <1>2 DEF Refusing

\* MoveTo(h, at) leaves everything else of the call as it is.
LEMMA MoveToKeeps ==
    ASSUME Typed, NEW h \in Threads, thread[h] # Free, NEW at, MoveTo(h, at)
    PROVE  /\ \A g \in Threads \ {h} : thread'[g] = thread[g]
           /\ thread'[h].late = thread[h].late /\ thread'[h].token = thread[h].token
           /\ thread'[h].at = at
  BY TypedHalves, CallOf DEF MoveTo, CallsTyped, Call

\* Finish(h) frees its thread and leaves the others.
LEMMA FinishKeeps ==
    ASSUME Typed, NEW h \in Threads, Finish(h)
    PROVE  thread'[h] = Free /\ \A g \in Threads \ {h} : thread'[g] = thread[g]
  BY TypedHalves DEF Finish, CallsTyped

\* No step of a handler stores a call that began late, or takes one past the check.
LEMMA HandlerRefuses ==
    ASSUME Typed, Refusing, NEW h \in Threads, Handler(h) \/ ReadAll(h)
    PROVE  Refusing'
<1>1. CASE Lookup(h)
  BY <1>1, MoveToKeeps, FinishKeeps, ThreadMoves DEF Lookup, At
<1>2. CASE Touch(h)
  BY <1>2, MoveToKeeps, FinishKeeps, ThreadMoves DEF Touch, At
<1>3. CASE WriteOpen(h)
  BY <1>3, MoveToKeeps, FinishKeeps, ThreadMoves DEF WriteOpen, At
<1>4. CASE WriteClose(h)
  BY <1>4, FinishKeeps, ThreadMoves DEF WriteClose, At
<1>5. CASE WriteFails(h)
  BY <1>5, FinishKeeps, ThreadMoves DEF WriteFails, At
<1>6. CASE Pop(h)
  BY <1>6, MoveToKeeps, ThreadMoves DEF Pop, At
<1>7. CASE CheckTruncated(h)
  <2>1. thread[h] # Free /\ UNCHANGED <<uploads, truncated>>
    BY <1>7 DEF CheckTruncated, At
  <2>2. CASE thread[h].token \in truncated
    BY <1>7, <2>1, <2>2, MoveToKeeps, ThreadMoves DEF CheckTruncated
  <2>3. CASE thread[h].token \notin truncated
    BY <1>7, <2>1, <2>3, MoveToKeeps, ThreadMoves DEF CheckTruncated
  <2> QED BY <2>2, <2>3
<1>8. CASE Probe(h)
  BY <1>8, MoveToKeeps, ThreadMoves DEF Probe, At
<1>9. CASE List(h)
  <2>1. thread[h] \in Call /\ thread[h] # Free /\ thread \in [Threads -> Call \cup {Free}]
    BY <1>9, TypedHalves, CallOf DEF List, At, CallsTyped
  <2>2. /\ \A g \in Threads \ {h} : thread'[g] = thread[g]
        /\ thread'[h].late = thread[h].late /\ thread'[h].token = thread[h].token
    BY <1>9, <2>1 DEF List, Call
  <2> QED BY <1>9, <2>1, <2>2, ThreadMoves DEF List, At
<1>10. CASE Store(h)
  <2>1. thread[h] # Free /\ thread[h].at = "store" /\ truncated' = truncated
    BY <1>10 DEF Store, At
  <2>2. thread[h] \in Call /\ thread[h].token \in Tokens
    BY <2>1, TypedHalves, CallOf DEF Call
  <2>3. ~thread[h].late
    BY <2>1 DEF Refusing, LateIsRefused
  <2>4. \A t \in Tokens : \A up \in uploads'[t] : up \in uploads[t] \/ up.late = thread[h].late
    BY <1>10, <2>2, TypedHalves DEF Store, RestTyped
  <2>5. TruncationBlocksCommit'
    BY <2>3, <2>4 DEF Refusing, TruncationBlocksCommit
  <2>6. LateIsRefused'
    BY <1>10, <2>1, <2>3, MoveToKeeps DEF Store, Refusing, LateIsRefused
  <2> QED BY <2>5, <2>6 DEF Refusing
<1>11. CASE StoreRefused(h)
  BY <1>11, MoveToKeeps, ThreadMoves DEF StoreRefused, At
<1>12. CASE DiscardList(h)
  <2>1. thread[h] \in Call /\ thread[h] # Free /\ thread \in [Threads -> Call \cup {Free}]
    BY <1>12, TypedHalves, CallOf DEF DiscardList, At, CallsTyped
  <2>2. /\ \A g \in Threads \ {h} : thread'[g] = thread[g]
        /\ thread'[h].late = thread[h].late /\ thread'[h].token = thread[h].token
        /\ thread'[h].at = "unlink"
    BY <1>12, <2>1 DEF DiscardList, Call
  <2> QED BY <1>12, <2>1, <2>2, ThreadMoves DEF DiscardList, At
<1>13. CASE DiscardRmdir(h)
  BY <1>13, FinishKeeps, ThreadMoves DEF DiscardRmdir, At
<1>14. ASSUME NEW x \in Tables, DiscardUnlink(h, x) PROVE Refusing'
  <2>1. thread[h] \in Call /\ thread[h] # Free /\ thread \in [Threads -> Call \cup {Free}]
    BY <1>14, TypedHalves, CallOf DEF DiscardUnlink, At, CallsTyped
  <2>2. /\ \A g \in Threads \ {h} : thread'[g] = thread[g]
        /\ thread'[h].late = thread[h].late /\ thread'[h].token = thread[h].token
        /\ thread'[h].at = thread[h].at
    BY <1>14, <2>1 DEF DiscardUnlink, Call
  <2> QED BY <1>14, <2>1, <2>2, ThreadMoves DEF DiscardUnlink, At
<1>15. CASE ReadAll(h)
  BY <1>15, MoveToKeeps, FinishKeeps, ThreadMoves DEF ReadAll, At
<1> QED BY <1>1, <1>2, <1>3, <1>4, <1>5, <1>6, <1>7, <1>8, <1>9, <1>10, <1>11, <1>12,
           <1>13, <1>14, <1>15 DEF Handler

\* No step stores a call that began late, or takes one past the check.
LEMMA RefusingStep == Typed /\ Refusing /\ [Next]_vars => Refusing'
<1> SUFFICES ASSUME Typed, Refusing, [Next]_vars PROVE Refusing'
  OBVIOUS
<1>1. ASSUME NEW h \in Threads, Handler(h) \/ ReadAll(h) PROVE Refusing'
  BY <1>1, HandlerRefuses
<1>2. ASSUME NEW t \in Tokens, NEW h \in Threads, NEW call \in {"put", "commit", "other"},
             NEW x \in Tables \cup {NoTable}, StartCall(t, h, call, x)
      PROVE  Refusing'
  <2>1. thread \in [Threads -> Call \cup {Free}]
    BY TypedHalves DEF CallsTyped
  <2>2. /\ \A g \in Threads \ {h} : thread'[g] = thread[g]
        /\ (thread'[h].late => t \in truncated) /\ thread'[h].token = t
        /\ thread'[h].at = "lookup"
    BY <1>2, <2>1 DEF StartCall
  <2>3. truncated' = truncated /\ uploads' = uploads
    BY <1>2 DEF StartCall
  <2>4. LateIsRefused'
    BY <2>2, <2>3 DEF Refusing, LateIsRefused
  <2> QED BY <2>3, <2>4 DEF Refusing, TruncationBlocksCommit
<1>3. CASE Restart
  BY <1>3 DEF Restart, Refusing, LateIsRefused, TruncationBlocksCommit
<1>4. CASE UNCHANGED <<thread, truncated, uploads>>
  BY <1>4 DEF Refusing, LateIsRefused, TruncationBlocksCommit
<1>5. ASSUME NEW t \in Tokens, Client(t) PROVE Refusing'
  BY <1>2, <1>4, <1>5 DEF Client, OpenSession, ClientDies, GiveUp, calls
<1>6. ASSUME NEW t \in Tokens, TimePasses(t) PROVE Refusing'
  BY <1>4, <1>6 DEF TimePasses, calls
<1>7. CASE Sweeper
  BY <1>4, <1>7 DEF Sweeper, SweepPop, SweepList, SweepUnlink, SweepRmdir, calls
<1>8. CASE UNCHANGED vars
  BY <1>4, <1>8 DEF vars, calls
<1> QED BY <1>1, <1>3, <1>5, <1>6, <1>7, <1>8 DEF Next

\* "One that saw a table break off mid-transfer refuses to commit" (requirements.md:141),
\* for any number of clients, threads and tables: no commit that began after the flag was
\* set has stored anything, whatever ran beside it.
THEOREM TruncatedIsRefused == Spec => []TruncationBlocksCommit
<1>1. Init => Typed /\ Refusing
  BY TypedInit, RefusingInit
<1>2. Typed /\ Refusing /\ [Next]_vars => (Typed /\ Refusing)'
  BY TypedStep, RefusingStep
<1>3. Refusing => TruncationBlocksCommit
  BY DEF Refusing
<1> QED BY <1>1, <1>2, <1>3, PTL DEF Spec

-----------------------------------------------------------------------------
(* Undisturbed sessions.                                                   *)

\* No call of the session was given up or ran out of disk, and the sweeper met none.
Good(t) == t \notin disturbed \cup caught

\* The sweeper has taken the session.
Swept(t) == t \in sweeper.todo \/ t = sweeper.current

\* Where a commit is after it has taken the session out of the table, and before it stores.
Storing == {"check", "probe", "list", "store"}
Ending == Storing \cup {"discard", "unlink"}

Among(t, places) == \E h \in Serving(t) : thread[h].at \in places
Writes(t, x) == \E h \in Serving(t) : thread[h].at = "write" /\ thread[h].table = x
Collecting(t) == t \in sessions \/ Among(t, Storing)

\* Only a commit ends a session.
CommitsEnd ==
    \A h \in Threads : thread[h] # Free /\ thread[h].at \in Ending \cup {"pop"} =>
        thread[h].call = "commit"

\* There is nothing of a session before it is opened.
NothingBefore ==
    /\ \A h \in Threads : thread[h] # Free => thread[h].token \in opened
    /\ sweeper.todo \subseteq opened /\ sweeper.current \in opened \cup {NoToken}
    /\ \A t \in Tokens \ opened :
          Files(t) = {} /\ acked[t] = {} /\ uploads[t] = {} /\ t \notin confirmed

\* Calls under way together are puts of different tables, none of them acknowledged yet.
CallsApart(t) ==
    \A h \in Serving(t) :
        /\ h \notin cancelled
        /\ thread[h].call = "put" => thread[h].table \notin acked[t]
        /\ \A g \in Serving(t) \ {h} :
              thread[h].call = "put" /\ thread[g].call = "put" /\ thread[h].table # thread[g].table

\* A call that was let in finds the session in the table until a commit takes it out, and
\* the session is ended by that commit or by the sweeper, never by both.
EndsOnce(t) ==
    /\ Swept(t) => t \notin sessions
    /\ Among(t, {"touch", "read", "open", "write", "pop"}) => t \in sessions
    /\ Among(t, Ending) => t \notin sessions /\ ~Swept(t)

\* Until it is stored a session has the acknowledged tables, whole, those that are being
\* written, and no other.
FilesAsAcked(t) ==
    Collecting(t) =>
        \A x \in Tables :
            /\ x \in acked[t] => file[t][x] = "whole"
            /\ Writes(t, x) => file[t][x] = "partial"
            /\ file[t][x] # "none" => x \in acked[t] \/ Writes(t, x)

\* A commit stores what it has listed, and lists what is there, which is not nothing.
NotStoredYet(t) ==
    /\ Collecting(t) => uploads[t] = {} /\ t \notin confirmed
    /\ \A h \in Serving(t) :
          /\ thread[h].at = "list" => Files(t) # {}
          /\ thread[h].at = "store" => Files(t) # {} /\ thread[h].listed = Files(t)

\* Whoever discards the directory has all of its files on the list, and the directory of a
\* session that has ended is gone.
Discards(t) ==
    /\ \A h \in Serving(t) : thread[h].at = "unlink" => Files(t) \subseteq thread[h].listed
    /\ t = sweeper.current => Files(t) \subseteq sweeper.left
    /\ t \in sessions \/ Among(t, Ending) \/ Swept(t) \/ t \notin dirs

StoredWhole(t) ==
    /\ \A up \in uploads[t] : up.tables = [x \in acked[t] |-> "whole"]
    /\ \A up, other \in uploads[t] : up = other
    /\ t \in confirmed => uploads[t] # {}

Fine(t) ==
    Good(t) => /\ CallsApart(t) /\ EndsOnce(t) /\ FilesAsAcked(t)
               /\ NotStoredYet(t) /\ Discards(t) /\ StoredWhole(t)

FineInv == CommitsEnd /\ NothingBefore /\ \A t \in Tokens : Fine(t)

-----------------------------------------------------------------------------
(* What a step does to a session.                                          *)

\* Everything of the session but its calls is as before, or less disturbed.
SameBooks(t) ==
    /\ file'[t] = file[t] /\ acked'[t] = acked[t] /\ uploads'[t] = uploads[t]
    /\ t \in sessions' <=> t \in sessions
    /\ t \in confirmed' <=> t \in confirmed
    /\ t \in dirs' => t \in dirs
    /\ Swept(t)' <=> Swept(t)
    /\ t = sweeper'.current => t = sweeper.current /\ sweeper'.left = sweeper.left
    /\ Good(t)' => Good(t)

\* And so are its calls.
SameCalls(t) ==
    /\ Serving(t)' = Serving(t)
    /\ \A g \in Serving(t) : thread'[g] = thread[g] /\ (g \in cancelled' => g \in cancelled)

\* One call is at another place of its handler, with all else it has but the list.
MovesOn(h, at) ==
    /\ thread'[h] # Free
    /\ thread'[h].call = thread[h].call /\ thread'[h].token = thread[h].token
    /\ thread'[h].table = thread[h].table
    /\ thread'[h].at = at
    /\ \A g \in Threads \ {h} : thread'[g] = thread[g]
    /\ cancelled' = cancelled

\* A session that a step does not touch stays fine.
LEMMA Untouched ==
    ASSUME NEW t \in Tokens, Fine(t), SameBooks(t), SameCalls(t)
    PROVE  Fine(t)'
<1> SUFFICES ASSUME Good(t)'
             PROVE  /\ CallsApart(t)' /\ EndsOnce(t)' /\ FilesAsAcked(t)'
                    /\ NotStoredYet(t)' /\ Discards(t)' /\ StoredWhole(t)'
  BY DEF Fine
<1>1. /\ CallsApart(t) /\ EndsOnce(t) /\ FilesAsAcked(t)
      /\ NotStoredYet(t) /\ Discards(t) /\ StoredWhole(t)
  BY DEF Fine, SameBooks
<1>2. \A places : Among(t, places)' <=> Among(t, places)
  BY DEF Among, SameCalls
<1>3. \A x : Writes(t, x)' <=> Writes(t, x)
  BY DEF Writes, SameCalls
<1>4. Files(t)' = Files(t)
  BY DEF Files, SameBooks
<1>5. Collecting(t)' <=> Collecting(t)
  BY <1>2 DEF Collecting, SameBooks
<1>6. CallsApart(t)'
  BY <1>1 DEF CallsApart, SameBooks, SameCalls
<1>7. EndsOnce(t)'
  BY <1>1, <1>2 DEF EndsOnce, SameBooks
<1>8. FilesAsAcked(t)'
  BY <1>1, <1>3, <1>5 DEF FilesAsAcked, SameBooks
<1>9. NotStoredYet(t)'
  BY <1>1, <1>4, <1>5 DEF NotStoredYet, SameBooks, SameCalls
<1>10. Discards(t)'
  BY <1>1, <1>2, <1>4 DEF Discards, SameBooks, SameCalls
<1>11. StoredWhole(t)'
  BY <1>1 DEF StoredWhole, SameBooks
<1> QED BY <1>6, <1>7, <1>8, <1>9, <1>10, <1>11

\* A commit is alone with its session.
LEMMA CommitIsAlone ==
    ASSUME NEW t \in Tokens, CallsApart(t), NEW h \in Serving(t), thread[h].call # "put"
    PROVE  Serving(t) = {h}
  BY DEF CallsApart

\* A call moves on within its handler: past the table only while the session is in it, and
\* from one place of a commit's end to another.
LEMMA MovesFine ==
    ASSUME NEW t \in Tokens, Fine(t), CommitsEnd, SameBooks(t), NEW h \in Serving(t), NEW at,
           MovesOn(h, at), at # "write", thread[h].at # "write",
           Good(t) /\ at \in {"touch", "read", "open", "pop"} => t \in sessions,
           at \in Ending <=> thread[h].at \in Ending,
           at \in Storing => thread[h].at \in Storing,
           Good(t) /\ at \in {"list", "store"} => Files(t) # {},
           Good(t) /\ at = "store" => thread'[h].listed = Files(t),
           Good(t) /\ at = "unlink" => Files(t) \subseteq thread'[h].listed
    PROVE  Fine(t)'
<1> SUFFICES ASSUME Good(t)'
             PROVE  /\ CallsApart(t)' /\ EndsOnce(t)' /\ FilesAsAcked(t)'
                    /\ NotStoredYet(t)' /\ Discards(t)' /\ StoredWhole(t)'
  BY DEF Fine
<1>0. Good(t)
  BY DEF SameBooks
<1>1. /\ CallsApart(t) /\ EndsOnce(t) /\ FilesAsAcked(t)
      /\ NotStoredYet(t) /\ Discards(t) /\ StoredWhole(t)
  BY <1>0 DEF Fine
<1>2. /\ Serving(t)' = Serving(t) /\ h \in Threads
      /\ \A g \in Serving(t) \ {h} : thread'[g] = thread[g]
  BY DEF Serving, MovesOn
<1>3. \A places : Among(t, places)' => Among(t, places) \/ at \in places
  BY <1>2 DEF Among, MovesOn
<1>4. Among(t, Ending) => Among(t, Ending)'
  BY <1>2 DEF Among, MovesOn
<1>5. \A x : Writes(t, x)' <=> Writes(t, x)
  BY <1>2 DEF Writes, MovesOn
<1>6. Files(t)' = Files(t)
  BY DEF Files, SameBooks
<1>7. Collecting(t)' => Collecting(t)
  BY <1>3 DEF Collecting, SameBooks, Among
<1>8. CallsApart(t)'
  BY <1>1, <1>2 DEF CallsApart, SameBooks, MovesOn
<1>9. EndsOnce(t)'
  BY <1>0, <1>1, <1>3 DEF EndsOnce, SameBooks, Among
<1>10. FilesAsAcked(t)'
  BY <1>1, <1>5, <1>7 DEF FilesAsAcked, SameBooks
<1>11. NotStoredYet(t)'
  <2>1. Collecting(t)' => uploads'[t] = {} /\ t \notin confirmed'
    BY <1>1, <1>7 DEF NotStoredYet, SameBooks
  <2>2. ASSUME NEW g \in Serving(t)
        PROVE  /\ thread'[g].at = "list" => Files(t) # {}
               /\ thread'[g].at = "store" => Files(t) # {} /\ thread'[g].listed = Files(t)
    BY <1>0, <1>1, <1>2 DEF NotStoredYet, MovesOn
  <2> QED BY <1>2, <1>6, <2>1, <2>2 DEF NotStoredYet
<1>12. Discards(t)'
  BY <1>0, <1>1, <1>2, <1>4, <1>6 DEF Discards, SameBooks, MovesOn
<1>13. StoredWhole(t)'
  BY <1>1 DEF StoredWhole, SameBooks
<1> QED BY <1>8, <1>9, <1>10, <1>11, <1>12, <1>13

\* A call that ends before it has written or stored anything leaves its session fine.
LEMMA LeavesFine ==
    ASSUME NEW t \in Tokens, Fine(t), SameBooks(t), NEW h \in Serving(t),
           thread[h].at \notin Ending \cup {"write"},
           Serving(t)' = Serving(t) \ {h},
           \A g \in Serving(t) \ {h} : thread'[g] = thread[g],
           cancelled' \subseteq cancelled
    PROVE  Fine(t)'
<1> SUFFICES ASSUME Good(t)'
             PROVE  /\ CallsApart(t)' /\ EndsOnce(t)' /\ FilesAsAcked(t)'
                    /\ NotStoredYet(t)' /\ Discards(t)' /\ StoredWhole(t)'
  BY DEF Fine
<1>1. /\ CallsApart(t) /\ EndsOnce(t) /\ FilesAsAcked(t)
      /\ NotStoredYet(t) /\ Discards(t) /\ StoredWhole(t)
  BY DEF Fine, SameBooks
<1>2. \A places : Among(t, places)' => Among(t, places)
  BY DEF Among
<1>3. Among(t, Ending) => Among(t, Ending)'
  BY DEF Among
<1>4. \A x : Writes(t, x)' <=> Writes(t, x)
  BY DEF Writes
<1>5. Files(t)' = Files(t)
  BY DEF Files, SameBooks
<1>6. Collecting(t)' => Collecting(t)
  BY <1>2 DEF Collecting, SameBooks
<1>7. CallsApart(t)'
  BY <1>1 DEF CallsApart, SameBooks
<1>8. EndsOnce(t)'
  BY <1>1, <1>2 DEF EndsOnce, SameBooks
<1>9. FilesAsAcked(t)'
  BY <1>1, <1>4, <1>6 DEF FilesAsAcked, SameBooks
<1>10. NotStoredYet(t)'
  BY <1>1, <1>5, <1>6 DEF NotStoredYet, SameBooks
<1>11. Discards(t)'
  BY <1>1, <1>3, <1>5 DEF Discards, SameBooks
<1>12. StoredWhole(t)'
  BY <1>1 DEF StoredWhole, SameBooks
<1> QED BY <1>7, <1>8, <1>9, <1>10, <1>11, <1>12

-----------------------------------------------------------------------------
(* The steps of a handler.                                                 *)

\* A thread that moves on with nothing but its place.
LEMMA MoveToMoves ==
    ASSUME Typed, NEW h \in Threads, thread[h] # Free,
           NEW at \in {"touch", "read", "open", "write", "pop", "check", "probe", "list",
                       "store", "discard", "unlink"},
           MoveTo(h, at), cancelled' = cancelled
    PROVE  MovesOn(h, at) /\ thread'[h].listed = thread[h].listed /\ thread'[h] \in Call
<1>1. thread \in [Threads -> Call \cup {Free}] /\ thread[h] \in Call
  BY TypedHalves, CallOf DEF CallsTyped
<1> DEFINE c == [thread[h] EXCEPT !.at = at]
<1>2. /\ c \in Call /\ c.call = thread[h].call /\ c.table = thread[h].table /\ c.at = at
      /\ c.token = thread[h].token /\ c.listed = thread[h].listed
  BY <1>1 DEF Call
<1>3. thread' = [thread EXCEPT ![h] = c]
  BY DEF MoveTo
<1> HIDE DEF c
<1>4. c # Free
  BY <1>2, FlightAssumption
<1> QED BY <1>1, <1>2, <1>3, <1>4 DEF MovesOn

\* A thread that moves on with a look at the directory.
LEMMA ListMoves ==
    ASSUME Typed, NEW h \in Threads, thread[h] # Free, NEW seen \in SUBSET Tables,
           NEW at \in {"store", "discard", "unlink"},
           thread' = [thread EXCEPT ![h].listed = seen, ![h].at = at], cancelled' = cancelled
    PROVE  MovesOn(h, at) /\ thread'[h].listed = seen
<1>1. thread \in [Threads -> Call \cup {Free}] /\ thread[h] \in Call
  BY TypedHalves, CallOf DEF CallsTyped
<1> DEFINE c == [[thread[h] EXCEPT !.listed = seen] EXCEPT !.at = at]
<1>2. /\ c \in Call /\ c.call = thread[h].call /\ c.table = thread[h].table /\ c.at = at
      /\ c.token = thread[h].token /\ c.listed = seen
  BY <1>1 DEF Call
<1>3. thread' = [thread EXCEPT ![h] = c]
  BY <1>1
<1> HIDE DEF c
<1>4. c # Free
  BY <1>2, FlightAssumption
<1> QED BY <1>1, <1>2, <1>3, <1>4 DEF MovesOn

\* A thread's step is nothing to the calls of another session.
LEMMA OtherCalls ==
    ASSUME NEW h \in Threads, NEW t \in Tokens, thread[h] # Free, thread[h].token # t,
           \A g \in Threads \ {h} : thread'[g] = thread[g], cancelled' \subseteq cancelled,
           thread'[h] = Free \/ thread'[h].token = thread[h].token
    PROVE  SameCalls(t)
  BY DEF SameCalls, Serving

\* A step that frees its thread takes it from its own session.
LEMMA FreedCalls ==
    ASSUME Typed, NEW h \in Threads, NEW t \in Tokens, thread[h] # Free, thread[h].token = t,
           Finish(h)
    PROVE  /\ \A g \in Threads \ {h} : thread'[g] = thread[g]
           /\ thread'[h] = Free /\ cancelled' \subseteq cancelled
           /\ h \in Serving(t) /\ Serving(t)' = Serving(t) \ {h}
           /\ \A g \in Serving(t) \ {h} : thread'[g] = thread[g]
<1>1. /\ \A g \in Threads \ {h} : thread'[g] = thread[g]
      /\ thread'[h] = Free /\ cancelled' \subseteq cancelled
  BY FinishKeeps DEF Finish
<1>2. h \in Serving(t) /\ Serving(t)' = Serving(t) \ {h}
  BY <1>1 DEF Serving
<1> QED BY <1>1, <1>2 DEF Serving

\* Nothing but threads and what no session's books are about has changed.
Quiet == UNCHANGED <<sessions, disk, sweeper, uploads, opened, acked, confirmed, disturbed, caught>>

\* A step that touches no session's bookkeeping leaves it as it was.
LEMMA QuietBooks == ASSUME Quiet PROVE \A t \in Tokens : SameBooks(t)
  BY DEF Quiet, SameBooks, Swept, Good, disk

\* A thread moves on, and nothing else happens to any session.
LEMMA QuietMove ==
    ASSUME Typed, FineInv, Quiet, NEW h \in Threads, thread[h] # Free, NEW at, MovesOn(h, at),
           at # "write", thread[h].at # "write",
           at \in Ending \cup {"pop"} => thread[h].call = "commit",
           at \in Ending <=> thread[h].at \in Ending,
           at \in Storing => thread[h].at \in Storing,
           \A t \in Tokens : t = thread[h].token =>
              /\ Good(t) /\ at \in {"touch", "read", "open", "pop"} => t \in sessions
              /\ Good(t) /\ at \in {"list", "store"} => Files(t) # {}
              /\ Good(t) /\ at = "store" => thread'[h].listed = Files(t)
              /\ Good(t) /\ at = "unlink" => Files(t) \subseteq thread'[h].listed
    PROVE  FineInv'
<1>1. CommitsEnd'
  BY DEF FineInv, CommitsEnd, MovesOn
<1>2. NothingBefore'
  <2>1. \A t : Files(t)' = Files(t)
    BY DEF Quiet, disk, Files
  <2> QED BY <2>1 DEF FineInv, NothingBefore, MovesOn, Quiet
<1>3. ASSUME NEW t \in Tokens PROVE Fine(t)'
  <2>1. SameBooks(t) /\ Fine(t) /\ CommitsEnd
    BY QuietBooks DEF FineInv
  <2>2. CASE thread[h].token = t
    <3>1. h \in Serving(t)
      BY <2>2 DEF Serving
    <3> QED BY <2>1, <2>2, <3>1, MovesFine
  <2>3. CASE thread[h].token # t
    <3>1. SameCalls(t)
      BY <2>3, OtherCalls DEF MovesOn
    <3> QED BY <2>1, <3>1, Untouched
  <2> QED BY <2>2, <2>3
<1> QED BY <1>1, <1>2, <1>3 DEF FineInv

\* A thread ends its call, and nothing else happens to any session.
LEMMA QuietFinish ==
    ASSUME Typed, FineInv, Quiet, NEW h \in Threads, thread[h] # Free, Finish(h),
           thread[h].at \notin Ending \cup {"write"}
    PROVE  FineInv'
<1>0. thread'[h] = Free /\ \A g \in Threads \ {h} : thread'[g] = thread[g]
  BY FinishKeeps
<1>1. CommitsEnd'
  BY <1>0 DEF FineInv, CommitsEnd
<1>2. NothingBefore'
  <2>1. \A t : Files(t)' = Files(t)
    BY DEF Quiet, disk, Files
  <2> QED BY <1>0, <2>1 DEF FineInv, NothingBefore, Quiet
<1>3. ASSUME NEW t \in Tokens PROVE Fine(t)'
  <2>1. SameBooks(t) /\ Fine(t)
    BY QuietBooks DEF FineInv
  <2>2. CASE thread[h].token = t
    BY <2>1, <2>2, FreedCalls, LeavesFine
  <2>3. CASE thread[h].token # t
    <3>1. SameCalls(t)
      BY <1>0, <2>3, OtherCalls DEF Finish
    <3> QED BY <2>1, <3>1, Untouched
  <2> QED BY <2>2, <2>3
<1> QED BY <1>1, <1>2, <1>3 DEF FineInv

\* What a session that is still collecting has on the volume, once a commit is at it.
LEMMA CommitSees ==
    ASSUME FineInv, NEW t \in Tokens, NEW h \in Serving(t), Good(t), thread[h].at \in Ending
    PROVE  /\ Serving(t) = {h} /\ t \notin sessions /\ ~Swept(t)
           /\ thread[h].at \in Storing =>
                /\ uploads[t] = {} /\ t \notin confirmed
                /\ \A x \in Tables : file[t][x] = "whole" <=> x \in acked[t]
                /\ \A x \in Tables : file[t][x] # "none" <=> x \in acked[t]
<1>1. /\ CallsApart(t) /\ EndsOnce(t) /\ FilesAsAcked(t) /\ NotStoredYet(t)
  BY DEF FineInv, Fine
<1>2. thread[h].call = "commit"
  BY DEF FineInv, CommitsEnd, Serving
<1>3. Serving(t) = {h}
  BY <1>1, <1>2, CommitIsAlone
<1>4. t \notin sessions /\ ~Swept(t)
  BY <1>1 DEF EndsOnce, Among
<1>5. ASSUME thread[h].at \in Storing
      PROVE  /\ uploads[t] = {} /\ t \notin confirmed
             /\ \A x \in Tables : file[t][x] = "whole" <=> x \in acked[t]
             /\ \A x \in Tables : file[t][x] # "none" <=> x \in acked[t]
  <2>1. Collecting(t)
    BY <1>5 DEF Collecting, Among
  <2>2. \A x : ~Writes(t, x)
    BY <1>3, <1>5 DEF Writes, Storing
  <2>3. uploads[t] = {} /\ t \notin confirmed
    BY <1>1, <2>1 DEF NotStoredYet
  <2>4. \A x \in Tables : /\ x \in acked[t] => file[t][x] = "whole"
                          /\ file[t][x] # "none" => x \in acked[t]
    BY <1>1, <2>1, <2>2 DEF FilesAsAcked
  <2> QED BY <2>3, <2>4
<1> QED BY <1>3, <1>4, <1>5

\* A call that was let in and has not ended its session has it in the table.
LEMMA LetIn ==
    ASSUME FineInv, NEW t \in Tokens, NEW h \in Serving(t), Good(t),
           thread[h].at \in {"touch", "read", "open", "write", "pop"}
    PROVE  t \in sessions
  BY DEF FineInv, Fine, EndsOnce, Among

\* Before the table is written.
LEMMA FineLookup == ASSUME Typed, FineInv, NEW h \in Threads, Lookup(h) PROVE FineInv'
<1>1. thread[h] # Free /\ thread[h].at = "lookup" /\ Quiet
  BY DEF Lookup, At, Quiet, table, client, history
<1>2. CASE thread[h].token \in sessions /\ MoveTo(h, "touch") /\ cancelled' = cancelled
  <2>1. MovesOn(h, "touch")
    BY <1>1, <1>2, MoveToMoves
  <2> QED BY <1>1, <1>2, <2>1, QuietMove DEF Ending, Storing
<1>3. CASE Finish(h)
  BY <1>1, <1>3, QuietFinish DEF Ending, Storing
<1> QED BY <1>2, <1>3 DEF Lookup

\* Renewing `touched` (flight.py:134) changes nothing the invariant reads.
LEMMA FineTouch == ASSUME Typed, FineInv, NEW h \in Threads, Touch(h) PROVE FineInv'
<1>1. thread[h] # Free /\ thread[h].at = "touch" /\ Quiet
  BY DEF Touch, At, Quiet, client, history
<1>2. ASSUME NEW t \in Tokens, t = thread[h].token, Good(t) PROVE t \in sessions
  BY <1>1, <1>2, LetIn DEF Serving
<1>3. CASE thread[h].call = "put" /\ MoveTo(h, "read") /\ cancelled' = cancelled
  <2>1. MovesOn(h, "read")
    BY <1>1, <1>3, MoveToMoves
  <2> QED BY <1>1, <1>2, <2>1, QuietMove DEF Ending, Storing
<1>4. CASE thread[h].call = "commit" /\ MoveTo(h, "pop") /\ cancelled' = cancelled
  <2>1. MovesOn(h, "pop")
    BY <1>1, <1>4, MoveToMoves
  <2> QED BY <1>1, <1>2, <1>4, <2>1, QuietMove DEF Ending, Storing
<1>5. CASE Finish(h)
  BY <1>1, <1>5, QuietFinish DEF Ending, Storing
<1> QED BY <1>3, <1>4, <1>5 DEF Touch

\* A read that ends keeps the table it read for the write that follows.
LEMMA FineReadAll == ASSUME Typed, FineInv, NEW h \in Threads, ReadAll(h) PROVE FineInv'
<1>1. thread[h] # Free /\ thread[h].at = "read" /\ Quiet
  BY DEF ReadAll, At, Quiet, table, client, history
<1>2. ASSUME NEW t \in Tokens, t = thread[h].token, Good(t) PROVE t \in sessions
  BY <1>1, <1>2, LetIn DEF Serving
<1>3. CASE MoveTo(h, "open") /\ cancelled' = cancelled
  <2>1. MovesOn(h, "open")
    BY <1>1, <1>3, MoveToMoves
  <2> QED BY <1>1, <1>2, <2>1, QuietMove DEF Ending, Storing
<1>4. CASE Finish(h)
  BY <1>1, <1>4, QuietFinish DEF Ending, Storing
<1> QED BY <1>3, <1>4 DEF ReadAll

\* A commit, up to what it stores.
LEMMA FineCheck == ASSUME Typed, FineInv, NEW h \in Threads, CheckTruncated(h) PROVE FineInv'
<1>1. thread[h] # Free /\ thread[h].at = "check" /\ Quiet /\ cancelled' = cancelled
  BY DEF CheckTruncated, At, Quiet, table, client, history
<1>2. thread[h].call = "commit"
  BY <1>1 DEF FineInv, CommitsEnd, Ending, Storing
<1>3. ASSUME NEW at \in {"discard", "probe"}, MoveTo(h, at) PROVE FineInv'
  <2>1. MovesOn(h, at)
    BY <1>1, <1>3, MoveToMoves
  <2> QED BY <1>1, <1>2, <2>1, QuietMove DEF Ending, Storing
<1> QED BY <1>3 DEF CheckTruncated

\* The commit looks whether there are files, and changes none.
LEMMA FineProbe == ASSUME Typed, FineInv, NEW h \in Threads, Probe(h) PROVE FineInv'
<1>1. thread[h] # Free /\ thread[h].at = "probe" /\ Quiet /\ cancelled' = cancelled
  BY DEF Probe, At, Quiet, table, client, history
<1>2. thread[h].call = "commit"
  BY <1>1 DEF FineInv, CommitsEnd, Ending, Storing
<1>3. ASSUME NEW at \in {"discard", "list"}, MoveTo(h, at),
             at = "list" => Files(thread[h].token) # {}
      PROVE  FineInv'
  <2>1. MovesOn(h, at)
    BY <1>1, <1>3, MoveToMoves
  <2> QED BY <1>1, <1>2, <1>3, <2>1, QuietMove DEF Ending, Storing
<1> QED BY <1>3 DEF Probe

\* What the commit lists is all that is there, since no put runs beside it.
LEMMA FineList == ASSUME Typed, FineInv, NEW h \in Threads, List(h) PROVE FineInv'
<1>1. thread[h] # Free /\ thread[h].at = "list" /\ Quiet /\ cancelled' = cancelled
  BY DEF List, At, Quiet, table, client, history
<1>2. thread[h].call = "commit"
  BY <1>1 DEF FineInv, CommitsEnd, Ending, Storing
<1>3. ASSUME NEW at \in {"discard", "store"},
             thread' = [thread EXCEPT ![h].listed = Files(thread[h].token), ![h].at = at]
      PROVE  MovesOn(h, at) /\ thread'[h].listed = Files(thread[h].token)
  <2> DEFINE seen == Files(thread[h].token)
  <2>1. seen \in SUBSET Tables
    BY DEF Files
  <2>2. thread' = [thread EXCEPT ![h].listed = seen, ![h].at = at]
    BY <1>3
  <2> HIDE DEF seen
  <2>3. at \in {"store", "discard", "unlink"} /\ thread[h] # Free /\ cancelled' = cancelled
    BY <1>1
  <2>4. MovesOn(h, at) /\ thread'[h].listed = seen
    BY <2>1, <2>2, <2>3, ListMoves, Zenon
  <2> QED BY <2>4 DEF seen
<1>4. \E at \in {"discard", "store"} :
          MovesOn(h, at) /\ thread'[h].listed = Files(thread[h].token)
  <2>1. CASE thread[h].token \in dirs
    BY <1>3, <2>1 DEF List
  <2>2. CASE thread[h].token \notin dirs
    BY <1>3, <2>2 DEF List
  <2> QED BY <2>1, <2>2
<1>5. ASSUME NEW t \in Tokens, t = thread[h].token, Good(t) PROVE Files(t) # {}
  BY <1>1, <1>5 DEF FineInv, Fine, NotStoredYet, Serving
<1> QED BY <1>1, <1>2, <1>4, <1>5, QuietMove DEF Ending, Storing

\* A store that is refused leaves the files to the discard that follows.
LEMMA FineRefused == ASSUME Typed, FineInv, NEW h \in Threads, StoreRefused(h) PROVE FineInv'
<1>1. thread[h] # Free /\ thread[h].at = "store" /\ Quiet /\ cancelled' = cancelled
  BY DEF StoreRefused, At, Quiet, table, client, history
<1>2. thread[h].call = "commit"
  BY <1>1 DEF FineInv, CommitsEnd, Ending, Storing
<1>3. MovesOn(h, "discard")
  BY <1>1, MoveToMoves DEF StoreRefused
<1> QED BY <1>1, <1>2, <1>3, QuietMove DEF Ending, Storing

\* The discard lists all files of its session.
LEMMA FineDiscardList ==
    ASSUME Typed, FineInv, NEW h \in Threads, DiscardList(h) PROVE FineInv'
<1>1. thread[h] # Free /\ thread[h].at = "discard" /\ Quiet /\ cancelled' = cancelled
  BY DEF DiscardList, At, Quiet, table, client, history
<1>2. thread[h].call = "commit"
  BY <1>1 DEF FineInv, CommitsEnd, Ending, Storing
<1>3. MovesOn(h, "unlink") /\ thread'[h].listed = Files(thread[h].token)
  BY <1>1, ListMoves DEF DiscardList, Files
<1> QED BY <1>1, <1>2, <1>3, QuietMove DEF Ending, Storing

\* A put begins to write its table, which none of the others writes.
LEMMA FineOpen == ASSUME Typed, FineInv, NEW h \in Threads, WriteOpen(h) PROVE FineInv'
<1>1. /\ thread[h] # Free /\ thread[h].at = "open" /\ thread[h].call = "put"
      /\ thread[h].token \in Tokens /\ thread[h].table \in Tables
      /\ UNCHANGED <<sessions, dirs, sweeper, uploads, opened, acked, confirmed, disturbed,
                     caught>>
      /\ file \in [Tokens -> [Tables -> FileState]]
  BY TypedHalves, CallOf
     DEF WriteOpen, At, table, client, history, CallsTyped, RestTyped, PutsHaveTables, Call
<1>2. CASE Finish(h) /\ UNCHANGED file
  <2>1. Quiet
    BY <1>1, <1>2 DEF Quiet, disk
  <2> QED BY <1>1, <1>2, <2>1, QuietFinish DEF Ending, Storing
<1>3. CASE /\ file' = [file EXCEPT ![thread[h].token][thread[h].table] = "partial"]
           /\ MoveTo(h, "write") /\ UNCHANGED cancelled
  <2>1. MovesOn(h, "write")
    BY <1>1, <1>3, MoveToMoves
  <2>2. PICK s \in Tokens : s = thread[h].token
    BY <1>1
  <2>3. PICK y \in Tables : y = thread[h].table
    BY <1>1
  <2>4. \A t \in Tokens, x \in Tables :
            file'[t][x] = IF t = s /\ x = y THEN "partial" ELSE file[t][x]
    BY <1>1, <1>3, <2>2, <2>3
  <2>5. CommitsEnd'
    BY <2>1 DEF FineInv, CommitsEnd, MovesOn, Ending, Storing
  <2>6. NothingBefore'
    <3>1. s \in opened
      BY <1>1, <2>2 DEF FineInv, NothingBefore
    <3>2. \A t \in Tokens \ {s} : Files(t)' = Files(t)
      BY <2>4 DEF Files
    <3> QED BY <1>1, <2>1, <3>1, <3>2 DEF FineInv, NothingBefore, MovesOn
  <2>7. ASSUME NEW t \in Tokens, t # s PROVE Fine(t)'
    <3>1. SameCalls(t)
      BY <1>1, <2>1, <2>2, <2>7, OtherCalls DEF MovesOn
    <3>2. file'[t] = file[t]
      BY <1>1, <1>3, <2>2, <2>7
    <3>3. SameBooks(t)
      BY <1>1, <3>2 DEF SameBooks, Swept, Good
    <3> QED BY <3>1, <3>3, Untouched DEF FineInv
  <2>8. Fine(s)'
    <3> SUFFICES ASSUME Good(s)'
                 PROVE  /\ CallsApart(s)' /\ EndsOnce(s)' /\ FilesAsAcked(s)'
                        /\ NotStoredYet(s)' /\ Discards(s)' /\ StoredWhole(s)'
      BY DEF Fine
    <3>1. /\ Good(s) /\ CallsApart(s) /\ EndsOnce(s) /\ FilesAsAcked(s)
          /\ NotStoredYet(s) /\ Discards(s) /\ StoredWhole(s)
      BY <1>1 DEF FineInv, Fine, Good
    <3>2. /\ h \in Serving(s) /\ Serving(s)' = Serving(s)
          /\ \A g \in Serving(s) \ {h} : thread'[g] = thread[g]
      BY <1>1, <2>1, <2>2 DEF Serving, MovesOn
    <3>3. s \in sessions /\ ~Swept(s) /\ ~Among(s, Ending)
      BY <1>1, <3>1, <3>2, LetIn DEF EndsOnce
    <3>4. CallsApart(s)'
      BY <1>1, <2>1, <3>1, <3>2 DEF CallsApart, MovesOn
    <3>5. EndsOnce(s)' /\ ~Among(s, Ending)'
      BY <1>1, <2>1, <3>1, <3>2, <3>3 DEF EndsOnce, Among, MovesOn, Swept, Ending, Storing
    <3>6. \A x : Writes(s, x)' <=> Writes(s, x) \/ x = y
      BY <1>1, <2>1, <2>3, <3>2 DEF Writes, MovesOn
    <3>7. y \notin acked[s]
      BY <1>1, <2>3, <3>1, <3>2 DEF CallsApart
    <3>8. FilesAsAcked(s)'
      <4>1. Collecting(s)
        BY <3>3 DEF Collecting
      <4> QED BY <1>1, <2>4, <3>1, <3>6, <3>7, <4>1 DEF FilesAsAcked
    <3>9. NotStoredYet(s)'
      <4>1. uploads[s] = {} /\ s \notin confirmed
        BY <3>1, <3>3 DEF NotStoredYet, Collecting
      <4>2. \A g \in Serving(s)' : thread'[g].at \notin {"list", "store"}
        BY <3>5 DEF Among, Ending, Storing
      <4> QED BY <1>1, <4>1, <4>2 DEF NotStoredYet
    <3>10. Discards(s)'
      <4>1. \A g \in Serving(s)' : thread'[g].at # "unlink"
        BY <3>5 DEF Among, Ending
      <4> QED BY <1>1, <3>3, <4>1 DEF Discards, Swept
    <3>11. StoredWhole(s)'
      BY <1>1, <3>1 DEF StoredWhole
    <3> QED BY <3>4, <3>5, <3>8, <3>9, <3>10, <3>11
  <2> QED BY <2>5, <2>6, <2>7, <2>8 DEF FineInv
<1> QED BY <1>2, <1>3 DEF WriteOpen

\* The table is whole when the put is answered with success.
LEMMA FineClose == ASSUME Typed, FineInv, NEW h \in Threads, WriteClose(h) PROVE FineInv'
<1>1. /\ thread[h] # Free /\ thread[h].at = "write" /\ thread[h].call = "put"
      /\ thread[h].token \in Tokens /\ thread[h].table \in Tables /\ Finish(h)
      /\ UNCHANGED <<sessions, dirs, sweeper, uploads, opened, confirmed, disturbed, caught>>
      /\ file \in [Tokens -> [Tables -> FileState]] /\ acked \in [Tokens -> SUBSET Tables]
  BY TypedHalves, CallOf
     DEF WriteClose, At, table, client, CallsTyped, RestTyped, PutsHaveTables, Call
<1>2. PICK s \in Tokens : s = thread[h].token
  BY <1>1
<1>3. PICK y \in Tables : y = thread[h].table
  BY <1>1
<1>4. \A t \in Tokens, x \in Tables :
          file'[t][x] = IF t = s /\ x = y /\ y \in Files(s) THEN "whole" ELSE file[t][x]
  <2>1. file' = IF y \in Files(s) THEN [file EXCEPT ![s][y] = "whole"] ELSE file
    BY <1>2, <1>3 DEF WriteClose
  <2> QED BY <1>1, <2>1
<1>5. \A t \in Tokens :
          acked'[t] = IF t = s /\ h \notin cancelled THEN acked[t] \cup {y} ELSE acked[t]
  <2>1. acked' = IF h \in cancelled THEN acked ELSE [acked EXCEPT ![s] = @ \cup {y}]
    BY <1>2, <1>3 DEF WriteClose
  <2> QED BY <1>1, <2>1
<1>6. /\ \A g \in Threads \ {h} : thread'[g] = thread[g]
      /\ thread'[h] = Free /\ cancelled' \subseteq cancelled
      /\ h \in Serving(s) /\ Serving(s)' = Serving(s) \ {h}
      /\ \A g \in Serving(s) \ {h} : thread'[g] = thread[g]
  BY <1>1, <1>2, FreedCalls
<1>7. CommitsEnd'
  BY <1>6 DEF FineInv, CommitsEnd
<1>8. NothingBefore'
  <2>1. s \in opened
    BY <1>1, <1>2 DEF FineInv, NothingBefore
  <2>2. \A t \in Tokens \ {s} : Files(t)' = Files(t)
    BY <1>4 DEF Files
  <2> QED BY <1>1, <1>5, <1>6, <2>1, <2>2 DEF FineInv, NothingBefore
<1>9. ASSUME NEW t \in Tokens, t # s PROVE Fine(t)'
  <2>1. SameCalls(t)
    BY <1>1, <1>2, <1>6, <1>9, OtherCalls
  <2>2. file'[t] = file[t]
    <3>1. file' = IF y \in Files(s) THEN [file EXCEPT ![s][y] = "whole"] ELSE file
      BY <1>2, <1>3 DEF WriteClose
    <3> QED BY <1>1, <1>9, <3>1
  <2>3. SameBooks(t)
    BY <1>1, <1>5, <1>9, <2>2 DEF SameBooks, Swept, Good
  <2> QED BY <2>1, <2>3, Untouched DEF FineInv
<1>10. Fine(s)'
  <2> SUFFICES ASSUME Good(s)'
               PROVE  /\ CallsApart(s)' /\ EndsOnce(s)' /\ FilesAsAcked(s)'
                      /\ NotStoredYet(s)' /\ Discards(s)' /\ StoredWhole(s)'
    BY DEF Fine
  <2>1. /\ Good(s) /\ CallsApart(s) /\ EndsOnce(s) /\ FilesAsAcked(s)
        /\ NotStoredYet(s) /\ Discards(s) /\ StoredWhole(s)
    BY <1>1 DEF FineInv, Fine, Good
  <2>2. s \in sessions /\ ~Swept(s) /\ ~Among(s, Ending)
    BY <1>1, <1>6, <2>1, LetIn DEF EndsOnce
  <2>3. h \notin cancelled /\ Collecting(s) /\ Writes(s, y)
    BY <1>1, <1>3, <1>6, <2>1, <2>2 DEF CallsApart, Collecting, Writes
  <2>4. y \in Files(s)
    BY <2>1, <2>3 DEF FilesAsAcked, Files
  <2>5. \A places : Among(s, places)' => Among(s, places)
    BY <1>6 DEF Among
  <2>6. CallsApart(s)'
    <3>1. acked'[s] = acked[s] \cup {y}
      BY <1>5, <2>3
    <3>2. ASSUME NEW g \in Serving(s) \ {h}
          PROVE  thread'[g] = thread[g] /\ thread[g].table # y /\ g \notin cancelled'
      BY <1>3, <1>6, <2>1 DEF CallsApart
    <3> QED BY <1>6, <2>1, <3>1, <3>2 DEF CallsApart
  <2>7. EndsOnce(s)'
    BY <1>1, <2>2, <2>5 DEF EndsOnce, Swept
  <2>8. FilesAsAcked(s)'
    <3>1. \A x : Writes(s, x)' => Writes(s, x) /\ x # y
      BY <1>1, <1>3, <1>6, <2>1 DEF Writes, CallsApart
    <3>2. \A x : Writes(s, x) => Writes(s, x)' \/ x = y
      BY <1>3, <1>6 DEF Writes
    <3>3. \A x \in Tables : acked'[s] = acked[s] \cup {y}
      BY <1>5, <2>3
    <3> QED BY <1>4, <2>1, <2>3, <2>4, <3>1, <3>2, <3>3 DEF FilesAsAcked
  <2>9. NotStoredYet(s)'
    <3>1. \A g \in Serving(s)' : thread'[g].at \notin {"list", "store"}
      BY <2>2, <2>5 DEF Among, Ending, Storing
    <3> QED BY <1>1, <2>1, <2>3, <3>1 DEF NotStoredYet
  <2>10. Discards(s)'
    <3>1. \A g \in Serving(s)' : thread'[g].at # "unlink"
      BY <2>2, <2>5 DEF Among, Ending
    <3> QED BY <1>1, <2>2, <3>1 DEF Discards, Swept
  <2>11. StoredWhole(s)'
    BY <1>1, <2>1, <2>3 DEF StoredWhole, NotStoredYet
  <2> QED BY <2>6, <2>7, <2>8, <2>9, <2>10, <2>11
<1> QED BY <1>7, <1>8, <1>9, <1>10 DEF FineInv

\* A full disk disturbs the session.
LEMMA FineFails == ASSUME Typed, FineInv, NEW h \in Threads, WriteFails(h) PROVE FineInv'
<1>1. /\ thread[h] # Free /\ Finish(h) /\ thread[h].token \in Tokens
      /\ disturbed' = disturbed \cup {thread[h].token}
      /\ UNCHANGED <<sessions, dirs, file, sweeper, uploads, opened, acked, confirmed, caught>>
  BY TypedHalves, CallOf DEF WriteFails, At, table, disk, client, Call
<1>2. thread'[h] = Free /\ \A g \in Threads \ {h} : thread'[g] = thread[g]
  BY <1>1, FinishKeeps
<1>3. CommitsEnd'
  BY <1>2 DEF FineInv, CommitsEnd
<1>4. NothingBefore'
  <2>1. \A t : Files(t)' = Files(t)
    BY <1>1 DEF Files
  <2> QED BY <1>1, <1>2, <2>1 DEF FineInv, NothingBefore
<1>5. ASSUME NEW t \in Tokens PROVE Fine(t)'
  <2>1. CASE t = thread[h].token
    BY <1>1, <2>1 DEF Fine, Good
  <2>2. CASE t # thread[h].token
    <3>1. SameCalls(t)
      BY <1>1, <1>2, <2>2, OtherCalls DEF Finish
    <3>2. SameBooks(t)
      BY <1>1, <2>2 DEF SameBooks, Swept, Good
    <3> QED BY <3>1, <3>2, Untouched DEF FineInv
  <2> QED BY <2>1, <2>2
<1> QED BY <1>3, <1>4, <1>5 DEF FineInv

\* A commit takes its session out of the table.
LEMMA FinePop == ASSUME Typed, FineInv, NEW h \in Threads, Pop(h) PROVE FineInv'
<1>1. /\ thread[h] # Free /\ thread[h].at = "pop" /\ thread[h].token \in Tokens
      /\ sessions' = sessions \ {thread[h].token} /\ MovesOn(h, "check")
      /\ UNCHANGED <<dirs, file, sweeper, uploads, opened, acked, confirmed, disturbed, caught>>
  BY TypedHalves, CallOf, MoveToMoves DEF Pop, At, disk, client, history, Call
<1>2. thread[h].call = "commit"
  BY <1>1 DEF FineInv, CommitsEnd
<1>3. PICK s \in Tokens : s = thread[h].token
  BY <1>1
<1>4. CommitsEnd'
  BY <1>1, <1>2 DEF FineInv, CommitsEnd, MovesOn
<1>5. NothingBefore'
  <2>1. \A t : Files(t)' = Files(t)
    BY <1>1 DEF Files
  <2> QED BY <1>1, <2>1 DEF FineInv, NothingBefore, MovesOn
<1>6. ASSUME NEW t \in Tokens, t # s PROVE Fine(t)'
  <2>1. SameCalls(t)
    BY <1>1, <1>3, <1>6, OtherCalls DEF MovesOn
  <2>2. SameBooks(t)
    BY <1>1, <1>3, <1>6 DEF SameBooks, Swept, Good
  <2> QED BY <2>1, <2>2, Untouched DEF FineInv
<1>7. Fine(s)'
  <2> SUFFICES ASSUME Good(s)'
               PROVE  /\ CallsApart(s)' /\ EndsOnce(s)' /\ FilesAsAcked(s)'
                      /\ NotStoredYet(s)' /\ Discards(s)' /\ StoredWhole(s)'
    BY DEF Fine
  <2>1. /\ Good(s) /\ CallsApart(s) /\ EndsOnce(s) /\ FilesAsAcked(s)
        /\ NotStoredYet(s) /\ Discards(s) /\ StoredWhole(s)
    BY <1>1 DEF FineInv, Fine, Good
  <2>2. h \in Serving(s) /\ Serving(s)' = Serving(s)
    BY <1>1, <1>3 DEF Serving, MovesOn
  <2>3. Serving(s) = {h}
    BY <1>2, <2>1, <2>2, CommitIsAlone
  <2>4. s \in sessions /\ ~Swept(s)
    BY <1>1, <2>1, <2>2, LetIn DEF EndsOnce
  <2>5. thread'[h].at = "check" /\ thread'[h].call = "commit" /\ cancelled' = cancelled
    BY <1>1, <1>2 DEF MovesOn
  <2>6. CallsApart(s)'
    BY <2>1, <2>2, <2>3, <2>5 DEF CallsApart
  <2>7. EndsOnce(s)'
    BY <1>1, <1>3, <2>2, <2>3, <2>4, <2>5 DEF EndsOnce, Among, Swept
  <2>8. (\A x : ~Writes(s, x)) /\ \A x : ~Writes(s, x)'
    BY <1>1, <2>2, <2>3, <2>5 DEF Writes
  <2>9. Collecting(s)
    BY <2>4 DEF Collecting
  <2>10. FilesAsAcked(s)'
    BY <1>1, <2>1, <2>8, <2>9 DEF FilesAsAcked
  <2>11. NotStoredYet(s)'
    BY <1>1, <2>1, <2>2, <2>3, <2>5, <2>9 DEF NotStoredYet
  <2>12. Discards(s)'
    BY <1>1, <2>2, <2>3, <2>4, <2>5 DEF Discards, Among, Swept, Ending, Storing
  <2>13. StoredWhole(s)'
    BY <1>1, <2>1 DEF StoredWhole
  <2> QED BY <2>6, <2>7, <2>10, <2>11, <2>12, <2>13
<1> QED BY <1>4, <1>5, <1>6, <1>7 DEF FineInv

\* A commit stores what the session has.
LEMMA FineStore == ASSUME Typed, FineInv, NEW h \in Threads, Store(h) PROVE FineInv'
<1>1. /\ thread[h] # Free /\ thread[h].at = "store" /\ thread[h].token \in Tokens
      /\ MovesOn(h, "discard")
      /\ UNCHANGED <<sessions, dirs, file, sweeper, opened, acked, disturbed, caught>>
      /\ uploads \in [Tokens -> SUBSET Upload] /\ thread[h].listed \in SUBSET Tables
  BY TypedHalves, CallOf, MoveToMoves DEF Store, At, table, disk, client, RestTyped, Call
<1>2. PICK s \in Tokens : s = thread[h].token
  BY <1>1
<1>3. /\ confirmed' = confirmed \cup {s}
      /\ \A t \in Tokens \ {s} : uploads'[t] = uploads[t]
      /\ thread[h].listed = {} => uploads'[s] = uploads[s]
      /\ thread[h].listed # {} =>
            \E up : /\ uploads'[s] = uploads[s] \cup {up}
                    /\ up.tables = [x \in thread[h].listed |-> file[s][x]]
  <2>1. CASE thread[h].listed = {}
    BY <1>2, <2>1 DEF Store
  <2>2. CASE thread[h].listed # {}
    <3> DEFINE up == [by |-> h, late |-> thread[h].late,
                      tables |-> [x \in thread[h].listed |-> file[thread[h].token][x]]]
    <3>1. uploads' = [uploads EXCEPT ![s] = @ \cup {up}] /\ confirmed' = confirmed \cup {s}
      BY <1>2, <2>2 DEF Store
    <3>2. up.tables = [x \in thread[h].listed |-> file[s][x]]
      BY <1>2
    <3> HIDE DEF up
    <3>3. /\ uploads'[s] = uploads[s] \cup {up}
          /\ \A t \in Tokens \ {s} : uploads'[t] = uploads[t]
      BY <1>1, <3>1
    <3> QED BY <2>2, <3>1, <3>2, <3>3
  <2> QED BY <2>1, <2>2
<1>4. thread[h].call = "commit"
  BY <1>1 DEF FineInv, CommitsEnd, Ending, Storing
<1>5. CommitsEnd'
  BY <1>1, <1>4 DEF FineInv, CommitsEnd, MovesOn
<1>6. NothingBefore'
  <2>1. \A t : Files(t)' = Files(t)
    BY <1>1 DEF Files
  <2>2. s \in opened
    BY <1>1, <1>2 DEF FineInv, NothingBefore
  <2> QED BY <1>1, <1>3, <2>1, <2>2 DEF FineInv, NothingBefore, MovesOn
<1>7. ASSUME NEW t \in Tokens, t # s PROVE Fine(t)'
  <2>1. SameCalls(t)
    BY <1>1, <1>2, <1>7, OtherCalls DEF MovesOn
  <2>2. SameBooks(t)
    BY <1>1, <1>3, <1>7 DEF SameBooks, Swept, Good
  <2> QED BY <2>1, <2>2, Untouched DEF FineInv
<1>8. Fine(s)'
  <2> SUFFICES ASSUME Good(s)'
               PROVE  /\ CallsApart(s)' /\ EndsOnce(s)' /\ FilesAsAcked(s)'
                      /\ NotStoredYet(s)' /\ Discards(s)' /\ StoredWhole(s)'
    BY DEF Fine
  <2>1. /\ Good(s) /\ CallsApart(s) /\ EndsOnce(s) /\ NotStoredYet(s) /\ Discards(s)
    BY <1>1 DEF FineInv, Fine, Good
  <2>2. h \in Serving(s) /\ Serving(s)' = Serving(s)
    BY <1>1, <1>2 DEF Serving, MovesOn
  <2>3. /\ Serving(s) = {h} /\ s \notin sessions /\ ~Swept(s) /\ uploads[s] = {}
        /\ \A x \in Tables : file[s][x] = "whole" <=> x \in acked[s]
        /\ \A x \in Tables : file[s][x] # "none" <=> x \in acked[s]
    BY <1>1, <2>1, <2>2, CommitSees DEF Ending, Storing
  <2>4. thread'[h].at = "discard" /\ thread'[h].call = "commit" /\ cancelled' = cancelled
    BY <1>1, <1>4 DEF MovesOn
  <2>5. CallsApart(s)'
    BY <2>1, <2>2, <2>3, <2>4 DEF CallsApart
  <2>6. EndsOnce(s)'
    BY <1>1, <2>2, <2>3, <2>4 DEF EndsOnce, Among, Swept
  <2>7. ~Collecting(s)'
    BY <1>1, <2>2, <2>3, <2>4 DEF Collecting, Among, Storing
  <2>8. FilesAsAcked(s)' /\ NotStoredYet(s)'
    BY <2>2, <2>3, <2>4, <2>7 DEF FilesAsAcked, NotStoredYet
  <2>9. Discards(s)'
    BY <1>1, <2>2, <2>3, <2>4 DEF Discards, Among, Swept, Ending, Storing
  <2>10. StoredWhole(s)'
    <3>1. thread[h].listed # {} /\ thread[h].listed = Files(s)
      BY <1>1, <2>1, <2>2 DEF NotStoredYet
    <3>2. PICK up : /\ uploads'[s] = {up}
                    /\ up.tables = [x \in thread[h].listed |-> file[s][x]]
      BY <1>3, <2>3, <3>1
    <3>3. thread[h].listed = acked[s]
      <4>1. acked[s] \subseteq Tables
        BY TypedHalves DEF RestTyped
      <4> QED BY <2>3, <3>1, <4>1 DEF Files
    <3>4. \A x \in acked[s] : file[s][x] = "whole"
      BY <1>1, <2>3, <3>3
    <3>5. up.tables = [x \in acked[s] |-> "whole"]
      BY <3>2, <3>3, <3>4
    <3> QED BY <1>1, <3>2, <3>5 DEF StoredWhole
  <2> QED BY <2>5, <2>6, <2>8, <2>9, <2>10
<1> QED BY <1>5, <1>6, <1>7, <1>8 DEF FineInv

\* The directory is discarded, file by file.
LEMMA FineUnlink ==
    ASSUME Typed, FineInv, NEW h \in Threads, NEW y \in Tables, DiscardUnlink(h, y)
    PROVE  FineInv'
<1>1. /\ thread[h] # Free /\ thread[h].at = "unlink" /\ thread[h] \in Call
      /\ thread[h].token \in Tokens
      /\ UNCHANGED <<sessions, dirs, sweeper, uploads, opened, acked, confirmed, disturbed,
                     caught, cancelled>>
      /\ file \in [Tokens -> [Tables -> FileState]]
      /\ thread \in [Threads -> Call \cup {Free}]
  BY TypedHalves, CallOf
     DEF DiscardUnlink, At, table, client, history, CallsTyped, RestTyped, Call
<1>2. PICK s \in Tokens : s = thread[h].token
  BY <1>1
<1>3. MovesOn(h, "unlink") /\ thread'[h].listed = thread[h].listed \ {y}
  <2> DEFINE c == [thread[h] EXCEPT !.listed = @ \ {y}]
  <2>1. /\ c \in Call /\ c.call = thread[h].call /\ c.table = thread[h].table
        /\ c.at = "unlink" /\ c.token = thread[h].token /\ c.listed = thread[h].listed \ {y}
    BY <1>1 DEF Call
  <2>2. thread' = [thread EXCEPT ![h] = c]
    BY DEF DiscardUnlink
  <2> HIDE DEF c
  <2>3. c # Free
    BY <2>1, FlightAssumption
  <2> QED BY <1>1, <2>1, <2>2, <2>3 DEF MovesOn
<1>4. \A t \in Tokens, x \in Tables :
          file'[t][x] = IF t = s /\ x = y THEN "none" ELSE file[t][x]
  BY <1>1, <1>2 DEF DiscardUnlink
<1>5. thread[h].call = "commit"
  BY <1>1 DEF FineInv, CommitsEnd, Ending
<1>6. CommitsEnd'
  BY <1>3, <1>5 DEF FineInv, CommitsEnd, MovesOn
<1>7. Files(s)' \subseteq Files(s) \ {y} /\ \A t \in Tokens \ {s} : Files(t)' = Files(t)
  BY <1>4 DEF Files
<1>8. NothingBefore'
  BY <1>1, <1>3, <1>7 DEF FineInv, NothingBefore, MovesOn
<1>9. ASSUME NEW t \in Tokens, t # s PROVE Fine(t)'
  <2>1. SameCalls(t)
    BY <1>1, <1>2, <1>3, <1>9, OtherCalls DEF MovesOn
  <2>2. file'[t] = file[t]
    BY <1>1, <1>2, <1>9 DEF DiscardUnlink
  <2>3. SameBooks(t)
    BY <1>1, <2>2 DEF SameBooks, Swept, Good
  <2> QED BY <2>1, <2>3, Untouched DEF FineInv
<1>10. Fine(s)'
  <2> SUFFICES ASSUME Good(s)'
               PROVE  /\ CallsApart(s)' /\ EndsOnce(s)' /\ FilesAsAcked(s)'
                      /\ NotStoredYet(s)' /\ Discards(s)' /\ StoredWhole(s)'
    BY DEF Fine
  <2>1. /\ Good(s) /\ CallsApart(s) /\ EndsOnce(s) /\ Discards(s) /\ StoredWhole(s)
    BY <1>1 DEF FineInv, Fine, Good
  <2>2. h \in Serving(s) /\ Serving(s)' = Serving(s)
    BY <1>1, <1>2, <1>3 DEF Serving, MovesOn
  <2>3. Serving(s) = {h} /\ s \notin sessions /\ ~Swept(s)
    BY <1>1, <2>1, <2>2, CommitSees DEF Ending
  <2>4. thread'[h].at = "unlink" /\ thread'[h].call = "commit" /\ cancelled' = cancelled
    BY <1>3, <1>5 DEF MovesOn
  <2>5. CallsApart(s)'
    BY <2>1, <2>2, <2>3, <2>4 DEF CallsApart
  <2>6. EndsOnce(s)'
    BY <1>1, <2>2, <2>3, <2>4 DEF EndsOnce, Among, Swept
  <2>7. ~Collecting(s)'
    BY <1>1, <2>2, <2>3, <2>4 DEF Collecting, Among, Storing
  <2>8. FilesAsAcked(s)' /\ NotStoredYet(s)'
    BY <2>2, <2>3, <2>4, <2>7 DEF FilesAsAcked, NotStoredYet
  <2>9. Files(s)' \subseteq thread'[h].listed
    BY <1>1, <1>3, <1>7, <2>1, <2>2 DEF Discards
  <2>10. Discards(s)'
    BY <1>1, <2>2, <2>3, <2>4, <2>9 DEF Discards, Among, Swept, Ending
  <2>11. StoredWhole(s)'
    BY <1>1, <2>1 DEF StoredWhole
  <2> QED BY <2>5, <2>6, <2>8, <2>10, <2>11
<1> QED BY <1>6, <1>8, <1>9, <1>10 DEF FineInv

\* With the last of its files gone, the directory is.
LEMMA FineRmdir == ASSUME Typed, FineInv, NEW h \in Threads, DiscardRmdir(h) PROVE FineInv'
<1>1. /\ thread[h] # Free /\ thread[h].at = "unlink" /\ thread[h].listed = {} /\ Finish(h)
      /\ thread[h].token \in Tokens
      /\ UNCHANGED <<sessions, file, sweeper, uploads, opened, acked, confirmed, disturbed,
                     caught>>
  BY TypedHalves, CallOf DEF DiscardRmdir, At, table, client, history, Call
<1>2. PICK s \in Tokens : s = thread[h].token
  BY <1>1
<1>3. dirs' = IF Files(s) = {} THEN dirs \ {s} ELSE dirs
  BY <1>2 DEF DiscardRmdir
<1>4. /\ \A g \in Threads \ {h} : thread'[g] = thread[g]
      /\ thread'[h] = Free /\ cancelled' \subseteq cancelled
      /\ h \in Serving(s) /\ Serving(s)' = Serving(s) \ {h}
  BY <1>1, <1>2, FreedCalls
<1>5. CommitsEnd'
  BY <1>4 DEF FineInv, CommitsEnd
<1>6. \A t : Files(t)' = Files(t)
  BY <1>1 DEF Files
<1>7. NothingBefore'
  BY <1>1, <1>4, <1>6 DEF FineInv, NothingBefore
<1>8. ASSUME NEW t \in Tokens, t # s PROVE Fine(t)'
  <2>1. SameCalls(t)
    BY <1>1, <1>2, <1>4, <1>8, OtherCalls
  <2>2. SameBooks(t)
    BY <1>1, <1>3 DEF SameBooks, Swept, Good
  <2> QED BY <2>1, <2>2, Untouched DEF FineInv
<1>9. Fine(s)'
  <2> SUFFICES ASSUME Good(s)'
               PROVE  /\ CallsApart(s)' /\ EndsOnce(s)' /\ FilesAsAcked(s)'
                      /\ NotStoredYet(s)' /\ Discards(s)' /\ StoredWhole(s)'
    BY DEF Fine
  <2>1. /\ Good(s) /\ CallsApart(s) /\ EndsOnce(s) /\ Discards(s) /\ StoredWhole(s)
    BY <1>1 DEF FineInv, Fine, Good
  <2>2. Serving(s)' = {} /\ s \notin sessions /\ ~Swept(s)
    BY <1>1, <1>4, <2>1, CommitSees DEF Ending
  <2>3. s \notin dirs'
    BY <1>1, <1>3, <1>4, <2>1 DEF Discards
  <2>4. CallsApart(s)' /\ EndsOnce(s)' /\ FilesAsAcked(s)' /\ NotStoredYet(s)'
    BY <1>1, <2>2 DEF CallsApart, EndsOnce, FilesAsAcked, NotStoredYet, Collecting, Among, Swept
  <2>5. Discards(s)'
    BY <1>1, <2>2, <2>3 DEF Discards, Swept
  <2>6. StoredWhole(s)'
    BY <1>1, <2>1 DEF StoredWhole
  <2> QED BY <2>4, <2>5, <2>6
<1> QED BY <1>5, <1>7, <1>8, <1>9 DEF FineInv

\* Every step of a handler thread keeps the invariant.
LEMMA FineHandler ==
    ASSUME Typed, FineInv, NEW h \in Threads, Handler(h) \/ ReadAll(h)
    PROVE  FineInv'
  BY FineLookup, FineTouch, FineReadAll, FineOpen, FineClose, FineFails, FinePop, FineCheck,
     FineProbe, FineList, FineStore, FineRefused, FineDiscardList, FineUnlink, FineRmdir
     DEF Handler

-----------------------------------------------------------------------------
(* The client, the sweeper and the process.                                *)

\* A new session has no files, no calls and no history.
LEMMA FineOpenSession ==
    ASSUME Typed, FineInv, NEW s \in Tokens, OpenSession(s)
    PROVE  FineInv'
<1>1. /\ s \notin opened /\ opened' = opened \cup {s}
      /\ sessions' = sessions \cup {s} /\ dirs' = dirs \cup {s}
      /\ UNCHANGED <<file, thread, cancelled, sweeper, uploads, acked, confirmed, disturbed,
                     caught>>
      /\ file \in [Tokens -> [Tables -> FileState]]
  BY TypedHalves DEF OpenSession, calls, history, RestTyped
<1>2. /\ Serving(s) = {} /\ Serving(s)' = {} /\ Files(s) = {} /\ acked[s] = {}
      /\ uploads[s] = {} /\ s \notin confirmed /\ ~Swept(s)
  BY <1>1, FlightAssumption DEF FineInv, NothingBefore, Serving, Swept
<1>3. CommitsEnd'
  BY <1>1 DEF FineInv, CommitsEnd
<1>4. NothingBefore'
  <2>1. \A t : Files(t)' = Files(t)
    BY <1>1 DEF Files
  <2> QED BY <1>1, <2>1 DEF FineInv, NothingBefore
<1>5. ASSUME NEW t \in Tokens, t # s PROVE Fine(t)'
  <2>1. SameCalls(t)
    BY <1>1 DEF SameCalls, Serving
  <2>2. SameBooks(t)
    BY <1>1, <1>5 DEF SameBooks, Swept, Good
  <2> QED BY <2>1, <2>2, Untouched DEF FineInv
<1>6. Fine(s)'
  <2>1. \A places : ~Among(s, places)'
    BY <1>2 DEF Among
  <2>2. CallsApart(s)' /\ NotStoredYet(s)' /\ StoredWhole(s)'
    BY <1>1, <1>2 DEF CallsApart, NotStoredYet, StoredWhole
  <2>3. ~Swept(s)' /\ s # sweeper'.current
    BY <1>1, <1>2 DEF Swept
  <2>4. EndsOnce(s)' /\ Discards(s)'
    BY <1>1, <1>2, <2>1, <2>3 DEF EndsOnce, Discards
  <2>5. \A x \in Tables : file[s][x] = "none" /\ ~Writes(s, x)'
    BY <1>2 DEF Files, Writes
  <2>6. FilesAsAcked(s)'
    BY <1>1, <1>2, <2>5 DEF FilesAsAcked
  <2> QED BY <2>2, <2>4, <2>6 DEF Fine
<1> QED BY <1>3, <1>4, <1>5, <1>6 DEF FineInv

\* A call that was not given up is served, and no call is of a session whose calls were.
LEMMA LiveOnes ==
    ASSUME NEW t \in Tokens, CallsApart(t)
    PROVE  Live(t) = Serving(t)
  BY DEF Live, CallsApart

\* A call the client may make stands apart from those under way, or disturbs its session.
LEMMA FineStartCall ==
    ASSUME Typed, FineInv, NEW s \in Tokens, NEW h \in Threads,
           NEW call \in {"put", "commit", "other"}, NEW y \in Tables \cup {NoTable},
           StartCall(s, h, call, y)
    PROVE  FineInv'
<1>1. /\ thread[h] = Free /\ h \notin cancelled /\ MayCall(s, call, y)
      /\ UNCHANGED <<sessions, dirs, file, cancelled, sweeper, uploads, opened, acked,
                     confirmed, disturbed, caught>>
  BY TypedHalves DEF StartCall, CallsTyped, table, disk, client, history
<1>2. /\ thread'[h] # Free /\ thread'[h].call = call /\ thread'[h].token = s
      /\ thread'[h].table = y /\ thread'[h].at = "lookup"
      /\ \A g \in Threads \ {h} : thread'[g] = thread[g]
  <2> DEFINE c == [call |-> call, token |-> s, table |-> y, at |-> "lookup", listed |-> {},
                   late |-> s \in truncated]
  <2>1. /\ c \in Call /\ c.call = call /\ c.token = s /\ c.table = y /\ c.at = "lookup"
    BY DEF Call
  <2>2. thread' = [thread EXCEPT ![h] = c] /\ thread \in [Threads -> Call \cup {Free}]
    BY TypedHalves DEF StartCall, CallsTyped
  <2> HIDE DEF c
  <2>3. c # Free
    BY <2>1, FlightAssumption
  <2> QED BY <2>1, <2>2, <2>3
<1>3. CommitsEnd'
  BY <1>2 DEF FineInv, CommitsEnd, Ending, Storing
<1>4. NothingBefore'
  <2>1. \A t : Files(t)' = Files(t)
    BY <1>1 DEF Files
  <2>2. s \in opened
    BY <1>1 DEF MayCall
  <2> QED BY <1>1, <1>2, <2>1, <2>2 DEF FineInv, NothingBefore
<1>5. ASSUME NEW t \in Tokens PROVE SameBooks(t)
  BY <1>1 DEF SameBooks, Swept, Good
<1>6. ASSUME NEW t \in Tokens, t # s PROVE Fine(t)'
  <2>1. SameCalls(t)
    BY <1>1, <1>2, <1>6 DEF SameCalls, Serving
  <2> QED BY <1>5, <2>1, Untouched DEF FineInv
<1>7. Fine(s)'
  <2> SUFFICES ASSUME Good(s)'
               PROVE  /\ CallsApart(s)' /\ EndsOnce(s)' /\ FilesAsAcked(s)'
                      /\ NotStoredYet(s)' /\ Discards(s)' /\ StoredWhole(s)'
    BY DEF Fine
  <2>1. /\ Good(s) /\ CallsApart(s) /\ EndsOnce(s) /\ FilesAsAcked(s)
        /\ NotStoredYet(s) /\ Discards(s) /\ StoredWhole(s)
    BY <1>1 DEF FineInv, Fine, Good
  <2>2. /\ h \notin Serving(s) /\ Serving(s)' = Serving(s) \cup {h}
        /\ \A g \in Serving(s) : thread'[g] = thread[g]
    BY <1>1, <1>2 DEF Serving
  <2>3. Live(s) = Serving(s)
    BY <2>1, LiveOnes
  <2>4. CallsApart(s)'
    <3>1. CASE call = "put"
      <4>1. /\ y \notin acked[s]
            /\ \A g \in Serving(s) : thread[g].call = "put" /\ thread[g].table # y
        BY <1>1, <2>3, <3>1 DEF MayCall
      <4> QED BY <1>1, <1>2, <2>1, <2>2, <3>1, <4>1 DEF CallsApart
    <3>2. CASE call # "put"
      <4>1. Serving(s) = {}
        BY <1>1, <2>3, <3>2 DEF MayCall
      <4> QED BY <1>1, <1>2, <2>2, <3>2, <4>1 DEF CallsApart
    <3> QED BY <3>1, <3>2
  <2>5. \A places : "lookup" \notin places => (Among(s, places)' <=> Among(s, places))
    BY <1>2, <2>2 DEF Among
  <2>6. \A x : Writes(s, x)' <=> Writes(s, x)
    BY <1>2, <2>2 DEF Writes
  <2>7. Files(s)' = Files(s)
    BY <1>1 DEF Files
  <2>8. Among(s, Ending)' <=> Among(s, Ending)
    BY <2>5 DEF Ending, Storing
  <2>9. Collecting(s)' <=> Collecting(s)
    <3>1. Among(s, Storing)' <=> Among(s, Storing)
      BY <2>5 DEF Storing
    <3> QED BY <1>1, <3>1 DEF Collecting
  <2>10. EndsOnce(s)'
    BY <1>1, <2>1, <2>5, <2>8 DEF EndsOnce, Swept
  <2>11. FilesAsAcked(s)'
    BY <1>1, <2>1, <2>6, <2>9 DEF FilesAsAcked
  <2>12. NotStoredYet(s)'
    BY <1>1, <1>2, <2>1, <2>2, <2>7, <2>9 DEF NotStoredYet
  <2>13. Discards(s)'
    BY <1>1, <1>2, <2>1, <2>2, <2>7, <2>8 DEF Discards, Swept
  <2>14. StoredWhole(s)'
    BY <1>1, <2>1 DEF StoredWhole
  <2> QED BY <2>4, <2>10, <2>11, <2>12, <2>13, <2>14
<1> QED BY <1>3, <1>4, <1>6, <1>7 DEF FineInv

\* A call given up disturbs its session; a client that dies between calls disturbs nothing.
LEMMA FineGivenUp ==
    ASSUME Typed, FineInv, NEW s \in Tokens, ClientDies(s) \/ \E h \in Threads : GiveUp(s, h)
    PROVE  FineInv'
<1>1. UNCHANGED <<sessions, dirs, file, thread, sweeper, uploads, opened, acked, confirmed,
                  caught>>
  BY DEF ClientDies, GiveUp, table, disk, client
<1>2. /\ \A h \in cancelled' : h \in cancelled \/ h \in Serving(s)
      /\ disturbed \subseteq disturbed' /\ disturbed' \subseteq disturbed \cup {s}
      /\ s \in disturbed' \/ Live(s) = {}
  BY DEF ClientDies, GiveUp, Live
<1>3. CommitsEnd'
  BY <1>1 DEF FineInv, CommitsEnd
<1>4. NothingBefore'
  <2>1. \A t : Files(t)' = Files(t)
    BY <1>1 DEF Files
  <2> QED BY <1>1, <2>1 DEF FineInv, NothingBefore
<1>5. ASSUME NEW t \in Tokens PROVE SameBooks(t)
  BY <1>1, <1>2 DEF SameBooks, Swept, Good
<1>6. ASSUME NEW t \in Tokens, t # s PROVE Fine(t)'
  <2>1. SameCalls(t)
    BY <1>1, <1>2, <1>6 DEF SameCalls, Serving
  <2> QED BY <1>5, <2>1, Untouched DEF FineInv
<1>7. Fine(s)'
  <2>1. CASE Good(s)'
    <3>1. Good(s) /\ Live(s) = {}
      BY <1>1, <1>2, <2>1 DEF Good
    <3>2. Serving(s) = {}
      BY <3>1, LiveOnes DEF FineInv, Fine
    <3>3. SameCalls(s)
      BY <1>1, <3>2 DEF SameCalls, Serving
    <3> QED BY <1>5, <3>3, Untouched DEF FineInv
  <2>2. CASE ~Good(s)'
    BY <2>2 DEF Fine
  <2> QED BY <2>1, <2>2
<1> QED BY <1>3, <1>4, <1>6, <1>7 DEF FineInv

\* The sweeper at a session it has taken.
LEMMA SweptFine ==
    ASSUME NEW t \in Tokens, Fine(t), Swept(t), SameCalls(t),
           UNCHANGED <<sessions, uploads, acked, confirmed, disturbed, caught>>,
           Good(t) => /\ t = sweeper'.current => Files(t)' \subseteq sweeper'.left
                      /\ Swept(t)' \/ t \notin dirs'
    PROVE  Fine(t)'
<1> SUFFICES ASSUME Good(t)'
             PROVE  /\ CallsApart(t)' /\ EndsOnce(t)' /\ FilesAsAcked(t)'
                    /\ NotStoredYet(t)' /\ Discards(t)' /\ StoredWhole(t)'
  BY DEF Fine
<1>1. /\ Good(t) /\ CallsApart(t) /\ EndsOnce(t) /\ StoredWhole(t)
  BY DEF Fine, Good
<1>2. \A places : Among(t, places)' <=> Among(t, places)
  BY DEF Among, SameCalls
<1>3. t \notin sessions /\ ~Among(t, Ending)
  BY <1>1 DEF EndsOnce
<1>4. \A g \in Serving(t)' : thread'[g].at \notin Ending
  BY <1>2, <1>3 DEF Among
<1>5. ~Collecting(t)'
  BY <1>3, <1>4 DEF Collecting, Among, Ending
<1>6. CallsApart(t)' /\ EndsOnce(t)'
  BY <1>1, <1>2, <1>3 DEF CallsApart, EndsOnce, SameCalls
<1>7. FilesAsAcked(t)' /\ NotStoredYet(t)'
  BY <1>4, <1>5 DEF FilesAsAcked, NotStoredYet, Ending, Storing
<1>8. Discards(t)'
  BY <1>1, <1>4 DEF Discards, Ending
<1>9. StoredWhole(t)'
  BY <1>1 DEF StoredWhole
<1> QED BY <1>6, <1>7, <1>8, <1>9

\* The sweeper takes the sessions that have expired.
LEMMA FineSweepPop == ASSUME Typed, FineInv, SweepPop PROVE FineInv'
<1>1. /\ sweeper.todo = {} /\ sweeper.current = NoToken
      /\ sweeper'.todo = Expired /\ sweeper'.current = NoToken
      /\ sessions' = sessions \ Expired /\ Expired \subseteq sessions
      /\ sessions \subseteq opened /\ NoToken \notin Tokens
      /\ caught' = caught \cup {t \in Expired : Serving(t) # {}}
      /\ UNCHANGED <<dirs, file, thread, cancelled, uploads, opened, acked, confirmed,
                     disturbed>>
  BY TypedHalves, FlightAssumption
     DEF SweepPop, Asleep, Expired, disk, calls, client, RestTyped
<1>2. CommitsEnd'
  BY <1>1 DEF FineInv, CommitsEnd
<1>3. NothingBefore'
  <2>1. \A t : Files(t)' = Files(t)
    BY <1>1 DEF Files
  <2> QED BY <1>1, <2>1 DEF FineInv, NothingBefore
<1>4. ASSUME NEW t \in Tokens PROVE SameCalls(t)
  BY <1>1 DEF SameCalls, Serving
<1>5. ASSUME NEW t \in Tokens, t \notin Expired PROVE Fine(t)'
  <2>1. SameBooks(t)
    BY <1>1, <1>5 DEF SameBooks, Swept, Good
  <2> QED BY <1>4, <2>1, Untouched DEF FineInv
<1>6. ASSUME NEW t \in Tokens, t \in Expired PROVE Fine(t)'
  <2> SUFFICES ASSUME Good(t)'
               PROVE  /\ CallsApart(t)' /\ EndsOnce(t)' /\ FilesAsAcked(t)'
                      /\ NotStoredYet(t)' /\ Discards(t)' /\ StoredWhole(t)'
    BY DEF Fine
  <2>1. Good(t) /\ StoredWhole(t)
    BY <1>1 DEF FineInv, Fine, Good
  <2>2. Serving(t)' = {}
    BY <1>1, <1>6 DEF Good, Serving
  <2>3. t \notin sessions' /\ Swept(t)' /\ t # sweeper'.current
    BY <1>1, <1>6 DEF Swept
  <2>4. CallsApart(t)' /\ EndsOnce(t)' /\ FilesAsAcked(t)' /\ NotStoredYet(t)'
    BY <2>2, <2>3 DEF CallsApart, EndsOnce, FilesAsAcked, NotStoredYet, Collecting, Among
  <2>5. Discards(t)'
    BY <2>2, <2>3 DEF Discards
  <2>6. StoredWhole(t)'
    BY <1>1, <2>1 DEF StoredWhole
  <2> QED BY <2>4, <2>5, <2>6
<1> QED BY <1>2, <1>3, <1>5, <1>6 DEF FineInv

\* And discards them, one after another.
LEMMA FineSweepList ==
    ASSUME Typed, FineInv, NEW s \in Tokens, SweepList(s)
    PROVE  FineInv'
<1>1. /\ sweeper.current = NoToken /\ s \in sweeper.todo /\ NoToken \notin Tokens
      /\ sweeper'.todo = sweeper.todo \ {s} /\ sweeper'.current = s
      /\ sweeper'.left = Files(s)
      /\ UNCHANGED <<sessions, dirs, file, thread, cancelled, uploads, opened, acked,
                     confirmed, disturbed, caught>>
  BY FlightAssumption DEF SweepList, table, disk, calls, client, history
<1>2. CommitsEnd'
  BY <1>1 DEF FineInv, CommitsEnd
<1>3. \A t : Files(t)' = Files(t)
  BY <1>1 DEF Files
<1>4. NothingBefore'
  BY <1>1, <1>3 DEF FineInv, NothingBefore
<1>5. ASSUME NEW t \in Tokens PROVE SameCalls(t)
  BY <1>1 DEF SameCalls, Serving
<1>6. ASSUME NEW t \in Tokens, t # s PROVE Fine(t)'
  <2>1. SameBooks(t)
    BY <1>1, <1>6 DEF SameBooks, Swept, Good
  <2> QED BY <1>5, <2>1, Untouched DEF FineInv
<1>7. Fine(s)'
  <2>1. Swept(s) /\ Swept(s)'
    BY <1>1 DEF Swept
  <2> QED BY <1>1, <1>3, <1>5, <2>1, SweptFine DEF FineInv
<1> QED BY <1>2, <1>4, <1>6, <1>7 DEF FineInv

\* The sweeper removes a file that is on its list.
LEMMA FineSweepUnlink ==
    ASSUME Typed, FineInv, NEW y \in Tables, SweepUnlink(y)
    PROVE  FineInv'
<1>1. /\ sweeper.current \in Tokens
      /\ sweeper'.todo = sweeper.todo /\ sweeper'.current = sweeper.current
      /\ sweeper'.left = sweeper.left \ {y}
      /\ file' = [file EXCEPT ![sweeper.current][y] = "none"]
      /\ UNCHANGED <<sessions, dirs, thread, cancelled, uploads, opened, acked, confirmed,
                     disturbed, caught>>
      /\ file \in [Tokens -> [Tables -> FileState]]
  BY TypedHalves DEF SweepUnlink, table, calls, client, history, RestTyped
<1>2. PICK s \in Tokens : s = sweeper.current
  BY <1>1
<1>3. \A t \in Tokens, x \in Tables :
          file'[t][x] = IF t = s /\ x = y THEN "none" ELSE file[t][x]
  BY <1>1, <1>2
<1>4. Files(s)' \subseteq Files(s) \ {y} /\ \A t \in Tokens \ {s} : Files(t)' = Files(t)
  BY <1>3 DEF Files
<1>5. CommitsEnd'
  BY <1>1 DEF FineInv, CommitsEnd
<1>6. NothingBefore'
  BY <1>1, <1>4 DEF FineInv, NothingBefore
<1>7. ASSUME NEW t \in Tokens PROVE SameCalls(t)
  BY <1>1 DEF SameCalls, Serving
<1>8. ASSUME NEW t \in Tokens, t # s PROVE Fine(t)'
  <2>1. file'[t] = file[t]
    BY <1>1, <1>2, <1>8
  <2>2. SameBooks(t)
    BY <1>1, <1>2, <1>8, <2>1 DEF SameBooks, Swept, Good
  <2> QED BY <1>7, <2>2, Untouched DEF FineInv
<1>9. Fine(s)'
  <2>1. Swept(s) /\ Swept(s)'
    BY <1>1, <1>2 DEF Swept
  <2>2. Good(s) => Files(s)' \subseteq sweeper'.left
    BY <1>1, <1>2, <1>4 DEF FineInv, Fine, Discards
  <2> QED BY <1>1, <1>7, <2>1, <2>2, SweptFine DEF FineInv
<1> QED BY <1>5, <1>6, <1>8, <1>9 DEF FineInv

\* The sweeper removes a directory whose files are gone.
LEMMA FineSweepRmdir == ASSUME Typed, FineInv, SweepRmdir PROVE FineInv'
<1>1. /\ sweeper.current \in Tokens /\ sweeper.left = {} /\ NoToken \notin Tokens
      /\ sweeper'.todo = sweeper.todo /\ sweeper'.current = NoToken
      /\ UNCHANGED <<sessions, file, thread, cancelled, uploads, opened, acked, confirmed,
                     disturbed, caught>>
  BY TypedHalves, FlightAssumption
     DEF SweepRmdir, table, calls, client, history, RestTyped
<1>2. PICK s \in Tokens : s = sweeper.current
  BY <1>1
<1>3. dirs' = IF Files(s) = {} THEN dirs \ {s} ELSE dirs
  BY <1>2 DEF SweepRmdir
<1>4. CommitsEnd'
  BY <1>1 DEF FineInv, CommitsEnd
<1>5. NothingBefore'
  <2>1. \A t : Files(t)' = Files(t)
    BY <1>1 DEF Files
  <2> QED BY <1>1, <2>1 DEF FineInv, NothingBefore
<1>6. ASSUME NEW t \in Tokens PROVE SameCalls(t)
  BY <1>1 DEF SameCalls, Serving
<1>7. ASSUME NEW t \in Tokens, t # s PROVE Fine(t)'
  <2>1. SameBooks(t)
    BY <1>1, <1>2, <1>3, <1>7 DEF SameBooks, Swept, Good
  <2> QED BY <1>6, <2>1, Untouched DEF FineInv
<1>8. Fine(s)'
  <2>1. Swept(s)
    BY <1>2 DEF Swept
  <2>2. Good(s) => s \notin dirs'
    BY <1>1, <1>2, <1>3 DEF FineInv, Fine, Discards
  <2>3. s # sweeper'.current
    BY <1>1
  <2> QED BY <1>1, <1>6, <2>1, <2>2, <2>3, SweptFine DEF FineInv
<1> QED BY <1>4, <1>5, <1>7, <1>8 DEF FineInv

\* A restart leaves nothing of any session but what was stored of it.
LEMMA FineRestart == ASSUME Typed, FineInv, Restart PROVE FineInv'
<1>1. /\ sessions' = {} /\ dirs' = {} /\ sweeper'.todo = {} /\ sweeper'.current = NoToken
      /\ file' = [t \in Tokens |-> [x \in Tables |-> "none"]]
      /\ \A h \in Threads : thread'[h] = Free
      /\ UNCHANGED <<uploads, opened, acked, confirmed, disturbed, caught>>
      /\ NoToken \notin Tokens
  BY FlightAssumption DEF Restart, Asleep, client, history
<1>2. \A t \in Tokens : Files(t)' = {}
  BY <1>1 DEF Files
<1>3. CommitsEnd'
  BY <1>1 DEF CommitsEnd
<1>4. NothingBefore'
  BY <1>1, <1>2 DEF FineInv, NothingBefore
<1>5. ASSUME NEW t \in Tokens PROVE Fine(t)'
  <2> SUFFICES ASSUME Good(t)'
               PROVE  /\ CallsApart(t)' /\ EndsOnce(t)' /\ FilesAsAcked(t)'
                      /\ NotStoredYet(t)' /\ Discards(t)' /\ StoredWhole(t)'
    BY DEF Fine
  <2>1. StoredWhole(t)'
    BY <1>1 DEF FineInv, Fine, Good, StoredWhole
  <2>2. Serving(t)' = {} /\ ~Swept(t)' /\ t # sweeper'.current
    BY <1>1 DEF Serving, Swept
  <2>3. CallsApart(t)' /\ EndsOnce(t)' /\ FilesAsAcked(t)' /\ NotStoredYet(t)'
    BY <1>1, <2>2 DEF CallsApart, EndsOnce, FilesAsAcked, NotStoredYet, Collecting, Among
  <2>4. Discards(t)'
    BY <1>1, <2>2 DEF Discards
  <2> QED BY <2>1, <2>3, <2>4
<1> QED BY <1>3, <1>4, <1>5 DEF FineInv

\* Before anybody calls there is no session to say anything of.
LEMMA FineInit == Init => FineInv
<1> SUFFICES ASSUME Init PROVE FineInv
  OBVIOUS
<1>1. /\ sessions = {} /\ dirs = {} /\ sweeper.todo = {} /\ sweeper.current = NoToken
      /\ \A t \in Tokens : acked[t] = {} /\ uploads[t] = {} /\ Files(t) = {}
      /\ \A h \in Threads : thread[h] = Free
      /\ confirmed = {} /\ NoToken \notin Tokens
  BY FlightAssumption DEF Init, Asleep, Files
<1>2. CommitsEnd /\ NothingBefore
  BY <1>1 DEF CommitsEnd, NothingBefore
<1>3. ASSUME NEW t \in Tokens PROVE Fine(t)
  <2>1. Serving(t) = {} /\ ~Swept(t) /\ t # sweeper.current
    BY <1>1 DEF Serving, Swept
  <2>2. CallsApart(t) /\ EndsOnce(t) /\ FilesAsAcked(t) /\ NotStoredYet(t)
    BY <1>1, <2>1 DEF CallsApart, EndsOnce, FilesAsAcked, NotStoredYet, Collecting, Among
  <2>3. Discards(t) /\ StoredWhole(t)
    BY <1>1, <2>1 DEF Discards, StoredWhole
  <2> QED BY <2>2, <2>3 DEF Fine
<1> QED BY <1>2, <1>3 DEF FineInv

\* Every step keeps every session that is undisturbed fine.
LEMMA FineStep == Typed /\ FineInv /\ [Next]_vars => FineInv'
<1> SUFFICES ASSUME Typed, FineInv, [Next]_vars PROVE FineInv'
  OBVIOUS
<1>1. CASE \/ UNCHANGED vars
           \/ \E t \in Tokens : TimePasses(t)
  <2>1. UNCHANGED <<sessions, dirs, file, thread, cancelled, sweeper, uploads, opened, acked,
                    confirmed, disturbed, caught>>
    BY <1>1 DEF TimePasses, vars, table, disk, calls, client, history
  <2>2. CommitsEnd'
    BY <2>1 DEF FineInv, CommitsEnd
  <2>3. NothingBefore'
    BY <2>1 DEF FineInv, NothingBefore, Files
  <2>4. ASSUME NEW t \in Tokens PROVE Fine(t)'
    <3>1. SameCalls(t) /\ SameBooks(t)
      BY <2>1 DEF SameCalls, SameBooks, Serving, Swept, Good
    <3> QED BY <3>1, Untouched DEF FineInv
  <2> QED BY <2>2, <2>3, <2>4 DEF FineInv
<1>2. ASSUME NEW t \in Tokens, Client(t) PROVE FineInv'
  BY <1>2, FineOpenSession, FineStartCall, FineGivenUp DEF Client
<1>3. CASE Sweeper
  BY <1>3, FineSweepPop, FineSweepList, FineSweepUnlink, FineSweepRmdir DEF Sweeper
<1> QED BY <1>1, <1>2, <1>3, FineHandler, FineRestart DEF Next

\* The two invariants hold together in every reachable state.
LEMMA FineAlways == Spec => [](Typed /\ FineInv)
<1>1. Init => Typed /\ FineInv
  BY TypedInit, FineInit
<1>2. Typed /\ FineInv /\ [Next]_vars => (Typed /\ FineInv)'
  BY TypedStep, FineStep
<1> QED BY <1>1, <1>2, PTL DEF Spec

\* "One upload spans several DoPut calls and is stored only on an explicit commit"
\* (dropzones/requirements.md:139), for any number of sessions, threads and tables and any
\* interleaving of their calls with the sweeper: a client that gave no call up and was not
\* swept within one has at most one upload, of exactly the tables that were acknowledged.
THEOREM UndisturbedIsWhole == Spec => []UndisturbedUploadIsWhole
<1>1. FineInv => UndisturbedUploadIsWhole
  BY DEF FineInv, Fine, Good, StoredWhole, UndisturbedUploadIsWhole
<1> QED BY <1>1, FineAlways, PTL

\* "Each session collects its tables in its own throwaway directory, discarded when the
\* session ends however it ends" (requirements.md:146): no file is left that would keep
\* rmtree from the directory, whoever ends the session.
THEOREM NothingIsLeft == Spec => []EndedLeavesNoDirectory
<1>1. FineInv => EndedLeavesNoDirectory
  BY DEF FineInv, Fine, Good, Discards, Among, Swept, EndedLeavesNoDirectory
<1> QED BY <1>1, FineAlways, PTL
=============================================================================
