------------------------------- MODULE MCPlatform -------------------------------
(***************************************************************************)
(* Five parts that share no state: the tenants, the visit log, the host's  *)
(* history, the joined histories and the lineage graph.  A behaviour takes *)
(* one of them, which explores each alone and not the product of all.      *)
(*                                                                         *)
(* Tenants: two slugs, the second the name of a service's role; a name and *)
(* the slug itself used as one; and two forms, one of them with limits the *)
(* database refuses.                                                       *)
(***************************************************************************)
EXTENDS Tenants, VisitLog, HostHistory, TemporalJoin, Lineage, TLC

CONSTANTS n1, svc, dA, dB, c1

VARIABLE part

MCNames == {n1, svc}
MCDisplays == {dA, dB}
MCSlug == (dA :> n1) @@ (dB :> svc)
MCCaps == {c1}
MCForms == {[display |-> dA, limits |-> c1], [display |-> dB, limits |-> Malformed]}

MCInit ==
    /\ part \in {"tenants", "visits", "history", "join", "lineage"}
    /\ Init /\ VisitsInit /\ HistoryInit /\ JoinInit /\ LineageInit

MCNext ==
    /\ UNCHANGED part
    /\ \/ /\ part = "tenants" /\ Next
          /\ UNCHANGED <<visitVars, historyVars, joinVars, lineageVars>>
       \/ /\ part = "visits" /\ VisitsNext
          /\ UNCHANGED <<vars, historyVars, joinVars, lineageVars>>
       \/ /\ part = "history" /\ HistoryNext
          /\ UNCHANGED <<vars, visitVars, joinVars, lineageVars>>
       \/ /\ part = "join" /\ JoinNext
          /\ UNCHANGED <<vars, visitVars, historyVars, lineageVars>>
       \/ /\ part = "lineage" /\ LineageNext
          /\ UNCHANGED <<vars, visitVars, historyVars, joinVars>>

MCSpec == MCInit /\ [][MCNext]_<<part, vars, visitVars, historyVars, joinVars, lineageVars>>
=============================================================================
