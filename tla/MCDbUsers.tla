------------------------------ MODULE MCDbUsers ------------------------------
(***************************************************************************)
(* Two people and three usernames over two role names: two usernames slug  *)
(* to one role, the third to that of a service, which a tenant of its name *)
(* can take away. Two people meet on one role name by renaming and by      *)
(* reusing the name of a deleted user.                                     *)
(***************************************************************************)
EXTENDS DbUsers, TLC

CONSTANTS u1, u2, n1, n2, n3, r1, svc

MCRoleNameFor == (n1 :> r1) @@ (n2 :> r1) @@ (n3 :> svc)

\* The higher of two groups is granted, and any other is left.
MCClaims == {{"viewer", "admin"}}

\* Staff with no role group or one, and a superuser who may be deactivated.
MCPosts ==
    [state : {"present"}, name : Names, active : {TRUE}, staff : {TRUE},
     superuser : {FALSE}, groups : {{}, {"viewer"}}]
    \cup
    [state : {"present"}, name : Names, active : BOOLEAN, staff : {TRUE},
     superuser : {TRUE}, groups : {{}}]

Symmetry == Permutations(Users)
=============================================================================
