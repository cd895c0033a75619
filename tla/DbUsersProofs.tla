---------------------------- MODULE DbUsersProofs ----------------------------
(***************************************************************************)
(* Proofs about DbUsers, for every set of users, names and roles: its type *)
(* invariant, the agreement of rows and catalog, the ownership of claimed  *)
(* passwords, the two action properties, and that every step is one Access *)
(* allows.                                                                 *)
(*                                                                         *)
(* RowsMatchCatalog is inductive once the types are known and what is      *)
(* listed as a tenant is known to be no person's (OnboardedForeign, for    *)
(* delete_tenant asks nothing of the role it drops). Everything else rests *)
(* on it: it is what tells sync that a row which looks right needs no      *)
(* change, and what keeps one user's change out of another's row.          *)
(***************************************************************************)
EXTENDS DbUsers, TLAPS

-----------------------------------------------------------------------------
(* The operators.                                                          *)

\* The highest of several ranks is a rank, or "none".
LEMMA RankOfGroups ==
    ASSUME NEW groups, NEW superuser
    PROVE  DbRoleForUser(groups, superuser) \in Rank
  BY DEF DbRoleForUser, HighestRole, Rank, Ranks

\* Nobody is entitled to anything but a rank.
LEMMA EntitledIsRank == ASSUME NEW p PROVE Entitled(p) \in Rank
  BY RankOfGroups DEF Entitled, Rank

\* A blank account is a person of the type the table holds.
LEMMA BlankIsPerson ==
    ASSUME NEW state \in {"new", "present", "deleted"}
    PROVE  Blank(state) \in Person
  <1>1. (CHOOSE n \in Names : TRUE) \in Names
    BY DbUsersAssumption
  <1> QED BY <1>1 DEF Blank, Person, Ranks

\* The functions of gf_0003 leave a catalog of roles behind.
LEMMA CatalogTypes ==
    ASSUME TypeOK, NEW r \in Roles
    PROVE  /\ \A password \in Users \cup {NoOne}, rank \in Ranks :
                  CreateDbUser(r, password, rank) \in [Roles -> PgRole]
           /\ DeleteDbUser(r) \in [Roles -> PgRole]
           /\ ClearDbUserPassword(r) \in [Roles -> PgRole]
           /\ DropDbUser(r) \in [Roles -> PgRole]
  <1> USE DEF TypeOK
  <1>1. role \in [Roles -> PgRole]
    OBVIOUS
  <1>2. role[r] \in PgRole
    BY <1>1
  <1>3. ASSUME NEW password \in Users \cup {NoOne}, NEW rank \in Ranks
        PROVE  CreateDbUser(r, password, rank) \in [Roles -> PgRole]
    <2>1. [kind |-> "person", login |-> TRUE, ranks |-> {rank},
           password |-> IF password = NoOne THEN role[r].password ELSE password] \in PgRole
      BY <1>2 DEF PgRole, Owners
    <2> QED BY <1>1, <2>1 DEF CreateDbUser
  <1>4. DeleteDbUser(r) \in [Roles -> PgRole]
    BY <1>1, <1>2 DEF DeleteDbUser, PgRole
  <1>5. ClearDbUserPassword(r) \in [Roles -> PgRole]
    BY <1>1, <1>2 DEF ClearDbUserPassword, PgRole, Owners
  <1>6. AbsentRole \in PgRole
    BY DEF AbsentRole, PgRole, Owners
  <1>7. DropDbUser(r) \in [Roles -> PgRole]
    BY <1>1, <1>6 DEF DropDbUser
  <1> QED BY <1>3, <1>4, <1>5, <1>7

\* A user who has an account has one of the type the table holds.
LEMMA RowType ==
    ASSUME TypeOK, NEW u \in Users, HasAccount(u)
    PROVE  account[u] \in Account /\ account[u].role \in Roles
  BY DEF TypeOK, HasAccount, Account

-----------------------------------------------------------------------------
(* Type correctness.                                                       *)

\* The database the installation starts from.
LEMMA TypeInit == Init => TypeOK
  <1> SUFFICES ASSUME Init PROVE TypeOK
    OBVIOUS
  <1>1. user \in [Users -> Person]
    BY BlankIsPerson DEF Init
  <1>2. AbsentRole \in PgRole /\ [AbsentRole EXCEPT !.kind = "service", !.login = TRUE] \in PgRole
    BY DEF AbsentRole, PgRole, Owners
  <1>3. role \in [Roles -> PgRole]
    BY <1>2 DEF Init
  <1> QED BY <1>1, <1>3 DEF Init, TypeOK

\* The account and the catalog stay typed under everything that touches them.
LEMMA ChangeTypes ==
    ASSUME TypeOK, NEW u \in Users,
           \/ Sync(u)
           \/ IssueCredential(u)
           \/ \E edited \in Posts : Enroll(u, edited)
           \/ HasAccount(u) /\ Remove(u)
    PROVE  account' \in [Users -> Account \cup {NoAccount}] /\ role' \in [Roles -> PgRole]
  <1>0. account \in [Users -> Account \cup {NoAccount}] /\ role \in [Roles -> PgRole]
    BY DEF TypeOK
  <1>1. CASE Sync(u)
    <2>1. CASE UNCHANGED <<account, role>>
      BY <1>0, <2>1
    <2>2. CASE /\ HasAccount(u)
               /\ role' = DeleteDbUser(account[u].role)
               /\ account' = [account EXCEPT ![u].enabled = FALSE]
      BY <1>0, <2>2, RowType, CatalogTypes DEF Account
    <2>3. CASE /\ HasAccount(u) /\ Entitled(user[u]) # "none"
               /\ role' = CreateDbUser(account[u].role, NoOne, Entitled(user[u]))
               /\ account' = [account EXCEPT ![u].rank = Entitled(user[u]), ![u].enabled = TRUE]
      <3>1. Entitled(user[u]) \in Ranks
        BY <2>3, EntitledIsRank DEF Rank
      <3>2. role' \in [Roles -> PgRole]
        BY <2>3, <3>1, RowType, CatalogTypes
      <3>3. account' \in [Users -> Account \cup {NoAccount}]
        BY <1>0, <2>3, <3>1, RowType DEF Account
      <3> QED BY <3>2, <3>3
    <2> QED BY <1>1, <2>1, <2>2, <2>3 DEF Sync
  <1>2. CASE IssueCredential(u)
    <2>1. CASE UNCHANGED <<account, role>>
      BY <1>0, <2>1
    <2>2. CASE /\ HasAccount(u)
               /\ role' = CreateDbUser(account[u].role, u, account[u].rank)
               /\ account' = [account EXCEPT ![u].awaiting = FALSE, ![u].enabled = TRUE]
      <3>1. account[u].rank \in Ranks
        BY <2>2, RowType DEF Account
      <3> QED BY <1>0, <2>2, <3>1, RowType, CatalogTypes DEF Account
    <2> QED BY <1>2, <2>1, <2>2 DEF IssueCredential
  <1>3. CASE \E edited \in Posts : Enroll(u, edited)
    <2>1. PICK edited \in Posts : Enroll(u, edited)
      BY <1>3
    <2> DEFINE r == RoleNameFor[edited.name]
               rank == DbRoleForUser(user[u].groups, edited.superuser)
    <2>2. r \in Roles
      BY DbUsersAssumption DEF Person
    <2>3. rank \in Ranks
      BY <2>1, RankOfGroups DEF Enroll, Rank
    <2>4. role' = CreateDbUser(r, NoOne, rank)
      BY <2>1 DEF Enroll
    <2>5. account' = [account EXCEPT ![u] =
                        [role |-> r, rank |-> rank, enabled |-> TRUE, awaiting |-> TRUE]]
      BY <2>1 DEF Enroll
    <2> HIDE DEF r, rank
    <2>6. [role |-> r, rank |-> rank, enabled |-> TRUE, awaiting |-> TRUE] \in Account
      BY <2>2, <2>3 DEF Account
    <2> QED BY <1>0, <2>2, <2>3, <2>4, <2>5, <2>6, CatalogTypes
  <1>4. CASE HasAccount(u) /\ Remove(u)
    BY <1>0, <1>4, RowType, CatalogTypes DEF Remove
  <1> QED BY <1>1, <1>2, <1>3, <1>4

\* What the steps of a request make of the worker.
LEMMA WorkerTypes ==
    ASSUME TypeOK, NEW u \in Users
    PROVE  /\ [at |-> "refused", user |-> u, granted |-> "none"] \in Request
           /\ [at |-> "sync", user |-> u, granted |-> "none"] \in Request
           /\ worker.at = "groups" => /\ worker.granted \in Ranks
                                      /\ [worker EXCEPT !.at = "flags"] \in Request
           /\ worker.at = "flags" => [worker EXCEPT !.at = "sync"] \in Request
           /\ worker.at = "sync" => [worker EXCEPT !.at = "issue"] \in Request
  <1>1. worker.at # "idle" => worker \in Request
    BY DEF TypeOK, Idle
  <1>2. worker.at \in {"groups", "flags"} =>
            worker \in [at : {"groups", "flags"}, user : Users, granted : Ranks]
    BY <1>1 DEF Request
  <1>3. worker.at = "sync" =>
            worker \in [at : {"refused", "sync", "issue"}, user : Users, granted : Rank]
    BY <1>1 DEF Request
  <1> QED BY <1>2, <1>3 DEF Request, Rank

\* A save of the user page leaves a user of the type the table holds.
LEMMA AdminSaveTypes ==
    ASSUME TypeOK, NEW u \in Users, NEW edited \in Posts, NEW wanted \in BOOLEAN,
           AdminSave(u, edited, wanted)
    PROVE  TypeOK'
  <1>1. user' \in [Users -> Person]
    BY DbUsersAssumption DEF AdminSave, TypeOK
  <1>2. worker' \in Request \cup {Idle}
    BY DEF AdminSave, TypeOK
  <1>3. account' \in [Users -> Account \cup {NoAccount}] /\ role' \in [Roles -> PgRole]
    <2>1. CASE UNCHANGED <<account, role>>
      BY <2>1 DEF TypeOK
    <2>2. CASE Enroll(u, edited)
      BY <2>2, ChangeTypes
    <2>3. CASE HasAccount(u) /\ Remove(u)
      BY <2>3, ChangeTypes
    <2> QED BY <2>1, <2>2, <2>3 DEF AdminSave
  <1>4. onboarded' \subseteq Roles
    BY DEF AdminSave, TypeOK
  <1> QED BY <1>1, <1>2, <1>3, <1>4 DEF TypeOK

\* Every step keeps the types.
LEMMA TypeNext == TypeOK /\ [Next]_vars => TypeOK'
  <1> SUFFICES ASSUME TypeOK, [Next]_vars PROVE TypeOK'
    OBVIOUS
  <1>0. /\ user \in [Users -> Person]
        /\ account \in [Users -> Account \cup {NoAccount}]
        /\ role \in [Roles -> PgRole]
        /\ onboarded \subseteq Roles
        /\ worker \in Request \cup {Idle}
    BY DEF TypeOK
  <1>1. ASSUME NEW u \in Users, SsoRefused(u) PROVE TypeOK'
    BY <1>0, <1>1, WorkerTypes DEF SsoRefused, TypeOK
  <1>2. ASSUME NEW u \in Users, LocalLogin(u) PROVE TypeOK'
    BY <1>0, <1>2, WorkerTypes DEF LocalLogin, TypeOK
  <1>3. ASSUME NEW u \in Users, UserDelete(u) PROVE TypeOK'
    <2>1. user' \in [Users -> Person]
      BY <1>0, <1>3, BlankIsPerson DEF UserDelete
    <2>2. role' \in [Roles -> PgRole]
      BY <1>0, <1>3, RowType, CatalogTypes DEF UserDelete
    <2> QED BY <1>0, <1>3, <2>1, <2>2 DEF UserDelete, TypeOK
  <1>4. ASSUME NEW u \in Users, Reset(u) PROVE TypeOK'
    <2>1. role' \in [Roles -> PgRole]
      BY <1>4, RowType, CatalogTypes DEF Reset
    <2>2. account' \in [Users -> Account \cup {NoAccount}]
      BY <1>0, <1>4, RowType DEF Reset, Account
    <2> QED BY <1>0, <1>4, <2>1, <2>2 DEF Reset, TypeOK
  <1>5. ASSUME NEW u \in Users, ApplyFlags(u) PROVE TypeOK'
    <2>1. user' \in [Users -> Person]
      <3>1. PICK admin \in BOOLEAN :
              user' = [user EXCEPT ![u].active = TRUE, ![u].staff = TRUE, ![u].superuser = admin]
        BY <1>5 DEF ApplyFlags
      <3>2. user[u] \in Person
        BY <1>0
      <3>3. [user[u] EXCEPT !.active = TRUE, !.staff = TRUE, !.superuser = admin] \in Person
        BY <3>2 DEF Person
      <3>4. user' = [user EXCEPT ![u] =
                       [user[u] EXCEPT !.active = TRUE, !.staff = TRUE, !.superuser = admin]]
        BY <1>0, <3>1
      <3> QED BY <1>0, <3>3, <3>4
    <2>2. worker' \in Request \cup {Idle}
      BY <1>5, WorkerTypes DEF ApplyFlags
    <2> QED BY <1>0, <1>5, <2>1, <2>2 DEF ApplyFlags, TypeOK
  <1>6. ASSUME NEW u \in Users, SyncOnLogin(u) PROVE TypeOK'
    <2>1. worker' \in Request \cup {Idle}
      BY <1>6, WorkerTypes DEF SyncOnLogin
    <2>2. account' \in [Users -> Account \cup {NoAccount}] /\ role' \in [Roles -> PgRole]
      BY <1>0, <1>6, ChangeTypes DEF SyncOnLogin
    <2> QED BY <1>0, <1>6, <2>1, <2>2 DEF SyncOnLogin, TypeOK
  <1>7. ASSUME NEW u \in Users, IssueOnLogin(u) PROVE TypeOK'
    <2>1. account' \in [Users -> Account \cup {NoAccount}] /\ role' \in [Roles -> PgRole]
      BY <1>0, <1>7, ChangeTypes DEF IssueOnLogin
    <2> QED BY <1>0, <1>7, <2>1 DEF IssueOnLogin, TypeOK
  <1>8. ASSUME NEW u \in Users, NEW claimed \in Claims, NEW n \in Names,
               SsoLogin(u, claimed, n)
        PROVE  TypeOK'
    <2>1. HighestRole(claimed) \in Ranks
      BY <1>8 DEF SsoLogin, HighestRole, Ranks
    <2>2. [Blank("present") EXCEPT !.name = n, !.active = TRUE] \in Person
      BY BlankIsPerson DEF Person
    <2>3. user' \in [Users -> Person]
      BY <1>0, <1>8, <2>2 DEF SsoLogin
    <2>4. worker' \in Request
      BY <1>8, <2>1 DEF SsoLogin, Request
    <2> QED BY <1>0, <1>8, <2>3, <2>4 DEF SsoLogin, TypeOK
  <1>9. ASSUME NEW u \in Users, NEW n \in Names, AdminAdd(u, n) PROVE TypeOK'
    <2>1. user' \in [Users -> Person]
      <3>1. Blank("present") \in Person
        BY BlankIsPerson
      <3> QED BY <1>0, <1>9, <3>1 DEF AdminAdd, Person
    <2> QED BY <1>0, <1>9, <2>1 DEF AdminAdd, TypeOK
  <1>10. ASSUME NEW u \in Users, NEW edited \in Posts, NEW wanted \in BOOLEAN,
                AdminSave(u, edited, wanted)
         PROVE  TypeOK'
    BY <1>10, AdminSaveTypes
  <1>11. ASSUME NEW r \in Roles, TenantCreated(r) \/ TenantDeleted(r) PROVE TypeOK'
    <2>1. AbsentRole \in PgRole
      BY DEF AbsentRole, PgRole, Owners
    <2>2. [kind |-> "tenant", login |-> TRUE, password |-> Onboarding, ranks |-> {}] \in PgRole
      BY DEF PgRole, Owners
    <2>3. [role[r] EXCEPT !.password = Onboarding] \in PgRole
      BY <1>0 DEF PgRole, Owners
    <2>4. role' \in [Roles -> PgRole]
      BY <1>0, <1>11, <2>1, <2>2, <2>3 DEF TenantCreated, TenantDeleted
    <2> QED BY <1>0, <1>11, <2>4 DEF TenantCreated, TenantDeleted, TypeOK
  <1>12. CASE RefusalAnswered \/ WorkerKilled \/ UNCHANGED vars
    BY <1>0, <1>12 DEF RefusalAnswered, WorkerKilled, vars, TypeOK
  <1>13. ASSUME NEW u \in Users, NEW rank \in Ranks, LeaveGroup(u, rank) PROVE TypeOK'
    <2>1. user' \in [Users -> Person]
      BY <1>0, <1>13 DEF LeaveGroup, Person
    <2> QED BY <1>0, <1>13, <2>1 DEF LeaveGroup, TypeOK
  <1>14. ASSUME NEW u \in Users, JoinGroup(u) PROVE TypeOK'
    <2>1. worker.granted \in Ranks /\ worker' \in Request
      BY <1>14, WorkerTypes DEF JoinGroup
    <2>2. user' \in [Users -> Person]
      BY <1>0, <1>14, <2>1 DEF JoinGroup, Person
    <2> QED BY <1>0, <1>14, <2>1, <2>2 DEF JoinGroup, TypeOK
  <1> QED BY <1>1, <1>2, <1>3, <1>4, <1>5, <1>6, <1>7, <1>8, <1>9, <1>10, <1>11, <1>12,
             <1>13, <1>14
          DEF Next

\* Every variable holds what its table can hold, whatever requests come and fail.
THEOREM TypeCorrect == Spec => []TypeOK
  BY TypeInit, TypeNext, PTL DEF Spec

-----------------------------------------------------------------------------
(* One namespace for people, tenants and services.                         *)

\* What is listed as a tenant is no person's: no personal function touches such a role, and
\* create_tenant refuses a person's. It is what lets delete_tenant drop whatever it is named.
OnboardedForeign == \A r \in onboarded : role[r].kind \in {"tenant", "service"}

\* What ForeignRolesKept asks of a step.
ForeignStep ==
    \A r \in Roles :
        /\ role[r].kind \in {"tenant", "service"} =>
              \/ role'[r] = role[r]
              \/ role'[r] = [role[r] EXCEPT !.password = Onboarding] /\ r \in onboarded'
              \/ role'[r] = AbsentRole /\ r \in onboarded \ onboarded'
        /\ role[r].kind = "person" /\ role'[r].kind # "person" =>
              role'[r] = AbsentRole /\ UNCHANGED onboarded

\* A step that changes nothing but one role which is a person's, or does not exist, and
\* leaves it a person's or drops it.
LEMMA OnePersonalRole ==
    ASSUME NEW r \in Roles, role[r].kind \in {"absent", "person"},
           role'[r].kind = "person" \/ role'[r] = AbsentRole,
           \A s \in Roles \ {r} : role'[s] = role[s],
           UNCHANGED onboarded
    PROVE  ForeignStep
  BY DEF ForeignStep

\* The functions of gf_0003 guard their role before they change it.
LEMMA GuardedChange ==
    ASSUME TypeOK, NEW u \in Users, UNCHANGED onboarded,
           \/ Sync(u)
           \/ IssueCredential(u)
           \/ \E edited \in Posts : Enroll(u, edited)
           \/ HasAccount(u) /\ Remove(u)
    PROVE  ForeignStep
  <1>0. role \in [Roles -> PgRole]
    BY DEF TypeOK
  <1>1. CASE role' = role
    BY <1>1 DEF ForeignStep
  <1>2. CASE (Sync(u) \/ IssueCredential(u)) /\ role' # role
    <2> DEFINE r == account[u].role
    <2>1. HasAccount(u)
      BY <1>2 DEF Sync, IssueCredential
    <2>2. r \in Roles
      BY <2>1, RowType
    <2>3. role[r].kind \in {"absent", "person"}
      BY <1>2 DEF Sync, IssueCredential, Touchable, Assignable
    <2>4. PICK password, rank :
              role' = DeleteDbUser(r) \/ role' = CreateDbUser(r, password, rank)
      BY <1>2 DEF Sync, IssueCredential
    <2>5. \A s \in Roles \ {r} : role'[s] = role[s]
      BY <1>0, <2>2, <2>4 DEF DeleteDbUser, CreateDbUser
    <2>6. role'[r].kind = "person"
      <3>1. CASE role' = DeleteDbUser(r)
        <4>1. Present(r)
          BY <1>2, <3>1 DEF DeleteDbUser
        <4>2. role' = [role EXCEPT ![r].login = FALSE, ![r].ranks = {}]
          BY <3>1, <4>1 DEF DeleteDbUser
        <4>3. role'[r].kind = role[r].kind
          BY <1>0, <2>2, <4>2 DEF PgRole
        <4> QED BY <2>3, <4>1, <4>3 DEF Present
      <3>2. CASE role' = CreateDbUser(r, password, rank)
        BY <1>0, <2>2, <3>2 DEF CreateDbUser
      <3> QED BY <2>4, <3>1, <3>2
    <2> QED BY <2>2, <2>3, <2>5, <2>6, OnePersonalRole
  <1>3. CASE \E edited \in Posts : Enroll(u, edited)
    <2>1. PICK edited \in Posts : Enroll(u, edited)
      BY <1>3
    <2> DEFINE r == RoleNameFor[edited.name]
    <2>2. r \in Roles
      BY DbUsersAssumption DEF Person
    <2>3. role[r].kind \in {"absent", "person"}
      BY <2>1 DEF Enroll, Assignable
    <2>4. PICK rank : role' = CreateDbUser(r, NoOne, rank)
      BY <2>1 DEF Enroll
    <2>5. role'[r].kind = "person" /\ \A s \in Roles \ {r} : role'[s] = role[s]
      BY <1>0, <2>2, <2>4 DEF CreateDbUser
    <2> QED BY <2>2, <2>3, <2>5, OnePersonalRole
  <1>4. CASE HasAccount(u) /\ Remove(u)
    <2> DEFINE r == account[u].role
    <2>1. r \in Roles /\ role[r].kind \in {"absent", "person"}
      BY <1>4, RowType DEF Remove, Touchable
    <2>2. role'[r] = AbsentRole /\ \A s \in Roles \ {r} : role'[s] = role[s]
      BY <1>0, <1>4, <2>1 DEF Remove, DropDbUser
    <2> QED BY <2>1, <2>2, OnePersonalRole
  <1> QED BY <1>1, <1>2, <1>3, <1>4

\* A disabled login and a cleared password leave a person's role one.
LEMMA TouchedChange ==
    ASSUME TypeOK, NEW u \in Users, HasAccount(u), Touchable(account[u].role),
           UNCHANGED onboarded,
           \/ role' = DeleteDbUser(account[u].role)
           \/ role' = ClearDbUserPassword(account[u].role)
    PROVE  ForeignStep
  <1> DEFINE r == account[u].role
  <1>0. role \in [Roles -> PgRole] /\ r \in Roles
    BY RowType DEF TypeOK
  <1>1. CASE ~Present(r)
    <2>1. role' = role
      BY <1>1 DEF DeleteDbUser, ClearDbUserPassword
    <2> QED BY <2>1 DEF ForeignStep
  <1>2. CASE Present(r)
    <2>1. role[r].kind = "person"
      BY <1>2 DEF Present, Touchable
    <2>2. \/ role' = [role EXCEPT ![r].login = FALSE, ![r].ranks = {}]
          \/ role' = [role EXCEPT ![r].password = NoOne]
      BY <1>2 DEF DeleteDbUser, ClearDbUserPassword
    <2>3. role'[r].kind = role[r].kind /\ \A s \in Roles \ {r} : role'[s] = role[s]
      BY <1>0, <2>2 DEF PgRole
    <2> QED BY <1>0, <2>1, <2>3, OnePersonalRole
  <1> QED BY <1>1, <1>2

\* Of the other kinds a step changes only what is created or deleted as a tenant.
LEMMA ForeignNext == TypeOK /\ OnboardedForeign /\ [Next]_vars => ForeignStep
  <1> SUFFICES ASSUME TypeOK, OnboardedForeign, [Next]_vars PROVE ForeignStep
    OBVIOUS
  <1>0. role \in [Roles -> PgRole]
    BY DEF TypeOK
  <1>1. CASE role' = role
    BY <1>1 DEF ForeignStep
  <1>2. ASSUME NEW u \in Users, SyncOnLogin(u) \/ IssueOnLogin(u) PROVE ForeignStep
    BY <1>1, <1>2, GuardedChange DEF SyncOnLogin, IssueOnLogin
  <1>3. ASSUME NEW u \in Users, NEW edited \in Posts, NEW wanted \in BOOLEAN,
               AdminSave(u, edited, wanted)
        PROVE  ForeignStep
    BY <1>1, <1>3, GuardedChange DEF AdminSave
  <1>4. ASSUME NEW u \in Users, UserDelete(u) \/ Reset(u) PROVE ForeignStep
    BY <1>1, <1>4, TouchedChange DEF UserDelete, Reset
  <1>5. ASSUME NEW r \in Roles, TenantCreated(r) PROVE ForeignStep
    <2>1. r \in onboarded' /\ role[r].kind # "person"
      BY <1>5 DEF TenantCreated
    <2>2. \A s \in Roles \ {r} : role'[s] = role[s]
      BY <1>0, <1>5 DEF TenantCreated
    <2>3. Present(r) => role'[r] = [role[r] EXCEPT !.password = Onboarding]
      BY <1>0, <1>5 DEF TenantCreated
    <2> QED BY <2>1, <2>2, <2>3 DEF ForeignStep, Present
  <1>6. ASSUME NEW r \in Roles, TenantDeleted(r) PROVE ForeignStep
    <2>1. r \in onboarded \ onboarded' /\ role[r].kind # "person"
      BY <1>6 DEF TenantDeleted, OnboardedForeign
    <2>2. role'[r] = AbsentRole /\ \A s \in Roles \ {r} : role'[s] = role[s]
      BY <1>0, <1>6 DEF TenantDeleted
    <2> QED BY <2>1, <2>2 DEF ForeignStep
  <1>7. ASSUME NEW u \in Users, NEW claimed \in Claims, NEW n \in Names,
               SsoLogin(u, claimed, n)
        PROVE  ForeignStep
    BY <1>1, <1>7 DEF SsoLogin
  <1>8. ASSUME NEW u \in Users,
               SsoRefused(u) \/ LocalLogin(u) \/ JoinGroup(u) \/ ApplyFlags(u)
        PROVE  ForeignStep
    BY <1>1, <1>8 DEF SsoRefused, LocalLogin, JoinGroup, ApplyFlags
  <1>9. ASSUME NEW u \in Users, NEW n \in Names, AdminAdd(u, n) PROVE ForeignStep
    BY <1>1, <1>9 DEF AdminAdd
  <1>10. ASSUME NEW u \in Users, NEW rank \in Ranks, LeaveGroup(u, rank) PROVE ForeignStep
    BY <1>1, <1>10 DEF LeaveGroup
  <1>11. CASE RefusalAnswered \/ WorkerKilled \/ UNCHANGED vars
    BY <1>1, <1>11 DEF RefusalAnswered, WorkerKilled, vars
  <1> QED BY <1>2, <1>3, <1>4, <1>5, <1>6, <1>7, <1>8, <1>9, <1>10, <1>11 DEF Next

\* Only create_tenant lists a name as a tenant, and then no person bears it.
LEMMA OnboardedNext ==
    TypeOK /\ OnboardedForeign /\ [Next]_vars => OnboardedForeign'
  <1> SUFFICES ASSUME TypeOK, OnboardedForeign, [Next]_vars PROVE OnboardedForeign'
    OBVIOUS
  <1>1. role \in [Roles -> PgRole] /\ onboarded \subseteq Roles
    BY DEF TypeOK
  <1>2. ForeignStep
    BY ForeignNext
  <1>3. ASSUME NEW s \in onboarded, s \in onboarded'
        PROVE  role'[s].kind \in {"tenant", "service"}
    <2>1. s \in Roles /\ role[s] \in PgRole /\ role[s].kind \in {"tenant", "service"}
      BY <1>1 DEF OnboardedForeign
    <2>2. role'[s] = role[s] \/ role'[s] = [role[s] EXCEPT !.password = Onboarding]
      BY <1>2, <1>3, <2>1 DEF ForeignStep
    <2> QED BY <2>1, <2>2 DEF PgRole
  <1>4. CASE onboarded' \subseteq onboarded
    BY <1>3, <1>4 DEF OnboardedForeign
  <1>5. ASSUME NEW r \in Roles, TenantCreated(r) PROVE OnboardedForeign'
    <2>1. onboarded' = onboarded \cup {r} /\ role[r].kind \in {"absent", "tenant", "service"}
      BY <1>1, <1>5 DEF TenantCreated, PgRole
    <2>2. role'[r].kind \in {"tenant", "service"}
      <3>1. CASE Present(r)
        <4>1. role'[r] = [role[r] EXCEPT !.password = Onboarding]
          BY <1>1, <1>5, <3>1 DEF TenantCreated
        <4>2. role'[r].kind = role[r].kind
          BY <1>1, <4>1 DEF PgRole
        <4> QED BY <2>1, <3>1, <4>2 DEF Present
      <3>2. CASE ~Present(r)
        BY <1>1, <1>5, <3>2 DEF TenantCreated
      <3> QED BY <3>1, <3>2
    <2> QED BY <1>3, <2>1, <2>2 DEF OnboardedForeign
  <1>6. \/ \E r \in Roles : TenantCreated(r)
        \/ onboarded' \subseteq onboarded
    BY DEF Next, SsoRefused, LocalLogin, UserDelete, Reset, LeaveGroup, JoinGroup, ApplyFlags,
           SyncOnLogin, IssueOnLogin, SsoLogin, AdminAdd, AdminSave, TenantDeleted,
           RefusalAnswered, WorkerKilled, vars
  <1> QED BY <1>4, <1>5, <1>6

\* In every reachable state the names listed as tenants are no person's.
THEOREM OnboardedCorrect == Spec => []OnboardedForeign
  <1>1. Init => OnboardedForeign
    BY DEF Init, OnboardedForeign
  <1> QED BY <1>1, OnboardedNext, TypeCorrect, PTL DEF Spec

\* Whatever is called in whatever order, the role of a tenant or a service is only given a
\* password or dropped, by the functions that create and delete a tenant of its name, and a
\* person's role ends by being dropped for its person and never with a tenant.
THEOREM ForeignRolesSafe == Spec => ForeignRolesKept
  <1>1. TypeOK /\ OnboardedForeign /\ [Next]_vars => [ForeignStep]_vars
    BY ForeignNext
  <1> QED BY <1>1, TypeCorrect, OnboardedCorrect, PTL DEF Spec, ForeignRolesKept, ForeignStep

-----------------------------------------------------------------------------
(* Rows and catalog.                                                       *)

\* What one row asks of the catalog.
RowMatches(v) ==
    LET a == account[v] IN
    /\ role[a.role].kind = "person"
    /\ role[a.role].login = a.enabled
    /\ role[a.role].ranks = (IF a.enabled THEN {a.rank} ELSE {})

\* The invariant, a row at a time.
LEMMA RowByRow ==
    RowsMatchCatalog <=> \A v \in Users : HasAccount(v) => RowMatches(v) /\ RoleNameFree(account[v].role, v)
  BY DEF RowsMatchCatalog, RowMatches

\* A change to one user's row and to the role it names, or is to name, touches no other
\* row's role.
LEMMA OneRowAtATime ==
    ASSUME TypeOK, TypeOK', RowsMatchCatalog,
           NEW u \in Users, NEW r \in Roles,
           RoleNameFree(r, u),
           \A v \in Users \ {u} : account'[v] = account[v],
           \A s \in Roles \ {r} : role'[s] = role[s],
           HasAccount(u)' => account'[u].role = r /\ RowMatches(u)'
    PROVE  RowsMatchCatalog'
  <1>1. ASSUME NEW v \in Users, HasAccount(v)'
        PROVE  RowMatches(v)' /\ RoleNameFree(account[v].role, v)'
    <2>1. CASE v = u
      <3>1. RoleNameFree(account[v].role, v)'
        BY <1>1, <2>1 DEF RoleNameFree, HasAccount
      <3> QED BY <1>1, <2>1, <3>1
    <2>2. CASE v # u
      <3>1. HasAccount(v) /\ account'[v] = account[v]
        BY <1>1, <2>2 DEF HasAccount
      <3>2. account[v].role \in Roles \ {r}
        BY <2>2, <3>1, RowType DEF RoleNameFree
      <3>3. RowMatches(v) /\ RoleNameFree(account[v].role, v)
        BY <3>1, RowByRow
      <3>4. RowMatches(v)'
        BY <3>1, <3>2, <3>3 DEF RowMatches
      <3>5. RoleNameFree(account[v].role, v)'
        BY <1>1, <2>2, <3>1, <3>2, <3>3 DEF RoleNameFree, HasAccount
      <3> QED BY <3>4, <3>5
    <2> QED BY <2>1, <2>2
  <1> QED BY <1>1 DEF RowsMatchCatalog, RowMatches

\* The row of a user who has an account names a role no other row names.
LEMMA OwnRole ==
    ASSUME TypeOK, RowsMatchCatalog, NEW u \in Users, HasAccount(u)
    PROVE  /\ account[u].role \in Roles
           /\ RowMatches(u)
           /\ RoleNameFree(account[u].role, u)
  BY RowType, RowByRow

\* What a step changes of the database accounts, it does through one of four functions.
LEMMA RowsChange ==
    ASSUME TypeOK, TypeOK', RowsMatchCatalog, NEW u \in Users,
           \/ Sync(u)
           \/ IssueCredential(u)
           \/ \E edited \in Posts : Enroll(u, edited)
           \/ HasAccount(u) /\ Remove(u)
    PROVE  RowsMatchCatalog'
  <1>0. account \in [Users -> Account \cup {NoAccount}] /\ role \in [Roles -> PgRole]
    BY DEF TypeOK
  <1>1. CASE UNCHANGED <<account, role>>
    BY <1>1 DEF RowsMatchCatalog, HasAccount, RoleNameFree
  <1>2. CASE Sync(u) /\ ~UNCHANGED <<account, role>>
    <2>1. HasAccount(u)
      BY <1>2 DEF Sync
    <2> DEFINE r == account[u].role
    <2>2. r \in Roles /\ RowMatches(u) /\ RoleNameFree(r, u) /\ account[u] \in Account
      BY <2>1, OwnRole, RowType
    <2>3. CASE /\ role' = DeleteDbUser(r)
               /\ account' = [account EXCEPT ![u].enabled = FALSE]
      <3>1. Present(r)
        BY <2>2 DEF RowMatches, Present
      <3>2. role' = [role EXCEPT ![r].login = FALSE, ![r].ranks = {}]
        BY <2>3, <3>1 DEF DeleteDbUser
      <3>3. /\ account'[u].role = r /\ account'[u].enabled = FALSE
            /\ \A v \in Users \ {u} : account'[v] = account[v]
        BY <1>0, <2>2, <2>3 DEF Account
      <3>4. /\ role'[r].kind = role[r].kind /\ role'[r].login = FALSE /\ role'[r].ranks = {}
            /\ \A s \in Roles \ {r} : role'[s] = role[s]
        BY <1>0, <2>2, <3>2 DEF PgRole
      <3>5. RowMatches(u)'
        BY <2>2, <3>3, <3>4 DEF RowMatches
      <3> QED BY <2>2, <3>3, <3>4, <3>5, OneRowAtATime
    <2>4. CASE /\ role' = CreateDbUser(r, NoOne, Entitled(user[u]))
               /\ account' = [account EXCEPT ![u].rank = Entitled(user[u]), ![u].enabled = TRUE]
      <3>1. /\ account'[u].role = r /\ account'[u].enabled = TRUE
            /\ account'[u].rank = Entitled(user[u])
            /\ \A v \in Users \ {u} : account'[v] = account[v]
        BY <1>0, <2>2, <2>4 DEF Account
      <3>2. /\ role'[r].kind = "person" /\ role'[r].login = TRUE
            /\ role'[r].ranks = {Entitled(user[u])}
            /\ \A s \in Roles \ {r} : role'[s] = role[s]
        BY <1>0, <2>2, <2>4 DEF CreateDbUser
      <3>3. RowMatches(u)'
        BY <3>1, <3>2 DEF RowMatches
      <3> QED BY <2>2, <3>1, <3>2, <3>3, OneRowAtATime
    <2> QED BY <1>2, <2>3, <2>4 DEF Sync
  <1>3. CASE IssueCredential(u) /\ ~UNCHANGED <<account, role>>
    <2> DEFINE r == account[u].role
    <2>1. /\ HasAccount(u)
          /\ role' = CreateDbUser(r, u, account[u].rank)
          /\ account' = [account EXCEPT ![u].awaiting = FALSE, ![u].enabled = TRUE]
      BY <1>3 DEF IssueCredential
    <2>2. r \in Roles /\ RoleNameFree(r, u) /\ account[u] \in Account
      BY <2>1, OwnRole, RowType
    <2>3. /\ account'[u].role = r /\ account'[u].enabled = TRUE
          /\ account'[u].rank = account[u].rank
          /\ \A v \in Users \ {u} : account'[v] = account[v]
      BY <1>0, <2>1, <2>2 DEF Account
    <2>4. /\ role'[r].kind = "person" /\ role'[r].login = TRUE
          /\ role'[r].ranks = {account[u].rank}
          /\ \A s \in Roles \ {r} : role'[s] = role[s]
      BY <1>0, <2>1, <2>2 DEF CreateDbUser
    <2>5. RowMatches(u)'
      BY <2>3, <2>4 DEF RowMatches
    <2> QED BY <2>2, <2>3, <2>4, <2>5, OneRowAtATime
  <1>4. CASE \E edited \in Posts : Enroll(u, edited)
    <2>1. PICK edited \in Posts : Enroll(u, edited)
      BY <1>4
    <2> DEFINE r == RoleNameFor[edited.name]
               rank == DbRoleForUser(user[u].groups, edited.superuser)
    <2>2. r \in Roles
      BY DbUsersAssumption DEF Person
    <2>3. /\ RoleNameFree(r, u)
          /\ role' = CreateDbUser(r, NoOne, rank)
          /\ account' = [account EXCEPT ![u] =
                           [role |-> r, rank |-> rank, enabled |-> TRUE, awaiting |-> TRUE]]
      BY <2>1 DEF Enroll
    <2> HIDE DEF r, rank
    <2>4. /\ account'[u] = [role |-> r, rank |-> rank, enabled |-> TRUE, awaiting |-> TRUE]
          /\ \A v \in Users \ {u} : account'[v] = account[v]
      BY <1>0, <2>3
    <2>5. /\ role'[r].kind = "person" /\ role'[r].login = TRUE /\ role'[r].ranks = {rank}
          /\ \A s \in Roles \ {r} : role'[s] = role[s]
      BY <1>0, <2>2, <2>3 DEF CreateDbUser
    <2>6. account'[u].role = r /\ account'[u].rank = rank /\ account'[u].enabled = TRUE
      BY <2>4
    <2>7. RowMatches(u)'
      BY <2>5, <2>6 DEF RowMatches
    <2> QED BY <2>2, <2>3, <2>4, <2>5, <2>6, <2>7, OneRowAtATime
  <1>5. CASE HasAccount(u) /\ Remove(u)
    <2> DEFINE r == account[u].role
    <2>1. r \in Roles /\ RoleNameFree(r, u)
      BY <1>5, OwnRole
    <2>2. /\ ~HasAccount(u)'
          /\ \A v \in Users \ {u} : account'[v] = account[v]
      BY <1>0, <1>5 DEF Remove, HasAccount
    <2>3. \A s \in Roles \ {r} : role'[s] = role[s]
      BY <1>0, <1>5 DEF Remove, DropDbUser
    <2> QED BY <2>1, <2>2, <2>3, OneRowAtATime
  <1> QED BY <1>1, <1>2, <1>3, <1>4, <1>5

\* Every step keeps rows and catalog in agreement.
LEMMA RowsNext ==
    TypeOK /\ TypeOK' /\ OnboardedForeign /\ RowsMatchCatalog /\ [Next]_vars =>
        RowsMatchCatalog'
  <1> SUFFICES ASSUME TypeOK, TypeOK', OnboardedForeign, RowsMatchCatalog, [Next]_vars
               PROVE  RowsMatchCatalog'
    OBVIOUS
  <1>0. account \in [Users -> Account \cup {NoAccount}] /\ role \in [Roles -> PgRole]
    BY DEF TypeOK
  <1>1. CASE UNCHANGED <<account, role>>
    BY <1>1 DEF RowsMatchCatalog, HasAccount, RoleNameFree
  <1>2. ASSUME NEW u \in Users, SyncOnLogin(u) \/ IssueOnLogin(u) PROVE RowsMatchCatalog'
    BY <1>1, <1>2, RowsChange DEF SyncOnLogin, IssueOnLogin
  <1>3. ASSUME NEW u \in Users, NEW edited \in Posts, NEW wanted \in BOOLEAN,
               AdminSave(u, edited, wanted)
        PROVE  RowsMatchCatalog'
    BY <1>1, <1>3, RowsChange DEF AdminSave
  <1>4. ASSUME NEW u \in Users, UserDelete(u) PROVE RowsMatchCatalog'
    <2>1. /\ ~HasAccount(u)'
          /\ \A v \in Users \ {u} : account'[v] = account[v]
      BY <1>0, <1>4 DEF UserDelete, HasAccount
    <2>2. CASE role' = role
      <3>1. ASSUME NEW v \in Users, HasAccount(v)'
            PROVE  RowMatches(v)' /\ RoleNameFree(account[v].role, v)'
        <4>1. v # u /\ account'[v] = account[v] /\ HasAccount(v)
          BY <2>1, <3>1 DEF HasAccount
        <4>2. RowMatches(v) /\ RoleNameFree(account[v].role, v)
          BY <4>1, RowByRow
        <4>3. RowMatches(v)'
          BY <2>2, <4>1, <4>2 DEF RowMatches
        <4>4. RoleNameFree(account[v].role, v)'
          BY <2>1, <4>1, <4>2 DEF RoleNameFree, HasAccount
        <4> QED BY <4>3, <4>4
      <3> QED BY <3>1 DEF RowsMatchCatalog, RowMatches
    <2>3. CASE HasAccount(u) /\ role' = DeleteDbUser(account[u].role)
      <3>1. account[u].role \in Roles /\ RoleNameFree(account[u].role, u)
        BY <2>3, OwnRole
      <3>2. \A s \in Roles \ {account[u].role} : role'[s] = role[s]
        BY <1>0, <2>3 DEF DeleteDbUser
      <3> QED BY <2>1, <3>1, <3>2, OneRowAtATime
    <2> QED BY <1>4, <2>2, <2>3 DEF UserDelete
  <1>5. ASSUME NEW u \in Users, Reset(u) PROVE RowsMatchCatalog'
    <2> DEFINE r == account[u].role
    <2>1. HasAccount(u)
      BY <1>5 DEF Reset
    <2>2. r \in Roles /\ RowMatches(u) /\ RoleNameFree(r, u) /\ account[u] \in Account
      BY <2>1, OwnRole, RowType
    <2>3. role' = [role EXCEPT ![r].password = NoOne]
      BY <1>5, <2>2 DEF Reset, ClearDbUserPassword, RowMatches, Present
    <2>4. /\ account'[u].role = r /\ account'[u].enabled = account[u].enabled
          /\ account'[u].rank = account[u].rank
          /\ \A v \in Users \ {u} : account'[v] = account[v]
      BY <1>0, <1>5, <2>2 DEF Reset, Account
    <2>5. /\ role'[r].kind = role[r].kind /\ role'[r].login = role[r].login
          /\ role'[r].ranks = role[r].ranks
          /\ \A s \in Roles \ {r} : role'[s] = role[s]
      BY <1>0, <2>2, <2>3 DEF PgRole
    <2>6. RowMatches(u)'
      BY <2>2, <2>4, <2>5 DEF RowMatches
    <2> QED BY <2>2, <2>4, <2>5, <2>6, OneRowAtATime
  <1>6. ASSUME NEW r \in Roles, TenantCreated(r) \/ TenantDeleted(r) PROVE RowsMatchCatalog'
    <2>1. account' = account /\ role[r].kind # "person"
      BY <1>6 DEF TenantCreated, TenantDeleted, OnboardedForeign
    <2>2. \A s \in Roles \ {r} : role'[s] = role[s]
      BY <1>0, <1>6 DEF TenantCreated, TenantDeleted
    <2>3. ASSUME NEW v \in Users, HasAccount(v) PROVE RowMatches(v)'
      <3>1. RowMatches(v) /\ account[v].role \in Roles
        BY <2>3, OwnRole
      <3>2. account[v].role # r
        BY <2>1, <3>1 DEF RowMatches
      <3> QED BY <2>1, <2>2, <3>1, <3>2 DEF RowMatches
    <2> QED BY <2>1, <2>3 DEF RowsMatchCatalog, RowMatches, HasAccount, RoleNameFree
  <1>7. ASSUME NEW u \in Users, NEW claimed \in Claims, NEW n \in Names,
               SsoLogin(u, claimed, n)
        PROVE  RowsMatchCatalog'
    BY <1>1, <1>7 DEF SsoLogin
  <1>8. ASSUME NEW u \in Users, NEW n \in Names, AdminAdd(u, n) PROVE RowsMatchCatalog'
    BY <1>1, <1>8 DEF AdminAdd
  <1>9. ASSUME NEW u \in Users,
               SsoRefused(u) \/ LocalLogin(u) \/ JoinGroup(u) \/ ApplyFlags(u)
        PROVE  RowsMatchCatalog'
    BY <1>1, <1>9 DEF SsoRefused, LocalLogin, JoinGroup, ApplyFlags
  <1>10. ASSUME NEW u \in Users, NEW rank \in Ranks, LeaveGroup(u, rank)
         PROVE  RowsMatchCatalog'
    BY <1>1, <1>10 DEF LeaveGroup
  <1>11. CASE RefusalAnswered \/ WorkerKilled \/ UNCHANGED vars
    BY <1>1, <1>11 DEF RefusalAnswered, WorkerKilled, vars
  <1> QED BY <1>2, <1>3, <1>4, <1>5, <1>6, <1>7, <1>8, <1>9, <1>10, <1>11 DEF Next

\* In every reachable state a row names a personal role of its own, which may log in and
\* holds the row's rank exactly when the row says it is enabled.
THEOREM RowsCorrect == Spec => []RowsMatchCatalog
  <1>1. Init => RowsMatchCatalog
    BY DEF Init, RowsMatchCatalog, HasAccount
  <1> QED BY <1>1, RowsNext, TypeCorrect, OnboardedCorrect, PTL DEF Spec

-----------------------------------------------------------------------------
(* Claimed passwords.                                                      *)

\* What ClaimedByItsOwner asks of one row.
ClaimKept(v) == ~account[v].awaiting => role[account[v].role].password = v

\* A change to one user's row and its role disturbs nobody else's claim.
LEMMA OneClaimAtATime ==
    ASSUME TypeOK, RowsMatchCatalog, ClaimedByItsOwner,
           NEW u \in Users, NEW r \in Roles,
           RoleNameFree(r, u),
           \A v \in Users \ {u} : account'[v] = account[v],
           \A s \in Roles \ {r} : role'[s] = role[s],
           HasAccount(u)' => ClaimKept(u)'
    PROVE  ClaimedByItsOwner'
  <1>1. ASSUME NEW v \in Users, HasAccount(v)' PROVE ClaimKept(v)'
    <2>1. CASE v = u
      BY <1>1, <2>1
    <2>2. CASE v # u
      <3>1. HasAccount(v) /\ account'[v] = account[v]
        BY <1>1, <2>2 DEF HasAccount
      <3>2. account[v].role \in Roles \ {r}
        BY <2>2, <3>1, RowType DEF RoleNameFree
      <3>3. ClaimKept(v)
        BY <3>1 DEF ClaimedByItsOwner, ClaimKept
      <3> QED BY <3>1, <3>2, <3>3 DEF ClaimKept
    <2> QED BY <2>1, <2>2
  <1> QED BY <1>1 DEF ClaimedByItsOwner, ClaimKept

\* No change to a database account gives a claimed row another's password.
LEMMA ClaimsChange ==
    ASSUME TypeOK, RowsMatchCatalog, ClaimedByItsOwner, NEW u \in Users,
           \/ Sync(u)
           \/ IssueCredential(u)
           \/ \E edited \in Posts : Enroll(u, edited)
           \/ HasAccount(u) /\ Remove(u)
    PROVE  ClaimedByItsOwner'
  <1>0. account \in [Users -> Account \cup {NoAccount}] /\ role \in [Roles -> PgRole]
    BY DEF TypeOK
  <1>1. CASE UNCHANGED <<account, role>>
    BY <1>1 DEF ClaimedByItsOwner, HasAccount
  <1>2. CASE Sync(u) /\ ~UNCHANGED <<account, role>>
    <2>1. HasAccount(u)
      BY <1>2 DEF Sync
    <2> DEFINE r == account[u].role
    <2>2. r \in Roles /\ RoleNameFree(r, u) /\ account[u] \in Account /\ ClaimKept(u)
      BY <2>1, OwnRole, RowType DEF ClaimedByItsOwner, ClaimKept
    <2>3. /\ \/ account' = [account EXCEPT ![u].enabled = FALSE]
             \/ account' = [account EXCEPT ![u].rank = Entitled(user[u]), ![u].enabled = TRUE]
          /\ role' = DeleteDbUser(r) \/ role' = CreateDbUser(r, NoOne, Entitled(user[u]))
      BY <1>2 DEF Sync
    <2>4. /\ account'[u].role = r /\ account'[u].awaiting = account[u].awaiting
          /\ \A v \in Users \ {u} : account'[v] = account[v]
      BY <1>0, <2>2, <2>3 DEF Account
    <2>5. /\ role'[r].password = role[r].password
          /\ \A s \in Roles \ {r} : role'[s] = role[s]
      BY <1>0, <2>2, <2>3 DEF DeleteDbUser, CreateDbUser, PgRole
    <2>6. ClaimKept(u)'
      BY <2>2, <2>4, <2>5 DEF ClaimKept
    <2> QED BY <2>2, <2>4, <2>5, <2>6, OneClaimAtATime
  <1>3. CASE IssueCredential(u) /\ ~UNCHANGED <<account, role>>
    <2> DEFINE r == account[u].role
    <2>1. /\ HasAccount(u)
          /\ role' = CreateDbUser(r, u, account[u].rank)
          /\ account' = [account EXCEPT ![u].awaiting = FALSE, ![u].enabled = TRUE]
      BY <1>3 DEF IssueCredential
    <2>2. r \in Roles /\ RoleNameFree(r, u) /\ account[u] \in Account
      BY <2>1, OwnRole, RowType
    <2>3. /\ account'[u].role = r
          /\ \A v \in Users \ {u} : account'[v] = account[v]
      BY <1>0, <2>1, <2>2 DEF Account
    <2>4. u # NoOne
      BY DbUsersAssumption
    <2>5. /\ role'[r].password = u
          /\ \A s \in Roles \ {r} : role'[s] = role[s]
      BY <1>0, <2>1, <2>2, <2>4 DEF CreateDbUser
    <2>6. ClaimKept(u)'
      BY <2>3, <2>5 DEF ClaimKept
    <2> QED BY <2>2, <2>3, <2>5, <2>6, OneClaimAtATime
  <1>4. CASE \E edited \in Posts : Enroll(u, edited)
    <2>1. PICK edited \in Posts : Enroll(u, edited)
      BY <1>4
    <2> DEFINE r == RoleNameFor[edited.name]
               rank == DbRoleForUser(user[u].groups, edited.superuser)
    <2>2. r \in Roles
      BY DbUsersAssumption DEF Person
    <2>3. /\ RoleNameFree(r, u)
          /\ role' = CreateDbUser(r, NoOne, rank)
          /\ account' = [account EXCEPT ![u] =
                           [role |-> r, rank |-> rank, enabled |-> TRUE, awaiting |-> TRUE]]
      BY <2>1 DEF Enroll
    <2> HIDE DEF r, rank
    <2>4. /\ account'[u].awaiting
          /\ \A v \in Users \ {u} : account'[v] = account[v]
      BY <1>0, <2>3
    <2>5. \A s \in Roles \ {r} : role'[s] = role[s]
      BY <1>0, <2>2, <2>3 DEF CreateDbUser
    <2> QED BY <2>2, <2>3, <2>4, <2>5, OneClaimAtATime DEF ClaimKept
  <1>5. CASE HasAccount(u) /\ Remove(u)
    <2> DEFINE r == account[u].role
    <2>1. r \in Roles /\ RoleNameFree(r, u)
      BY <1>5, OwnRole
    <2>2. /\ ~HasAccount(u)'
          /\ \A v \in Users \ {u} : account'[v] = account[v]
      BY <1>0, <1>5 DEF Remove, HasAccount
    <2>3. \A s \in Roles \ {r} : role'[s] = role[s]
      BY <1>0, <1>5 DEF Remove, DropDbUser
    <2> QED BY <2>1, <2>2, <2>3, OneClaimAtATime
  <1> QED BY <1>1, <1>2, <1>3, <1>4, <1>5

\* Every step keeps claimed passwords with their owners.
LEMMA ClaimsNext ==
    TypeOK /\ OnboardedForeign /\ RowsMatchCatalog /\ ClaimedByItsOwner /\ [Next]_vars =>
        ClaimedByItsOwner'
  <1> SUFFICES ASSUME TypeOK, OnboardedForeign, RowsMatchCatalog, ClaimedByItsOwner,
                      [Next]_vars
               PROVE  ClaimedByItsOwner'
    OBVIOUS
  <1>0. account \in [Users -> Account \cup {NoAccount}] /\ role \in [Roles -> PgRole]
    BY DEF TypeOK
  <1>1. CASE UNCHANGED <<account, role>>
    BY <1>1 DEF ClaimedByItsOwner, HasAccount
  <1>2. ASSUME NEW u \in Users, SyncOnLogin(u) \/ IssueOnLogin(u) PROVE ClaimedByItsOwner'
    BY <1>1, <1>2, ClaimsChange DEF SyncOnLogin, IssueOnLogin
  <1>3. ASSUME NEW u \in Users, NEW edited \in Posts, NEW wanted \in BOOLEAN,
               AdminSave(u, edited, wanted)
        PROVE  ClaimedByItsOwner'
    BY <1>1, <1>3, ClaimsChange DEF AdminSave
  <1>4. ASSUME NEW u \in Users, UserDelete(u) PROVE ClaimedByItsOwner'
    <2>1. /\ ~HasAccount(u)'
          /\ \A v \in Users \ {u} : account'[v] = account[v]
      BY <1>0, <1>4 DEF UserDelete, HasAccount
    <2>2. CASE role' = role
      BY <2>1, <2>2 DEF ClaimedByItsOwner, HasAccount
    <2>3. CASE HasAccount(u) /\ role' = DeleteDbUser(account[u].role)
      <3>1. account[u].role \in Roles /\ RoleNameFree(account[u].role, u)
        BY <2>3, OwnRole
      <3>2. \A s \in Roles \ {account[u].role} : role'[s] = role[s]
        BY <1>0, <2>3 DEF DeleteDbUser
      <3> QED BY <2>1, <3>1, <3>2, OneClaimAtATime
    <2> QED BY <1>4, <2>2, <2>3 DEF UserDelete
  <1>5. ASSUME NEW u \in Users, Reset(u) PROVE ClaimedByItsOwner'
    <2> DEFINE r == account[u].role
    <2>1. HasAccount(u)
      BY <1>5 DEF Reset
    <2>2. r \in Roles /\ RoleNameFree(r, u) /\ account[u] \in Account
      BY <2>1, OwnRole, RowType
    <2>3. /\ account'[u].awaiting
          /\ \A v \in Users \ {u} : account'[v] = account[v]
      BY <1>0, <1>5, <2>2 DEF Reset, Account
    <2>4. \A s \in Roles \ {r} : role'[s] = role[s]
      BY <1>0, <1>5 DEF Reset, ClearDbUserPassword
    <2> QED BY <2>2, <2>3, <2>4, OneClaimAtATime DEF ClaimKept
  <1>6. ASSUME NEW r \in Roles, TenantCreated(r) \/ TenantDeleted(r) PROVE ClaimedByItsOwner'
    <2>1. account' = account /\ role[r].kind # "person"
      BY <1>6 DEF TenantCreated, TenantDeleted, OnboardedForeign
    <2>2. \A s \in Roles \ {r} : role'[s] = role[s]
      BY <1>0, <1>6 DEF TenantCreated, TenantDeleted
    <2>3. ASSUME NEW v \in Users, HasAccount(v)
          PROVE  account[v].role \in Roles \ {r}
      BY <2>1, <2>3, OwnRole DEF RowMatches
    <2> QED BY <2>1, <2>2, <2>3 DEF ClaimedByItsOwner, HasAccount
  <1>7. ASSUME NEW u \in Users, NEW claimed \in Claims, NEW n \in Names,
               SsoLogin(u, claimed, n)
        PROVE  ClaimedByItsOwner'
    BY <1>1, <1>7 DEF SsoLogin
  <1>8. ASSUME NEW u \in Users, NEW n \in Names, AdminAdd(u, n) PROVE ClaimedByItsOwner'
    BY <1>1, <1>8 DEF AdminAdd
  <1>9. ASSUME NEW u \in Users,
               SsoRefused(u) \/ LocalLogin(u) \/ JoinGroup(u) \/ ApplyFlags(u)
        PROVE  ClaimedByItsOwner'
    BY <1>1, <1>9 DEF SsoRefused, LocalLogin, JoinGroup, ApplyFlags
  <1>10. ASSUME NEW u \in Users, NEW rank \in Ranks, LeaveGroup(u, rank)
         PROVE  ClaimedByItsOwner'
    BY <1>1, <1>10 DEF LeaveGroup
  <1>11. CASE RefusalAnswered \/ WorkerKilled \/ UNCHANGED vars
    BY <1>1, <1>11 DEF RefusalAnswered, WorkerKilled, vars
  <1> QED BY <1>2, <1>3, <1>4, <1>5, <1>6, <1>7, <1>8, <1>9, <1>10, <1>11 DEF Next

\* In every reachable state the password of a claimed account is its owner's.
THEOREM ClaimsCorrect == Spec => []ClaimedByItsOwner
  <1>1. Init => ClaimedByItsOwner
    BY DEF Init, ClaimedByItsOwner, HasAccount
  <1> QED BY <1>1, ClaimsNext, TypeCorrect, OnboardedCorrect, RowsCorrect, PTL DEF Spec

-----------------------------------------------------------------------------
(* Reconciling.                                                            *)

\* What SyncReconciles asks of a step, of one user.
Reconciled(u) ==
    LET rank == Entitled(user[u]) IN
    IF rank = "none" THEN ~role'[account[u].role].login
    ELSE /\ role'[account[u].role].login
         /\ role'[account[u].role].ranks = {rank}

\* Where row and catalog agree, sync may trust the row: when it returns, the catalog gives
\* what the user is entitled to.
LEMMA SyncComplete ==
    ASSUME TypeOK, RowsMatchCatalog, NEW u \in Users, Sync(u), HasAccount(u)
    PROVE  Reconciled(u)
  <1> DEFINE a == account[u]
             r == account[u].role
             rank == Entitled(user[u])
  <1>0. role \in [Roles -> PgRole]
    BY DEF TypeOK
  <1>1. r \in Roles /\ RowMatches(u) /\ a \in Account
    BY OwnRole, RowType
  <1>2. role[r].kind = "person" /\ role[r].login = a.enabled
        /\ role[r].ranks = (IF a.enabled THEN {a.rank} ELSE {})
    BY <1>1 DEF RowMatches
  <1>3. a.rank # "none"
    BY <1>1 DEF Account, Ranks
  <1>4. Assignable(r) /\ Present(r)
    BY <1>2 DEF Assignable, Present
  <1>5. CASE rank = "none"
    <2>1. CASE UNCHANGED <<account, role>> /\ ~a.enabled
      BY <1>2, <1>5, <2>1 DEF Reconciled
    <2>2. CASE role' = DeleteDbUser(r)
      <3>1. role'[r].login = FALSE
        BY <1>0, <1>1, <1>4, <2>2 DEF DeleteDbUser, PgRole
      <3> QED BY <1>5, <3>1 DEF Reconciled
    <2> QED BY <1>3, <1>5, <2>1, <2>2 DEF Sync
  <1>6. CASE rank # "none"
    <2>1. CASE UNCHANGED <<account, role>> /\ rank = a.rank /\ a.enabled
      BY <1>2, <1>6, <2>1 DEF Reconciled
    <2>2. CASE role' = CreateDbUser(r, NoOne, rank)
      <3>1. role'[r].login = TRUE /\ role'[r].ranks = {rank}
        BY <1>0, <1>1, <2>2 DEF CreateDbUser
      <3> QED BY <1>6, <3>1 DEF Reconciled
    <2> QED BY <1>4, <1>6, <2>1, <2>2 DEF Sync
  <1> QED BY <1>5, <1>6

\* Whenever sync has run without a failure, the catalog gives the account's role exactly
\* the rank its user is entitled to.
THEOREM SyncCorrect == Spec => SyncReconciles
  <1> DEFINE Step == \A u \in Users :
                        worker.at = "sync" /\ worker.user = u /\ Sync(u) /\ HasAccount(u) =>
                            Reconciled(u)
  <1>1. TypeOK /\ RowsMatchCatalog => Step
    BY SyncComplete
  <1>2. TypeOK /\ RowsMatchCatalog /\ [Next]_vars => [Step]_vars
    BY <1>1
  <1> QED BY <1>2, TypeCorrect, RowsCorrect, PTL DEF Spec, SyncReconciles, Step, Reconciled

-----------------------------------------------------------------------------
(* What an account promises its owner.                                     *)

\* Everybody's access, as Access sees it.
EveryAccess == [v \in Users |-> AccessOf(v)]

\* The access of one's own account is what role and row say; it is never "no account".
LEMMA AccessType ==
    ASSUME TypeOK, NEW u \in Users
    PROVE  /\ HasAccount(u) => AccessOf(u) \in Grant /\ AccessOf(u) # NoAccount
           /\ ~HasAccount(u) => AccessOf(u) = NoAccount
  <1>1. ASSUME HasAccount(u) PROVE AccessOf(u) \in Grant
    <2>1. role[account[u].role] \in PgRole /\ account[u] \in Account
      BY <1>1, RowType DEF TypeOK
    <2> QED BY <1>1, <2>1 DEF AccessOf, Grant, Owners, PgRole, Account
  <1> QED BY <1>1, DbUsersAssumption DEF AccessOf

\* While row and role of everyone stay what they are, so does their access.
LEMMA SameAccess ==
    ASSUME UNCHANGED <<account, role>>
    PROVE  EveryAccess' = EveryAccess
  BY DEF EveryAccess, AccessOf, HasAccount

\* A change to one user's row and to the role it names, or is to name, changes no access
\* but theirs.
LEMMA OneAccessAtATime ==
    ASSUME TypeOK, NEW u \in Users, NEW r \in Roles,
           RoleNameFree(r, u),
           \A v \in Users \ {u} : account'[v] = account[v],
           \A s \in Roles \ {r} : role'[s] = role[s]
    PROVE  EveryAccess' = [EveryAccess EXCEPT ![u] = AccessOf(u)']
  <1>1. ASSUME NEW v \in Users \ {u} PROVE AccessOf(v)' = AccessOf(v)
    <2>1. CASE HasAccount(v)
      <3>1. account[v].role \in Roles \ {r}
        BY <2>1, RowType DEF RoleNameFree
      <3> QED BY <2>1, <3>1 DEF AccessOf, HasAccount
    <2>2. CASE ~HasAccount(v)
      BY <2>2 DEF AccessOf, HasAccount
    <2> QED BY <2>1, <2>2
  <1> QED BY <1>1 DEF EveryAccess

\* A grant that is withdrawn, its password aside.
LEMMA GrantWithdrawn ==
    ASSUME NEW g \in Grant
    PROVE  [g EXCEPT !.login = FALSE, !.ranks = {}] =
           [login |-> FALSE, ranks |-> {}, password |-> g.password]
  <1> DEFINE withdrawn == [g EXCEPT !.login = FALSE, !.ranks = {}]
             same == [login |-> FALSE, ranks |-> {}, password |-> g.password]
  <1>1. withdrawn \in Grant
    BY DEF Grant
  <1>2. withdrawn.login = FALSE /\ withdrawn.ranks = {} /\ withdrawn.password = g.password
    BY DEF Grant
  <1>3. same \in Grant
    BY DEF Grant
  <1>4. same.login = FALSE /\ same.ranks = {} /\ same.password = g.password
    OBVIOUS
  <1> HIDE DEF withdrawn, same
  <1>5. withdrawn = same
    BY <1>1, <1>2, <1>3, <1>4 DEF Grant
  <1> QED BY <1>5 DEF withdrawn, same

\* Reconciling changes the rank of the user who signs in, and not the password.
LEMMA SyncReconcilesAccess ==
    ASSUME TypeOK, RowsMatchCatalog, NEW u \in Users, Sync(u),
           worker.user = u, worker'.user = u
    PROVE  Promised!Reconcile(u) \/ UNCHANGED <<EveryAccess, worker.user>>
  <1>0. account \in [Users -> Account \cup {NoAccount}] /\ role \in [Roles -> PgRole]
    BY DEF TypeOK
  <1>1. CASE UNCHANGED <<account, role>>
    BY <1>1, SameAccess
  <1>2. CASE ~UNCHANGED <<account, role>>
    <2>1. HasAccount(u)
      BY <1>2 DEF Sync
    <2> DEFINE r == account[u].role
    <2>2. r \in Roles /\ RowMatches(u) /\ RoleNameFree(r, u) /\ account[u] \in Account
      BY <2>1, OwnRole, RowType
    <2>3. role[r] \in PgRole
      BY <1>0, <2>2
    <2> DEFINE password == IF account[u].awaiting THEN NoOne ELSE role[r].password
    <2>4. AccessOf(u) = [login |-> role[r].login, ranks |-> role[r].ranks, password |-> password]
      BY <2>1 DEF AccessOf
    <2>5. EveryAccess[u] # NoAccount
      BY <2>1, AccessType DEF EveryAccess
    <2>6. CASE /\ role' = DeleteDbUser(r)
               /\ account' = [account EXCEPT ![u].enabled = FALSE]
      <3>1. role' = [role EXCEPT ![r].login = FALSE, ![r].ranks = {}]
        BY <2>2, <2>6 DEF DeleteDbUser, RowMatches, Present
      <3>2. /\ account'[u].role = r /\ account'[u].awaiting = account[u].awaiting
            /\ account'[u] \in Account
            /\ \A v \in Users \ {u} : account'[v] = account[v]
        BY <1>0, <2>2, <2>6 DEF Account
      <3>3. /\ role'[r].password = role[r].password /\ role'[r].login = FALSE
            /\ role'[r].ranks = {}
            /\ \A s \in Roles \ {r} : role'[s] = role[s]
        BY <1>0, <2>2, <2>3, <3>1 DEF PgRole
      <3>4. HasAccount(u)'
        BY <3>2, DbUsersAssumption DEF HasAccount
      <3>5. AccessOf(u)' = [login |-> FALSE, ranks |-> {}, password |-> password]
        BY <3>2, <3>3, <3>4 DEF AccessOf
      <3>6. EveryAccess' = [EveryAccess EXCEPT ![u] = AccessOf(u)']
        BY <2>2, <3>2, <3>3, OneAccessAtATime
      <3>7. AccessOf(u)' = [EveryAccess[u] EXCEPT !.login = FALSE, !.ranks = {}]
        <4>1. EveryAccess[u] = AccessOf(u) /\ AccessOf(u) \in Grant
          BY <2>1, AccessType DEF EveryAccess
        <4>2. AccessOf(u).password = password
          BY <2>4
        <4> QED BY <3>5, <4>1, <4>2, GrantWithdrawn
      <3>8. EveryAccess' = [EveryAccess EXCEPT ![u].login = FALSE, ![u].ranks = {}]
        BY <3>6, <3>7 DEF EveryAccess
      <3> QED BY <2>5, <3>8 DEF Promised!Reconcile, EveryAccess
    <2>7. CASE /\ Entitled(user[u]) # "none"
               /\ role' = CreateDbUser(r, NoOne, Entitled(user[u]))
               /\ account' = [account EXCEPT ![u].rank = Entitled(user[u]), ![u].enabled = TRUE]
      <3> DEFINE rank == Entitled(user[u])
      <3>1. rank \in Ranks
        BY <2>7, EntitledIsRank DEF Rank
      <3>2. /\ account'[u].role = r /\ account'[u].awaiting = account[u].awaiting
            /\ \A v \in Users \ {u} : account'[v] = account[v]
        BY <1>0, <2>2, <2>7 DEF Account
      <3>3. account'[u] \in Account
        BY <1>0, <2>2, <2>7, <3>1 DEF Account
      <3>4. /\ role'[r].password = role[r].password /\ role'[r].login = TRUE
            /\ role'[r].ranks = {rank}
            /\ \A s \in Roles \ {r} : role'[s] = role[s]
        BY <1>0, <2>2, <2>7 DEF CreateDbUser
      <3>5. HasAccount(u)'
        BY <3>3, DbUsersAssumption DEF HasAccount
      <3>6. AccessOf(u)' = Promised!Granted(rank, password)
        BY <3>2, <3>4, <3>5 DEF AccessOf, Promised!Granted
      <3>7. EveryAccess' = [EveryAccess EXCEPT ![u] = AccessOf(u)']
        BY <2>2, <3>2, <3>4, OneAccessAtATime
      <3>8. EveryAccess[u].password = password
        BY <2>4 DEF EveryAccess
      <3> HIDE DEF rank, password
      <3>9. EveryAccess' = [EveryAccess EXCEPT ![u] = Promised!Granted(rank, @.password)]
        BY <3>6, <3>7, <3>8
      <3> QED BY <2>5, <3>1, <3>9 DEF Promised!Reconcile, EveryAccess
    <2> QED BY <1>2, <2>6, <2>7 DEF Sync
  <1> QED BY <1>1, <1>2

\* The password a login shows is its user's own, and comes with the rank the account has.
LEMMA IssueClaimsAccess ==
    ASSUME TypeOK, RowsMatchCatalog, NEW u \in Users, IssueCredential(u),
           worker.user = u, worker'.user = NoOne
    PROVE  Promised!Claim(u) \/ Promised!End
  <1>0. account \in [Users -> Account \cup {NoAccount}] /\ role \in [Roles -> PgRole]
    BY DEF TypeOK
  <1>1. CASE UNCHANGED <<account, role>>
    BY <1>1, SameAccess DEF Promised!End, EveryAccess
  <1>2. CASE ~UNCHANGED <<account, role>>
    <2> DEFINE r == account[u].role
               rank == account[u].rank
    <2>1. /\ HasAccount(u) /\ account[u].awaiting
          /\ role' = CreateDbUser(r, u, rank)
          /\ account' = [account EXCEPT ![u].awaiting = FALSE, ![u].enabled = TRUE]
      BY <1>2 DEF IssueCredential
    <2>2. r \in Roles /\ RowMatches(u) /\ RoleNameFree(r, u) /\ account[u] \in Account
      BY <2>1, OwnRole, RowType
    <2>3. rank \in Ranks /\ u # NoOne
      BY <2>2, DbUsersAssumption DEF Account
    <2>4. AccessOf(u) = [login |-> role[r].login, ranks |-> role[r].ranks, password |-> NoOne]
      BY <2>1 DEF AccessOf
    <2>5. role[r].login => role[r].ranks = {rank}
      BY <2>2 DEF RowMatches
    <2>6. /\ account'[u].role = r /\ account'[u].awaiting = FALSE
          /\ account'[u] \in Account
          /\ \A v \in Users \ {u} : account'[v] = account[v]
      BY <1>0, <2>1, <2>2 DEF Account
    <2>7. /\ role'[r].login = TRUE /\ role'[r].ranks = {rank} /\ role'[r].password = u
          /\ \A s \in Roles \ {r} : role'[s] = role[s]
      BY <1>0, <2>1, <2>2, <2>3 DEF CreateDbUser
    <2>8. HasAccount(u)'
      BY <2>6, DbUsersAssumption DEF HasAccount
    <2>9. AccessOf(u)' = Promised!Granted(rank, u)
      BY <2>6, <2>7, <2>8 DEF AccessOf, Promised!Granted
    <2>10. EveryAccess' = [EveryAccess EXCEPT ![u] = AccessOf(u)']
      BY <2>2, <2>6, <2>7, OneAccessAtATime
    <2>11. /\ EveryAccess[u] # NoAccount /\ EveryAccess[u].password = NoOne
           /\ EveryAccess[u].login => EveryAccess[u].ranks = {rank}
      <3>1. EveryAccess[u] = AccessOf(u)
        BY DEF EveryAccess
      <3> QED BY <2>1, <2>4, <2>5, <3>1, AccessType
    <2> HIDE DEF rank
    <2>12. EveryAccess' = [EveryAccess EXCEPT ![u] = Promised!Granted(rank, u)]
      BY <2>9, <2>10
    <2> QED BY <2>3, <2>11, <2>12 DEF Promised!Claim, EveryAccess
  <1> QED BY <1>1, <1>2

\* Enrolling gives access without a password to someone who had none.
LEMMA EnrollGivesAccess ==
    ASSUME TypeOK, NEW u \in Users, NEW edited \in Posts, Enroll(u, edited),
           ~HasAccount(u), worker.user = NoOne, UNCHANGED worker
    PROVE  Promised!Enroll(u)
  <1>0. account \in [Users -> Account \cup {NoAccount}] /\ role \in [Roles -> PgRole]
    BY DEF TypeOK
  <1> DEFINE r == RoleNameFor[edited.name]
             rank == DbRoleForUser(user[u].groups, edited.superuser)
             row == [role |-> r, rank |-> rank, enabled |-> TRUE, awaiting |-> TRUE]
  <1>1. r \in Roles
    BY DbUsersAssumption DEF Person
  <1>2. rank \in Ranks
    BY RankOfGroups DEF Enroll, Rank
  <1>3. /\ RoleNameFree(r, u)
        /\ role' = CreateDbUser(r, NoOne, rank)
        /\ account' = [account EXCEPT ![u] = row]
    BY DEF Enroll
  <1> HIDE DEF r, rank
  <1>4. row \in Account
    BY <1>1, <1>2 DEF Account
  <1>5. account'[u] = row /\ \A v \in Users \ {u} : account'[v] = account[v]
    BY <1>0, <1>3
  <1>6. /\ role'[r].login = TRUE /\ role'[r].ranks = {rank}
        /\ \A s \in Roles \ {r} : role'[s] = role[s]
    BY <1>0, <1>1, <1>3 DEF CreateDbUser
  <1>7. HasAccount(u)'
    BY <1>4, <1>5, DbUsersAssumption DEF HasAccount
  <1>8. account'[u].role = r /\ account'[u].awaiting = TRUE
    BY <1>5
  <1>9. AccessOf(u)' = Promised!Granted(rank, NoOne)
    BY <1>6, <1>7, <1>8 DEF AccessOf, Promised!Granted
  <1>10. EveryAccess' = [EveryAccess EXCEPT ![u] = AccessOf(u)']
    BY <1>1, <1>3, <1>5, <1>6, OneAccessAtATime
  <1>11. EveryAccess[u] = NoAccount
    BY AccessType DEF EveryAccess
  <1>12. EveryAccess' = [EveryAccess EXCEPT ![u] = Promised!Granted(rank, NoOne)]
    BY <1>9, <1>10
  <1> QED BY <1>2, <1>11, <1>12 DEF Promised!Enroll, EveryAccess

\* Taking the row takes the access, whatever is done to the role it named.
LEMMA RemoveTakesAccess ==
    ASSUME TypeOK, RowsMatchCatalog, NEW u \in Users,
           worker.user = NoOne, UNCHANGED worker,
           account' = [account EXCEPT ![u] = NoAccount],
           \/ role' = role
           \/ HasAccount(u) /\ \A s \in Roles \ {account[u].role} : role'[s] = role[s]
    PROVE  Promised!Remove(u)
  <1>0. account \in [Users -> Account \cup {NoAccount}] /\ role \in [Roles -> PgRole]
    BY DEF TypeOK
  <1>1. ~HasAccount(u)' /\ \A v \in Users \ {u} : account'[v] = account[v]
    BY <1>0 DEF HasAccount
  <1>2. AccessOf(u)' = NoAccount
    BY <1>1 DEF AccessOf
  <1>3. EveryAccess' = [EveryAccess EXCEPT ![u] = AccessOf(u)']
    <2>1. CASE role' = role
      <3>1. \A v \in Users \ {u} : AccessOf(v)' = AccessOf(v)
        BY <1>1, <2>1 DEF AccessOf, HasAccount
      <3> QED BY <3>1 DEF EveryAccess
    <2>2. CASE HasAccount(u) /\ \A s \in Roles \ {account[u].role} : role'[s] = role[s]
      <3>1. account[u].role \in Roles /\ RoleNameFree(account[u].role, u)
        BY <2>2, OwnRole
      <3> QED BY <1>1, <2>2, <3>1, OneAccessAtATime
    <2> QED BY <2>1, <2>2
  <1>4. EveryAccess' = [EveryAccess EXCEPT ![u] = NoAccount]
    BY <1>2, <1>3
  <1> QED BY <1>4 DEF Promised!Remove, EveryAccess

\* A reset takes the password and leaves the rest.
LEMMA ResetTakesPassword ==
    ASSUME TypeOK, RowsMatchCatalog, NEW u \in Users, Reset(u)
    PROVE  Promised!Reset(u)
  <1>0. account \in [Users -> Account \cup {NoAccount}] /\ role \in [Roles -> PgRole]
    BY DEF TypeOK
  <1> DEFINE r == account[u].role
  <1>1. HasAccount(u) /\ worker' = worker
    BY DEF Reset
  <1>2. r \in Roles /\ RowMatches(u) /\ RoleNameFree(r, u) /\ account[u] \in Account
    BY <1>1, OwnRole, RowType
  <1>3. role[r] \in PgRole
    BY <1>0, <1>2
  <1>4. role' = [role EXCEPT ![r].password = NoOne]
    BY <1>2 DEF Reset, ClearDbUserPassword, RowMatches, Present
  <1>5. /\ account'[u].role = r /\ account'[u].awaiting = TRUE
        /\ account'[u] \in Account
        /\ \A v \in Users \ {u} : account'[v] = account[v]
    BY <1>0, <1>2 DEF Reset, Account
  <1>6. /\ role'[r].login = role[r].login /\ role'[r].ranks = role[r].ranks
        /\ \A s \in Roles \ {r} : role'[s] = role[s]
    BY <1>0, <1>2, <1>3, <1>4 DEF PgRole
  <1>7. HasAccount(u)'
    BY <1>5, DbUsersAssumption DEF HasAccount
  <1> DEFINE before == [login |-> role[r].login, ranks |-> role[r].ranks,
                        password |-> IF account[u].awaiting THEN NoOne ELSE role[r].password]
  <1>8. EveryAccess[u] = before
    BY <1>1 DEF EveryAccess, AccessOf
  <1>9. AccessOf(u)' = [before EXCEPT !.password = NoOne]
    <2>1. AccessOf(u)' = [login |-> role[r].login, ranks |-> role[r].ranks, password |-> NoOne]
      BY <1>5, <1>6, <1>7 DEF AccessOf
    <2> QED BY <2>1
  <1> HIDE DEF before
  <1>10. EveryAccess' = [EveryAccess EXCEPT ![u] = AccessOf(u)']
    BY <1>2, <1>5, <1>6, OneAccessAtATime
  <1>11. EveryAccess' = [EveryAccess EXCEPT ![u].password = NoOne]
    BY <1>8, <1>9, <1>10
  <1>12. EveryAccess[u] # NoAccount
    BY <1>1, AccessType DEF EveryAccess
  <1> QED BY <1>1, <1>11, <1>12 DEF Promised!Reset, EveryAccess

\* Tenants come and go in the same catalog and are nobody's access.
LEMMA TenantsGiveNoAccess ==
    ASSUME TypeOK, OnboardedForeign, RowsMatchCatalog, NEW r \in Roles,
           TenantCreated(r) \/ TenantDeleted(r)
    PROVE  UNCHANGED <<EveryAccess, worker.user>>
  <1>0. role \in [Roles -> PgRole]
    BY DEF TypeOK
  <1>1. account' = account /\ worker' = worker /\ role[r].kind # "person"
    BY DEF TenantCreated, TenantDeleted, OnboardedForeign
  <1>2. \A s \in Roles \ {r} : role'[s] = role[s]
    BY <1>0 DEF TenantCreated, TenantDeleted
  <1>3. ASSUME NEW v \in Users PROVE AccessOf(v)' = AccessOf(v)
    <2>1. CASE HasAccount(v)
      <3>1. account[v].role \in Roles \ {r}
        BY <1>1, <2>1, OwnRole DEF RowMatches
      <3> QED BY <1>1, <1>2, <2>1, <3>1 DEF AccessOf, HasAccount
    <2>2. CASE ~HasAccount(v)
      BY <1>1, <2>2 DEF AccessOf, HasAccount
    <2> QED BY <2>1, <2>2
  <1> QED BY <1>1, <1>3 DEF EveryAccess

\* Every step is one the promise allows, or none.
LEMMA AccessNext ==
    TypeOK /\ OnboardedForeign /\ RowsMatchCatalog /\ [Next]_vars =>
        [Promised!Next]_<<EveryAccess, worker.user>>
  <1> SUFFICES ASSUME TypeOK, OnboardedForeign, RowsMatchCatalog, [Next]_vars
               PROVE  Promised!Next \/ UNCHANGED <<EveryAccess, worker.user>>
    OBVIOUS
  <1>0. Idle.user = NoOne
    BY DEF Idle
  <1>1. ASSUME NEW u \in Users, SsoRefused(u) \/ LocalLogin(u) PROVE Promised!Begin(u)
    <2>1. worker.user = NoOne /\ worker'.user = u /\ UNCHANGED <<account, role>>
      BY <1>0, <1>1 DEF SsoRefused, LocalLogin
    <2> QED BY <2>1, SameAccess DEF Promised!Begin, EveryAccess
  <1>2. ASSUME NEW u \in Users, NEW claimed \in Claims, NEW n \in Names,
               SsoLogin(u, claimed, n)
        PROVE  Promised!Begin(u)
    <2>1. worker.user = NoOne /\ worker'.user = u /\ UNCHANGED <<account, role>>
      BY <1>0, <1>2 DEF SsoLogin
    <2> QED BY <2>1, SameAccess DEF Promised!Begin, EveryAccess
  <1>3. CASE RefusalAnswered \/ WorkerKilled
    <2>1. worker'.user = NoOne /\ UNCHANGED <<account, role>>
      BY <1>0, <1>3 DEF RefusalAnswered, WorkerKilled
    <2>2. Promised!End
      BY <2>1, SameAccess DEF Promised!End, EveryAccess
    <2> QED BY <2>2 DEF Promised!Next
  <1>4. ASSUME NEW u \in Users, JoinGroup(u) \/ ApplyFlags(u)
        PROVE  UNCHANGED <<EveryAccess, worker.user>>
    <2>1. worker'.user = worker.user /\ UNCHANGED <<account, role>>
      BY <1>4 DEF JoinGroup, ApplyFlags, TypeOK, Request, Idle
    <2> QED BY <2>1, SameAccess
  <1>5. ASSUME NEW u \in Users, SyncOnLogin(u)
        PROVE  Promised!Reconcile(u) \/ UNCHANGED <<EveryAccess, worker.user>>
    <2>1. worker.user = u /\ worker'.user = u
      BY <1>5 DEF SyncOnLogin, TypeOK, Request, Idle
    <2> QED BY <1>5, <2>1, SameAccess, SyncReconcilesAccess DEF SyncOnLogin
  <1>6. ASSUME NEW u \in Users, IssueOnLogin(u) PROVE Promised!Claim(u) \/ Promised!End
    <2>1. worker.user = u /\ worker'.user = NoOne
      BY <1>0, <1>6 DEF IssueOnLogin
    <2>2. CASE UNCHANGED <<account, role>>
      BY <2>1, <2>2, SameAccess DEF Promised!End, EveryAccess
    <2> QED BY <1>6, <2>1, <2>2, IssueClaimsAccess DEF IssueOnLogin
  <1>7. ASSUME NEW u \in Users, NEW edited \in Posts, NEW wanted \in BOOLEAN,
               AdminSave(u, edited, wanted)
        PROVE  \/ Promised!Enroll(u) \/ Promised!Remove(u)
               \/ UNCHANGED <<EveryAccess, worker.user>>
    <2>1. worker.user = NoOne /\ worker' = worker
      BY <1>0, <1>7 DEF AdminSave
    <2>2. CASE UNCHANGED <<account, role>>
      BY <2>1, <2>2, SameAccess
    <2>3. CASE ~HasAccount(u) /\ Enroll(u, edited)
      BY <2>1, <2>3, EnrollGivesAccess
    <2>4. CASE HasAccount(u) /\ Remove(u)
      <3>1. \A s \in Roles \ {account[u].role} : role'[s] = role[s]
        BY <2>4 DEF Remove, DropDbUser, TypeOK
      <3> QED BY <2>1, <2>4, <3>1, RemoveTakesAccess DEF Remove
    <2> QED BY <1>7, <2>2, <2>3, <2>4 DEF AdminSave
  <1>8. ASSUME NEW u \in Users, NEW n \in Names, AdminAdd(u, n)
        PROVE  UNCHANGED <<EveryAccess, worker.user>>
    BY <1>8, SameAccess DEF AdminAdd
  <1>9. ASSUME NEW u \in Users, UserDelete(u) PROVE Promised!Remove(u)
    <2>1. /\ worker.user = NoOne /\ worker' = worker
          /\ account' = [account EXCEPT ![u] = NoAccount]
      BY <1>0, <1>9 DEF UserDelete
    <2>2. \/ role' = role
          \/ HasAccount(u) /\ \A s \in Roles \ {account[u].role} : role'[s] = role[s]
      BY <1>9 DEF UserDelete, DeleteDbUser, TypeOK
    <2> QED BY <2>1, <2>2, RemoveTakesAccess
  <1>10. ASSUME NEW u \in Users, Reset(u) PROVE Promised!Reset(u)
    BY <1>10, ResetTakesPassword
  <1>11. ASSUME NEW r \in Roles, TenantCreated(r) \/ TenantDeleted(r)
         PROVE  UNCHANGED <<EveryAccess, worker.user>>
    BY <1>11, TenantsGiveNoAccess
  <1>12. CASE UNCHANGED vars
    BY <1>12, SameAccess DEF vars
  <1>13. ASSUME NEW u \in Users, NEW rank \in Ranks, LeaveGroup(u, rank)
         PROVE  UNCHANGED <<EveryAccess, worker.user>>
    BY <1>13, SameAccess DEF LeaveGroup
  <1> QED BY <1>1, <1>2, <1>3, <1>4, <1>5, <1>6, <1>7, <1>8, <1>9, <1>10, <1>11, <1>12, <1>13
          DEF Next, Promised!Next

\* Database accounts keep what Access promises a person, whatever requests come, fail or
\* are cut off: one person's request never changes another's access.
THEOREM AccountsImplementAccess == Spec => AccessIsPersonal
  <1>1. Init => Promised!Init
    BY DEF Init, Promised!Init, AccessOf, HasAccount, Idle
  <1>2. TypeOK /\ OnboardedForeign /\ RowsMatchCatalog /\ [Next]_vars =>
            [Promised!Next]_<<[u \in Users |-> AccessOf(u)], worker.user>>
    BY AccessNext DEF EveryAccess
  <1> QED BY <1>1, <1>2, TypeCorrect, OnboardedCorrect, RowsCorrect, PTL
          DEF Spec, AccessIsPersonal, Promised!Spec
=============================================================================
