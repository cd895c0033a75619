------------------------------- MODULE DbUsers -------------------------------
(***************************************************************************)
(* Personal database accounts: the Django user, the DatabaseUser row and   *)
(* the PostgreSQL role behind it (crudman/app/dbusers, crudman/app/sso,    *)
(* postgresql/initdb/gf_0003).                                             *)
(*                                                                         *)
(* The web application runs as one synchronous gunicorn worker             *)
(* (crudman/entrypoint.sh), so requests never overlap; what is hard here   *)
(* is that a login is several transactions, each of which may fail or be   *)
(* cut off while the next still runs, that a shell or psql may come        *)
(* between them, and that three stores which share no key (users, rows,    *)
(* roles) have to agree after any sequence of requests.                    *)
(***************************************************************************)
EXTENDS FiniteSets

CONSTANTS
    Users,         \* Django accounts; a primary key is never used twice
    Names,         \* usernames
    Roles,         \* PostgreSQL role names
    RoleNameFor,   \* role_name_for: several usernames may slug to one role name
    ServiceRoles,  \* the superuser and the three component roles
    NoOne,         \* "nobody": the owner of a password that was never set
    Onboarding,    \* the owner of a password that create_tenant has set
    NoAccount,     \* the absence of a DatabaseUser row
    Claims,        \* the sets of known roles the identity provider may send
    Posts,         \* what the user page of the admin may be saved with
    Faults         \* whether database calls may fail and the worker may be killed

Ranks == {"viewer", "editor", "admin"}
Rank == Ranks \cup {"none"}

Account == [role : Roles, rank : Ranks, enabled : BOOLEAN, awaiting : BOOLEAN]

Person == [state : {"new", "present", "deleted"}, name : Names, active : BOOLEAN,
           staff : BOOLEAN, superuser : BOOLEAN, groups : SUBSET Ranks]

Owners == Users \cup {NoOne, Onboarding}

PgRole == [kind : {"absent", "person", "tenant", "service"}, login : BOOLEAN,
           password : Owners, ranks : SUBSET Ranks]

\* What a database account is worth to the person it belongs to.
Grant == [login : BOOLEAN, ranks : SUBSET Ranks, password : Owners]

Idle == [at |-> "idle", user |-> NoOne, granted |-> "none"]
Request == [at : {"refused", "sync", "issue"}, user : Users, granted : Rank]
           \cup [at : {"groups", "flags"}, user : Users, granted : Ranks]

ASSUME DbUsersAssumption ==
    /\ RoleNameFor \in [Names -> Roles]
    /\ ServiceRoles \subseteq Roles
    /\ NoOne \notin Users /\ Onboarding \notin Users \cup {NoOne}
    /\ NoAccount \notin Account \cup Grant
    /\ Names # {}
    /\ Claims \subseteq SUBSET Ranks
    /\ Posts \subseteq Person
    /\ Faults \in BOOLEAN

VARIABLES
    user,        \* auth_user and its role groups
    account,     \* dbusers_databaseuser, by user
    role,        \* pg_roles and pg_auth_members
    onboarded,   \* the names that have a bronze schema
    worker       \* what the web worker is in the middle of

vars == <<user, account, role, onboarded, worker>>

\* A Person nobody is, before the account exists and after it is gone.
Blank(state) == [state |-> state, name |-> CHOOSE n \in Names : TRUE, active |-> FALSE,
                 staff |-> FALSE, superuser |-> FALSE, groups |-> {}]

AbsentRole == [kind |-> "absent", login |-> FALSE, password |-> NoOne, ranks |-> {}]

Init ==
    /\ user = [u \in Users |-> Blank("new")]
    /\ account = [u \in Users |-> NoAccount]
    /\ role = [r \in Roles |-> IF r \in ServiceRoles
                               THEN [AbsentRole EXCEPT !.kind = "service", !.login = TRUE]
                               ELSE AbsentRole]
    /\ onboarded = {}
    /\ worker = Idle

-----------------------------------------------------------------------------
(* Ranks.                                                                  *)

\* highest_role and db_role_for_user: the most privileged of several ranks.
HighestRole(R) ==
    IF "admin" \in R THEN "admin"
    ELSE IF "editor" \in R THEN "editor"
    ELSE IF "viewer" \in R THEN "viewer"
    ELSE "none"

DbRoleForUser(groups, superuser) ==
    IF HighestRole(groups) = "none" /\ superuser THEN "admin" ELSE HighestRole(groups)

\* What sync grants: nothing to an inactive user, whatever the groups say.
Entitled(p) == IF p.active THEN DbRoleForUser(p.groups, p.superuser) ELSE "none"

-----------------------------------------------------------------------------
(* The SECURITY DEFINER functions of gf_0003. Each is a guard and an        *)
(* effect; when the guard is false the function raises and the caller's     *)
(* transaction rolls back.                                                  *)

Present(r) == role[r].kind # "absent"

\* A mutant of Assignable: the marker is never asked for.
AnyAssignable(r) == TRUE

\* create_db_user: the name is free or already carries the person marker.
Assignable(r) == role[r].kind \in {"absent", "person"}

\* A mutant of CreateDbUser: the ranks granted before are not revoked.
CreateKeepingRanks(r, password, rank) ==
    [role EXCEPT ![r] = [kind |-> "person", login |-> TRUE, ranks |-> @.ranks \cup {rank},
                         password |-> IF password = NoOne THEN @.password ELSE password]]

\* A password of NoOne is SQL's NULL: "leave the credential alone".
CreateDbUser(r, password, rank) ==
    [role EXCEPT ![r] = [kind |-> "person", login |-> TRUE, ranks |-> {rank},
                         password |-> IF password = NoOne THEN @.password ELSE password]]

\* delete_db_user, clear_db_user_password and drop_db_user share one guard and do
\* nothing to a role that does not exist.
Touchable(r) == role[r].kind \in {"absent", "person"}

\* A mutant of DeleteDbUser: the login goes, the ranks stay.
DeleteKeepingRanks(r) ==
    IF Present(r) THEN [role EXCEPT ![r].login = FALSE] ELSE role

DeleteDbUser(r) ==
    IF Present(r) THEN [role EXCEPT ![r].login = FALSE, ![r].ranks = {}] ELSE role

ClearDbUserPassword(r) ==
    IF Present(r) THEN [role EXCEPT ![r].password = NoOne] ELSE role

DropDbUser(r) == [role EXCEPT ![r] = AbsentRole]

-----------------------------------------------------------------------------
(* Signing in.                                                             *)

HasAccount(u) == account[u] # NoAccount

Taken(n, u) == \E v \in Users \ {u} : user[v].state = "present" /\ user[v].name = n

\* pre_social_login: without a known role the login is refused before anything changes.
SsoRefused(u) ==
    /\ worker = Idle
    /\ user[u].state = "present"
    /\ worker' = [at |-> "refused", user |-> u, granted |-> "none"]
    /\ UNCHANGED <<user, account, role, onboarded>>

\* The 403 page goes out; no login signal was sent.
RefusalAnswered ==
    /\ worker.at = "refused"
    /\ worker' = Idle
    /\ UNCHANGED <<user, account, role, onboarded>>

\* pre_social_login for someone known, save_user at a first login: both go on to apply_roles.
SsoLogin(u, claimed, n) ==
    LET granted == HighestRole(claimed) IN
    /\ worker = Idle
    /\ granted # "none"
    /\ \/ user[u].state = "present" /\ n = user[u].name /\ UNCHANGED user
       \/ /\ user[u].state = "new"
          /\ ~Taken(n, u)
          /\ user' = [user EXCEPT ![u] = [Blank("present") EXCEPT !.name = n, !.active = TRUE]]
    /\ worker' = [at |-> "groups", user |-> u, granted |-> granted]
    /\ UNCHANGED <<account, role, onboarded>>

\* The first half of apply_roles: the groups the provider does not grant are left one by one,
\* each in a statement of its own, and then the granted one is joined.
LeaveGroup(u, rank) ==
    /\ worker.at = "groups"
    /\ worker.user = u
    /\ rank \in user[u].groups \ {worker.granted}
    /\ user' = [user EXCEPT ![u].groups = @ \ {rank}]
    /\ UNCHANGED <<account, role, onboarded, worker>>

JoinGroup(u) ==
    /\ worker.at = "groups"
    /\ worker.user = u
    /\ user[u].groups \subseteq {worker.granted}
    /\ user' = [user EXCEPT ![u].groups = {worker.granted}]
    /\ worker' = [worker EXCEPT !.at = "flags"]
    /\ UNCHANGED <<account, role, onboarded>>

\* The second half of apply_roles: the three flags, saved in a statement of their own.
ApplyFlags(u) ==
    /\ worker.at = "flags"
    /\ worker.user = u
    /\ user' = [user EXCEPT ![u].active = TRUE, ![u].staff = TRUE,
                            ![u].superuser = (worker.granted = "admin")]
    /\ worker' = [worker EXCEPT !.at = "sync"]
    /\ UNCHANGED <<account, role, onboarded>>

\* ModelBackend refuses an inactive user.
LocalLogin(u) ==
    /\ worker = Idle
    /\ user[u].state = "present"
    /\ user[u].active
    /\ worker' = [at |-> "sync", user |-> u, granted |-> "none"]
    /\ UNCHANGED <<user, account, role, onboarded>>

\* sync: nobody without an account, nothing for an unchanged rank; a lost rank
\* disables the role, another one is granted with the credential left alone.
Sync(u) ==
    LET a == account[u]
        rank == Entitled(user[u])
    IN \/ /\ \/ ~HasAccount(u)
             \/ HasAccount(u) /\ rank = "none" /\ ~a.enabled
             \/ HasAccount(u) /\ rank = a.rank /\ a.enabled
             \/ HasAccount(u) /\ rank # "none" /\ ~Assignable(a.role)
          /\ UNCHANGED <<account, role>>
       \/ /\ HasAccount(u) /\ rank = "none" /\ a.enabled
          /\ Touchable(a.role)
          /\ role' = DeleteDbUser(a.role)
          /\ account' = [account EXCEPT ![u].enabled = FALSE]
       \/ /\ HasAccount(u) /\ rank # "none" /\ ~(rank = a.rank /\ a.enabled)
          /\ Assignable(a.role)
          /\ role' = CreateDbUser(a.role, NoOne, rank)
          /\ account' = [account EXCEPT ![u].rank = rank, ![u].enabled = TRUE]

\* sync_on_login, first half: a failure is logged and swallowed.
SyncOnLogin(u) ==
    /\ worker.at = "sync"
    /\ worker.user = u
    /\ Sync(u) \/ (Faults /\ UNCHANGED <<account, role>>)
    /\ worker' = [worker EXCEPT !.at = "issue"]
    /\ UNCHANGED <<user, onboarded>>

\* issue_credential: the role is provisioned again, now with a password, at the rank the
\* row remembers.
IssueCredential(u) ==
    LET a == account[u] IN
    IF HasAccount(u) /\ a.awaiting /\ Assignable(a.role)
    THEN /\ role' = CreateDbUser(a.role, u, a.rank)
         /\ account' = [account EXCEPT ![u].awaiting = FALSE, ![u].enabled = TRUE]
    ELSE UNCHANGED <<account, role>>

\* sync_on_login, second half: it runs whatever became of the first.
IssueOnLogin(u) ==
    /\ worker.at = "issue"
    /\ worker.user = u
    /\ IssueCredential(u) \/ (Faults /\ UNCHANGED <<account, role>>)
    /\ worker' = Idle
    /\ UNCHANGED <<user, onboarded>>

\* gunicorn aborts a worker that overran its timeout, and the container may restart.
WorkerKilled ==
    /\ Faults
    /\ worker # Idle
    /\ worker' = Idle
    /\ UNCHANGED <<user, account, role, onboarded>>

-----------------------------------------------------------------------------
(* The user page of the admin. Each save is one transaction, the change to  *)
(* the database account a savepoint within it.                              *)

\* unmanaged_role: a role of the derived name exists and no row records it.
UnmanagedRole(p) ==
    /\ \A v \in Users : HasAccount(v) => account[v].role # RoleNameFor[p.name]
    /\ Present(RoleNameFor[p.name])

\* UserWithDatabaseAccessForm computes the switch from the user as loaded.
SwitchDisabled(p) ==
    \/ UnmanagedRole(p)
    \/ ~p.staff
    \/ DbRoleForUser(p.groups, p.superuser) = "none"

\* A mutant of RoleNameFree: the column is not unique.
RoleNameShared(r, u) == TRUE

\* update_or_create would give two rows one role_name, which is unique.
RoleNameFree(r, u) == \A v \in Users \ {u} : HasAccount(v) => account[v].role # r

\* A mutant of Enroll: nobody asks whether the user has a rank to record.
EnrollAnyone(u, edited) ==
    LET r == RoleNameFor[edited.name]
        rank == DbRoleForUser(user[u].groups, edited.superuser)
    IN /\ Assignable(r)
       /\ RoleNameFree(r, u)
       /\ role' = CreateDbUser(r, NoOne, rank)
       /\ account' = [account EXCEPT ![u] =
                        [role |-> r, rank |-> rank, enabled |-> TRUE, awaiting |-> TRUE]]

\* enroll sees the new name and flags and, the groups being written after save_model
\* returns, the old groups.
Enroll(u, edited) ==
    LET r == RoleNameFor[edited.name]
        rank == DbRoleForUser(user[u].groups, edited.superuser)
    IN /\ rank # "none"
       /\ Assignable(r)
       /\ RoleNameFree(r, u)
       /\ role' = CreateDbUser(r, NoOne, rank)
       /\ account' = [account EXCEPT ![u] =
                        [role |-> r, rank |-> rank, enabled |-> TRUE, awaiting |-> TRUE]]

EnrollRefused(u, edited) ==
    \/ DbRoleForUser(user[u].groups, edited.superuser) = "none"
    \/ ~Assignable(RoleNameFor[edited.name])
    \/ ~RoleNameFree(RoleNameFor[edited.name], u)

Remove(u) ==
    /\ Touchable(account[u].role)
    /\ role' = DropDbUser(account[u].role)
    /\ account' = [account EXCEPT ![u] = NoAccount]

\* save_model and then save_related: the user edit stands whatever became of the account.
AdminSave(u, edited, wanted) ==
    /\ worker = Idle
    /\ user[u].state = "present"
    /\ edited.state = "present"
    /\ ~Taken(edited.name, u)
    /\ user' = [user EXCEPT ![u] = edited]
    /\ \/ /\ SwitchDisabled(user[u]) \/ wanted = HasAccount(u)
          /\ UNCHANGED <<account, role>>
       \/ /\ ~SwitchDisabled(user[u]) /\ wanted /\ ~HasAccount(u)
          /\ \/ Enroll(u, edited)
             \/ (Faults \/ EnrollRefused(u, edited)) /\ UNCHANGED <<account, role>>
       \/ /\ ~SwitchDisabled(user[u]) /\ ~wanted /\ HasAccount(u)
          /\ \/ Remove(u)
             \/ (Faults \/ ~Touchable(account[u].role)) /\ UNCHANGED <<account, role>>
    /\ UNCHANGED <<onboarded, worker>>

\* The add page has no switch, no groups and no staff flag.
AdminAdd(u, n) ==
    /\ worker = Idle
    /\ user[u].state = "new"
    /\ ~Taken(n, u)
    /\ user' = [user EXCEPT ![u] = [Blank("present") EXCEPT !.name = n, !.active = TRUE]]
    /\ UNCHANGED <<account, role, onboarded, worker>>

\* disable_on_user_delete, then the cascade takes the row; a failed disable is swallowed.
UserDelete(u) ==
    /\ worker = Idle
    /\ user[u].state = "present"
    /\ user' = [user EXCEPT ![u] = Blank("deleted")]
    /\ account' = [account EXCEPT ![u] = NoAccount]
    /\ IF HasAccount(u) /\ Touchable(account[u].role)
       THEN role' = DeleteDbUser(account[u].role) \/ (Faults /\ UNCHANGED role)
       ELSE UNCHANGED role
    /\ UNCHANGED <<onboarded, worker>>

\* A mutant of Reset: the row does not learn that the password is gone.
ResetSilently(u) ==
    /\ HasAccount(u)
    /\ Touchable(account[u].role)
    /\ role' = ClearDbUserPassword(account[u].role)
    /\ UNCHANGED <<user, account, onboarded, worker>>

\* reset, called from a shell, for no page offers it: it may come between the transactions of
\* a login.
Reset(u) ==
    /\ HasAccount(u)
    /\ Touchable(account[u].role)
    /\ role' = ClearDbUserPassword(account[u].role)
    /\ account' = [account EXCEPT ![u].awaiting = TRUE]
    /\ UNCHANGED <<user, onboarded, worker>>

\* Tenants share the namespace of role names, and their functions are called while a person
\* signs in as well, from psql. create_tenant refuses a person's role only: on any other that
\* is there, a service's too, it sets the password.
TenantCreated(r) ==
    /\ role[r].kind # "person"
    /\ role' = [role EXCEPT ![r] =
                   IF Present(r) THEN [@ EXCEPT !.password = Onboarding]
                   ELSE [kind |-> "tenant", login |-> TRUE, password |-> Onboarding, ranks |-> {}]]
    /\ onboarded' = onboarded \cup {r}
    /\ UNCHANGED <<user, account, worker>>

\* delete_tenant, of what is listed as a tenant, drops the role whosever it is.
TenantDeleted(r) ==
    /\ r \in onboarded
    /\ role' = [role EXCEPT ![r] = AbsentRole]
    /\ onboarded' = onboarded \ {r}
    /\ UNCHANGED <<user, account, worker>>

-----------------------------------------------------------------------------

Next ==
    \/ \E u \in Users : SsoRefused(u) \/ LocalLogin(u) \/ UserDelete(u) \/ Reset(u)
    \/ \E u \in Users, rank \in Ranks : LeaveGroup(u, rank)
    \/ \E u \in Users : JoinGroup(u) \/ ApplyFlags(u) \/ SyncOnLogin(u) \/ IssueOnLogin(u)
    \/ \E u \in Users, claimed \in Claims, n \in Names : SsoLogin(u, claimed, n)
    \/ \E u \in Users, n \in Names : AdminAdd(u, n)
    \/ \E u \in Users, edited \in Posts, wanted \in BOOLEAN : AdminSave(u, edited, wanted)
    \/ \E r \in Roles : TenantCreated(r) \/ TenantDeleted(r)
    \/ RefusalAnswered \/ WorkerKilled

Spec == Init /\ [][Next]_vars

-----------------------------------------------------------------------------
(* What all this amounts to for a person, read from the catalog; the row    *)
(* says only which role is theirs, and whether they have its password.      *)

AccessOf(u) ==
    LET r == role[account[u].role] IN
    IF ~HasAccount(u) THEN NoAccount
    ELSE [login |-> r.login, ranks |-> r.ranks,
          password |-> IF account[u].awaiting THEN NoOne ELSE r.password]

Promised == INSTANCE Access WITH
    NoAccess <- NoAccount,
    access <- [u \in Users |-> AccessOf(u)],
    signingIn <- worker.user

-----------------------------------------------------------------------------
(* Properties.                                                             *)

\* Every variable holds what its table can hold.
TypeOK ==
    /\ user \in [Users -> Person]
    /\ account \in [Users -> Account \cup {NoAccount}]
    /\ role \in [Roles -> PgRole]
    /\ onboarded \subseteq Roles
    /\ worker \in Request \cup {Idle}

\* "A role without its row would be invisible to the admin, a row without its role would
\* promise access that does not exist" (dbusers/utils.py:117): whatever requests failed or
\* were cut off, a row names a personal role, no role has two rows, and the role may log
\* in and holds the row's rank exactly when the row says it is enabled.
RowsMatchCatalog ==
    \A u \in Users : HasAccount(u) =>
        LET a == account[u] IN
        /\ role[a.role].kind = "person"
        /\ role[a.role].login = a.enabled
        /\ role[a.role].ranks = (IF a.enabled THEN {a.rank} ELSE {})
        /\ RoleNameFree(a.role, u)

\* "Show the password to its owner and to nobody else" (dbusers/requirements.md:56): once
\* an account is claimed, the password that opens its role is the one shown to the user
\* the row belongs to, however often names were reused, users deleted and logins cut off.
ClaimedByItsOwner ==
    \A u \in Users : HasAccount(u) /\ ~account[u].awaiting => role[account[u].role].password = u

\* "The reverse of create_db_user's check" (gf_0003:79-80): people, tenants and services share
\* one namespace, and no sequence of calls turns one kind into another. The role of a tenant
\* or a service is touched by create_tenant and delete_tenant of its own name only, which set
\* its password or drop it, and a person's role never goes with a tenant.
ForeignRolesKept ==
    [][\A r \in Roles :
        /\ role[r].kind \in {"tenant", "service"} =>
              \/ role'[r] = role[r]
              \/ role'[r] = [role[r] EXCEPT !.password = Onboarding] /\ r \in onboarded'
              \/ role'[r] = AbsentRole /\ r \in onboarded \ onboarded'
        /\ role[r].kind = "person" /\ role'[r].kind # "person" =>
              role'[r] = AbsentRole /\ UNCHANGED onboarded]_vars

\* Reconciling on login is complete: when sync has run without a failure, the catalog
\* gives an account's role exactly the rank its user is entitled to and no login without
\* one, although sync leaves the catalog alone whenever the row looks right.
SyncReconciles ==
    [][\A u \in Users :
        worker.at = "sync" /\ worker.user = u /\ Sync(u) /\ HasAccount(u) =>
            LET rank == Entitled(user[u]) IN
            IF rank = "none" THEN ~role'[account[u].role].login
            ELSE /\ role'[account[u].role].login
                 /\ role'[account[u].role].ranks = {rank}]_vars

\* Accounts keep what Access promises ("Derive the rank", "Reconcile that rank on every
\* login", "Issue the credential once", dbusers/requirements.md:49-58), although rows name
\* roles that others bore before, or would bear after a rename, and a login is several
\* transactions of which any may fail: no request changes another person's access, a login
\* only the rank of the one who signs in, and a password appears at the end of a login of
\* the one it is for.
AccessIsPersonal == Promised!Spec

\* A login that leaves someone without a rank leaves them without database access:
\* "Someone who has lost every role is disabled" (dbusers/utils.py:233).
RanklessLoginLocksOut ==
    [][\A u \in Users :
        worker.at = "issue" /\ worker.user = u /\ worker' = Idle
        /\ HasAccount(u) /\ Entitled(user[u]) = "none" =>
            ~role'[account[u].role].login]_vars

\* "Disable, rather than drop, when someone is offboarded through the identity provider"
\* (dbusers/requirements.md:62): whom the provider turned away cannot connect.
OffboardedCannotConnect ==
    \A u \in Users : worker.at = "refused" /\ worker.user = u /\ HasAccount(u) =>
        ~role[account[u].role].login

\* "Enrolling therefore creates a role with no password, which under scram-sha-256 cannot
\* connect at all until it is claimed" (dbusers/requirements.md:57).
UnclaimedHasNoPassword ==
    \A u \in Users : HasAccount(u) /\ account[u].awaiting => role[account[u].role].password = NoOne

=============================================================================
