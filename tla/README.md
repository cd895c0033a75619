# Gefieder: a verification development

TLA+ models of the parts of Gefieder whose correctness depends on order, failure and
concurrency, TLC configurations that check them on small instances, and TLAPS proofs of what
they promise for every instance. Paths are relative to the repository; `app/` stands for
`crudman/app/`.

## 1. The system

Gefieder is a pod of containers around one PostgreSQL database. A Django application
(*crudman*) administers it: who may sign in, who has a database role of their own, which
tenants exist, and through which *dropzones* files arrive. Two more processes of the same
code base receive files over SFTP and Arrow Flight. SQLMesh computes analytics from what
arrived, Grafana shows it, nginx stands in front, and a timer on the host collects
statistics.

### Components, their state, and what makes them correct

| Component | State it keeps | Operations | Talks to | What is hard | What must hold |
|---|---|---|---|---|---|
| Database accounts (`app/dbusers`) | `DatabaseUser` rows: role name, rank, enabled, awaiting credential | `enroll`, `issue_credential`, `sync`, `reset`, `disable`, `remove`, two signal receivers | SQL functions; called by the login signal and the user admin | a login is several transactions, failures are swallowed, three stores share no key | row and role agree; a password has one owner; the rank follows the person |
| Single sign-on (`app/sso`) | Django users, their role groups and flags | `pre_social_login`, `save_user`, `apply_roles`, the user admin's `save_model` | the identity provider; database accounts | a refused login leaves before anything changes; groups are written after `save_model` | who has no role has no access |
| Database functions (`postgresql/initdb/gf_0003`) | PostgreSQL roles, memberships, tenant schemas | `create_db_user`, `delete_db_user`, `clear_db_user_password`, `drop_db_user`, `create_tenant`, `delete_tenant`, `set_tenant_limits` | called by crudman | one namespace for people, tenants and services | each function touches its own kind of role only |
| Dropzone pipeline (`app/dropzones/services.py`, `models.py`, `views.py`, `admin.py`) | `Upload` and `UploadFile` rows, the uploads volume | `process_upload`, `_clip_replaced`, admin edit and delete | called by browser, API, webhook, SFTP and Flight | files are not transactional, transactions overlap, a crash cleans nothing up | rows and files all-or-nothing; periods end where the next begins |
| Arrow Flight endpoint (`app/dropzones/flight.py`) | sessions by token, throwaway directories | `start_call`, `do_put`, `do_action`, `_sweep` | the pipeline | handler threads, abandoned calls that run on, the sweeper | only a commit stores, and what it stores is whole |
| SFTP endpoint (`app/dropzones/sftp.py`) | identities of connections, session directories, storing tasks | login, `close`, `exit`, `_finish_session` | the pipeline | transfers broken off, connections lost, tasks lost with the process | one session is one upload, only a broken one is dropped |
| Dropzone functions (`app/dropzones/registry.py`, `functions/`) | none | check, convert | called by the pipeline | – | pure conversions |
| Tenants (`app/tenants`) | `Tenant` rows, a cache of the catalog | create, rename, limit, delete, `sync_tenants` | SQL functions | several calls that swallow errors; every page view reconciles | the cache shows what exists; a person is no tenant |
| Server statistics (`serverstats`, `gf_0007`) | samples, hourly buckets, a byte cursor | collect, drain the visit log, `rollup_and_prune` | the proxy's log, PostgreSQL | cursor and insert are not one step; pruning cuts an hour in two | every visit once; history outlives the raw rows |
| Analytics (`sqlmesh`) | models run by SQLMesh | `temporal_join`, `docs_export` | the database | histories that grow late and out of order | a row for every change and for nothing else |
| Documentation app (`app/docs`) | none | pages, lineage graph | SQLMesh's export | any graph an export may name | columns follow dependencies, labels stay inside |
| Proxy (`proxy`) | configuration rendered at start | certificate chain ordering | everything behind it | – | the leaf comes first |
| PostgreSQL container (`postgresql`) | the cluster, which scripts have run | `entrypoint.sh` on every start | everything | scripts that run once beside scripts that run always | a second start changes nothing |
| crudman start-up, example app, Grafana, Grafana MCP, install scripts, quadlets | configuration | start-up commands | – | – | – |

### How they interact

- A **login** through the provider runs `pre_social_login` → `apply_roles` (each group, then
  the flags) → Django's login → the `user_logged_in` signal → `sync_on_login`: `sync`, then
  `issue_credential`. A local login enters at the signal. Every arrow, and every statement of
  `apply_roles`, is a transaction boundary.
- The **user admin** saves the user and, in a savepoint of the same transaction, enrols or
  removes the database account.
- Every change to a PostgreSQL role goes through a `SECURITY DEFINER` function that either
  performs its whole effect or raises, which rolls the caller's transaction back.
- **Uploads** reach `process_upload` from one synchronous gunicorn worker (browser, API,
  webhook), from one storing thread (SFTP) or from as many threads as there are commits
  (Flight). These processes share the database and the volume and nothing else.

### What is hard to test

`PROJECT.json` lists each hazard at the line where it bites, with the properties that would
notice it. The groups are: requests cut off between transactions; a failure swallowed while
the next step runs; a role that outlives its user; values read for one purpose and used for
another (the username as loaded and as posted, the groups before and after the save); calls
that are given up but run on; two transactions that cannot see each other; files that do not
roll back; answers that are lost, and readings that are missing.

## 2. The modules

| Module | What it models | Checked by | Proved in |
|---|---|---|---|
| `DbUsers` | users, rows and roles; logins, the user admin, the SQL functions | `MCDbUsers`, four configurations | `DbUsersProofs` |
| `Access` | what a database account promises the person it belongs to | implemented by `DbUsers` | `DbUsersProofs` |
| `Flight` | handler threads, sessions, directories, sweeper | `MCFlight`, two configurations | `FlightProofs` |
| `Uploads` | `process_upload`, clipping, crashes, the upload admin | `MCUploads`, two configurations | `UploadsProofs` |
| `Stored` | what the pipeline promises: uploads that appear in one step | implemented by `Uploads` | `UploadsProofs` |
| `Sftp` | connections, sessions, the storing thread, the dropzone admin | `MCSftp`, two configurations | `SftpProofs` |
| `Tenants` | the tenant admin, the cache, the SQL functions, psql beside it | `MCPlatform` | `TenantsProofs` |
| `VisitLog` | the proxy's log and the collector's cursor | `MCPlatform` | `VisitLogProofs` |
| `HostHistory` | host samples, `rollup_and_prune` | `MCPlatform`, `MCHostHistory` | `HostHistoryProofs` |
| `TemporalJoin` | the query of the `temporal_join` macro | `MCPlatform` | `AnalyticsProofs` |
| `Lineage` | `levels` and `chart` of the documentation pages | `MCPlatform` | `AnalyticsProofs` |

`Access` and `Stored` are abstract specifications; `DbUsers` and `Uploads` instantiate
them. `MCPlatform` extends five
modules, and none shares state with another: its variable `part` picks one at the start and
only that one moves, so the run explores each part by itself and not their product. Each of
them is a specification of its own (`Spec`, `VisitsSpec`, `HistorySpec`, `JoinSpec`,
`LineageSpec`), which is what the theorems are about. Components
that do interact share a module: people, tenants and services meet on role names in `DbUsers`
and, from the other side, in `Tenants`; the SFTP module stores by the one step that `Stored`
allows.

Operators that stand before a definition with the comment "A mutant of ..." are not part of
the model: each is the definition with a plausible bug, and TLC finds a property violated
when it takes the definition's place.

### DbUsers

| Variable | Code |
|---|---|
| `user` | `auth_user` with the three managed groups; `"new"`, `"present"` or `"deleted"`, because a primary key is never used twice |
| `account` | the `DatabaseUser` row of a user, or `NoAccount` |
| `role` | `pg_roles` and `pg_auth_members`: its kind (the `person` marker, a tenant, a service role), LOGIN, the ranks granted, and whose password opens it |
| `onboarded` | the names with a bronze schema, which is how crudman lists tenants |
| `worker` | how far the one web worker is in a login |

Passwords are abstracted to the user they were shown to, `NoOne` for SQL's NULL and
`Onboarding` for one that `create_tenant` has set.
`RoleNameFor` stands for `role_name_for` and may map several usernames to one role name.

| Action | Code |
|---|---|
| `SsoRefused`, `RefusalAnswered` | `pre_social_login` raising `PermissionDenied` |
| `SsoLogin` | `pre_social_login` and `save_user`, up to `apply_roles`; a new user is created by a statement of its own |
| `LeaveGroup`, `JoinGroup`, `ApplyFlags` | `apply_roles`, each group and the flags in statements of their own |
| `LocalLogin` | Django's `ModelBackend` |
| `SyncOnLogin`, `IssueOnLogin` | the halves of `sync_on_login`, each with its `except` |
| `WorkerKilled` | gunicorn aborting its worker, or a restart, between two statements |
| `AdminSave`, `AdminAdd` | the user admin with the switch, and its add page |
| `UserDelete` | `disable_on_user_delete` and the cascade |
| `Reset` | `reset`, which only a shell calls, also between two statements of a login |
| `TenantCreated`, `TenantDeleted` | `create_tenant` and `delete_tenant`, from the tenant pages or from psql, also in the middle of a login |

`create_tenant` refuses a role that is a person's and no other. On a name that is taken, by a
tenant or by a service, it sets the password and onboards the name, so `TenantCreated` meets
every kind of role but a person's, and `TenantDeleted` drops whatever role bears the name.
That no person is listed as a tenant, so that no deletion meets one, is a theorem
(`OnboardedCorrect`) and no guard. The one way round it, a tenant's role dropped by hand under
a schema that lingers, is left out here and is in `Tenants` (`RoleDropped`).

`sync`, `issue_credential` and `reset` read the row before the transaction in which they
change it, and a shell may come between the two. Each writes only the columns it names
(`update_fields`), and what `reset` writes no other of them reads after its own read: run in
either order they leave the same row and role, so taking each as one step loses no outcome.

`Faults` turns failures and aborted workers on. The checks of the invariants have them on,
the three counterexamples do without.

`Access` knows no rows, role names or transactions: each person has an access, which is
whether they may log in, with which ranks, and whose password opens it; and the worker serves
one person's login at a time. An administrator gives access, takes it, or asks for a new
password, for one person, the last perhaps while that person or another signs in; a login
changes the rank of the one who signs in and ends with the password being theirs. The refinement mapping (`Promised` in `DbUsers`) reads the access from
the catalog: the row says only which role is a person's, and whether they have claimed it.

### Flight

A step is what a handler thread does between two points another thread can observe: a block
under `_lock`, the write of one attribute, one file-system operation. `thread[h].at` is that
point. `file` records each parquet file as absent, partial or whole; `sessions` and `stale`
are the table and the sessions whose `touched` is too old. `rmtree` is three kinds of step
(list, unlink each, rmdir), because a put that outlives its session may create a file in
between. The client is the one `app/dropzones/examples.py` documents, with three liberties
real clients have: several tables at once, calls given up and retried, and death at any
moment. `acked`, `confirmed`, `disturbed` and `caught` are history variables that the
properties read and no guard does, except that a client does not repeat a table it was
answered for.

### Uploads

`method` fixes who runs beside whom (`MayReceive`, `AdminMayAct`). A job is one call of
`process_upload`: received with its bounds fixed, inserted, written, scanned, clipped,
committed, or rolled back and cleaned up. `row` is what is committed. The clipping UPDATE is
two steps, as PostgreSQL runs it at READ COMMITTED: it selects the matching rows it can see,
waits for those another transaction has changed, and looks at each once more. A commit
always takes effect on the server, but its answer may be lost on the way (`doubted`): the
handler of `_store` then takes it for a failure, and `RemoveStored` removes the files of a row
that is there. `stripped` remembers the rows that lost their files so, or by a deletion that
was cut off.

`Stored` has four steps: an upload appears with all its files and closes those that are open
when it begins; an administrator corrects dates; a deletion takes the files; it takes the
row. The refinement mapping (`Readable` in `Uploads`) shows committed rows as uploads, and an
upload as whole when its row is committed and its directory still holds every file. `alone`
is whether the method stores one upload at a time: only then are all open uploads closed.

### Sftp

| Variable | Code |
|---|---|
| `zone` | the dropzone's row: method, enabled, secret |
| `conn`, `identity` | an SSH connection and its entry in `_sessions` |
| `session`, `ofConn` | `SessionSFTPServer` objects, their flag `_incomplete` and their directory file by file |
| `queue` | what `sync_to_async` has handed to its one thread: password checks and stores |
| `uploads`, `ended` | what was stored, and the order in which sessions ended |

The loop's steps and the thread's steps interleave: `Present` and `Exit` hand over, `Check`,
`StoreSession`, `FindNothing` and `StoreFails` are the thread's, `Admit`, `Reject`,
`AdmitGone` and `CleanUp` follow on the loop, perhaps after the connection has gone:
`AdmitGone` writes the identity of a connection whose entry `connection_lost` has removed. A
connection ends because its client disconnects (`Disconnect`) or in an error
(`LoseConnection`); the code does the same in both cases, and `errored`, which no guard reads,
remembers which it was until the session is settled. asyncssh is external: `FileStep` and what is built from it is what its file requests do to the
directory, `ForceClose` is its closing of a file the client left open. `Spooled` numbers the
files of one name as `_spool` does; an assumption of `MCSftp`, evaluated by TLC, says that it
keeps up to four files apart whatever their names. `Restart` orphans the directories.

### Tenants

`role`, `schema` and `limits` are the catalog, `cache` the table `Tenant`, `req` the one
request crudman serves. The add, change and delete pages commit once, so their calls are
steps that only note what they will have done and `Save` or `Delete` applies it; the list and
the bulk action commit statement by statement (`SyncCutOff`, `BulkSync`, `BulkDrop`,
`BulkForget`). Every call may fail at every place, since `_call` turns any database error
into `False`. Beside the request, the same functions are called from psql, and people's
roles come and go. `excused` are the names for which cache and catalog may differ: somebody
changed the tenant at the database since, crudman has warned, or a bulk action was cut off.
`Drift` bounds how many are excused at a time. A request reads the catalog several times;
the model reads it once, the reads before being overwritten by the last.

### VisitLog and HostHistory

`VisitLog` writes each line in two pieces, because the collector may read between them. A
run of the collector measures, reads, stores and writes the cursor in steps of its own, and
may be killed before each; writing the cursor is two steps, because the redirection empties
the file first. `HostHistory` advances a clock in ticks of the collector; a counter may rise,
stand still or start again, a row may have no reading of it (`Unread`, SQL's NULL), and either
half of a tick may be left out. `hourly` has an entry
for every hour that has a bucket; `rolled`, which nothing reads but properties, keeps every
row that was ever folded.

### TemporalJoin and Lineage

Both are algorithms on data that grows. `TemporalJoin` writes the query as the macro does
(ticks, the two lookups, the comparison with the tick before) and compares it with a
definition that steps through every moment. `Lineage` follows the memoised recursion of
`levels` and compares it with the longest chain through the graph. A call of `depth` is a
record of the memo so far, the models still to ask and those being visited; `Ask` gives every
call its memo and its answer, as a recursive function over all calls there are. `Parents` is
what the loop of `depth` runs through; `Links` and `LabelledLeft` are `chart`'s.

## 3. The runs

| Run | Bounds | Distinct states | Shows |
|---|---|---|---|
| `dbusers` | 2 users, 3 usernames, 1 role name and a service's | 392 928 | row and role always agree; a claimed password is its owner's; no kind of role turns into another; a sync without failure is complete; every step is one of `Access` |
| `flight` | 1 session, 2 threads, 1 table | 197 275 | an undisturbed upload is whole and single; a truncated session stores nothing; an ended one leaves nothing; a dead client's session is always swept |
| `uploads` | 3 uploads, 1 date, 2 corrections, 1 row stripped of its files | 1 112 096 | files and rows together; periods end where the next begins; only open ends move; every step is one of `Stored` |
| `sftp` | 2 connections, 2 sessions, 2 paths of one name | 485 512 | one finished session is one upload, in the order of their ends; of those their clients ended only one with an unfinished file is dropped; every closed one is settled |
| `platform` | five parts, see below | 642 437 | cache and catalog agree; no visit is passed over; buckets are exact and never missing; a joined row is a change; columns follow reads |
| `rankless_login` | as `dbusers`, no faults | – | finding 1 |
| `offboarded` | as `dbusers`, no faults | – | finding 2 |
| `unclaimed_password` | as `dbusers`, no faults | – | finding 3 |
| `flight_sweep` | 1 session, 2 threads, 2 tables | – | finding 4 |
| `upload_overlap` | as `uploads` | – | finding 5 |
| `closed_buckets` | as the history of `platform`, one tick more | – | finding 6 |
| `errored_session` | as `sftp` | – | finding 7 |

State counts are after symmetry reduction where the configuration names a `Symmetry`.

### Why the bounds are enough

- **dbusers.** Everything in the module concerns one role and the at most two people who can
  meet on it: one who has it and one who comes to its name by a rename or after a deletion. A
  third username lands on the service role, of which tenants may be made and dropped as of the
  other. Posts are bounded to staff with one group or none
  and to superusers, active or not; the provider names two groups, of which the higher counts
and the other is left.
  The proofs remove these bounds for every property of the run.
- **flight.** Sessions share nothing but the lock, so one session shows what several would.
  Two threads let a call that was given up run beside its retry, beside a commit and beside
  another commit. `Tokens` is also how often a client may open a session. One table is enough
  for a session that is abandoned at any point, and keeps the graph small enough for the
  liveness check; that several tables of one session, put side by side, are stored or lost
  together is what the proofs add, which hold for any number of tables.
- **uploads.** One upload to be replaced, one that replaces it, and one between, beside or
  after them. `Dates` holds one date within the range of the clock, which together with
  readings of the clock gives starts before, at and after each other. The clock needs no
  bound: it is read at most twice per upload. A constraint (`FewStripped`) keeps to behaviours
  in which at most one row is stripped of its files, and no dates are corrected beside that:
  the two are excepted from different properties and touch different variables. The proofs
  need no such bound.

- **sftp.** Two sessions may share a connection or have one each, and either may end first;
  two paths with one file name make the numbering matter, and let one file be whole and the
  other cut. One dropzone and one password are enough for every comparison of a login, since
  the settings that are saved differ in `enabled` and in the empty secret, and the dropzone
  may be deleted.
- **platform, tenants.** What a page does concerns one tenant and the cache of all others;
  two slugs, one the name of a service's role, give every pair. One form has limits the
  database refuses. The proofs remove these bounds.
- **platform, visits.** Three visits, two kills and two rotations: a line read in part, one
  stored twice, and a log that outgrows its cursor all occur.
- **platform, history.** Hours of two ticks, raw rows kept for an hour and a half and buckets
  for two hours, over three hours: rows of one hour are pruned while the next fills, a bucket
  expires, and a row without a reading stands first, between others, last in its hour and at
  the turn of two. `closed_buckets` goes a tick further, at which a bucket is written anew
  from what is left.
- **platform, join and lineage.** Two items, join keys and values at three moments, four
  versions in all, and every graph on three models with cycles: the smallest sizes at which
  an item can change what it points to and come back, and a chain can go round a model.

### Deadlock

`DbUsers`, `Uploads`, `Sftp` and `MCPlatform` turn the check off: users are deleted for good,
and jobs, connections, sessions, visits and ticks are used up, so the bounded system really
stops. `Flight` has it on.

### Fairness

`FairSpec` of `Flight` and of `Sftp` have some.

In `Flight`, handler threads are weakly fair (operating-system
threads), but `read_all` only once its call was given up: while a client is connected and
silent, a read may block for ever. Time passes, and the sweeper's thread comes round every
minute at most (`serve`). Clients are never fair: they owe the server nothing.
`AbandonedIsSwept` needs no more than that, since a call of a dead client counts as given
up.

In `Sftp`, the storing thread is weakly fair, and so is the loop as far as it works on closed
channels by itself: both take the next call that is ready. Clients, the admin and the kill of
the process are not fair, and neither are the answers to a login, on which nothing stated
here depends. `ClosedIsSettled` holds because the queue is served in order and is finite. It
says of all sessions at once that again and again none that has ended keeps its directory;
since there are finitely many sessions and each ends once, that is the same as saying it of
each, and it spares TLC a tableau per session.

## 4. What disagrees with the documents

1. **rankless_login** – `sync_on_login` disables a person without a rank and then issues them
   a credential at the old one (`app/dbusers/utils.py:155`), though "Someone who has lost
   every role is disabled" (`utils.py:233`).
2. **offboarded** – a person the provider names no role for is turned away before anything
   changes (`app/sso/adapters.py:20`); `app/dbusers/requirements.md:62` wants the role
   disabled.
3. **unclaimed_password** – renaming someone to a deleted user's name and switching access on
   in the same save takes over the disabled role with its old password
   (`app/dbusers/utils.py:115`); `requirements.md:57` says an enrolled role has none.
4. **flight_sweep** – a transfer longer than the timeout is swept while it runs
   (`app/dropzones/flight.py:134`); `app/crudman/settings.py:242` counts only the time between
   calls.
5. **upload_overlap** – two Flight uploads stored at once do not shorten each other
   (`app/dropzones/services.py:177`); `app/dropzones/requirements.md:34` says the earlier one
   is shortened.
6. **closed_buckets** – `rollup_and_prune` writes the bucket of every hour that still has a
   raw row anew and deletes raw rows by time, not by hour
   (`postgresql/initdb/gf_0007_create_server_stats.sh:211`, `:229`): from two weeks after it,
   each hour's bucket is recomputed from ever fewer rows and ends with one sample and no
   sums. The comment at `:173` calls closed buckets idempotent.
7. **errored_session** – `connection_lost` ignores its exception and `exit` asks only whether
   a file was open (`app/dropzones/sftp.py:109`, `:138`), so a session whose connection ends
   in an error after a file was closed is stored; `app/dropzones/requirements.md:116-117` says
   that it stores nothing. The docstring at `sftp.py:116` sides with the code: an upload must
   not be lost to a client that drops its socket.

Smaller things met while modelling, without a run of their own:

- `set_tenant_limits` accepts `^\d+[smh]$`, so it refuses `5min`, which is its own default
  and the example of its message and of the form's help text (`gf_0003:257`, `:286-288`;
  `app/tenants/models.py:54`).
- `app/tenants/admin.py:72` says that the cache row is written only once the database side
  has succeeded; a rename or limits that failed are a warning, and the row is written.
- `create_tenant` on the slug of a service's role gives that role a new password and lists it
  as a tenant, whose deletion drops it (`gf_0003:104-110`, `:244-247`); `DbUsers` does both.
  `create_db_user` takes a name under which a bronze schema lingers; the person is then
  listed as a tenant, and deleting it would drop the person's role.
- `sftp.py:27-28` says that a connection's identity is removed when it closes. If it closes
  while its password is checked, `validate_password` writes the entry afterwards
  (`sftp.py:105`) and nothing removes it until the process ends; no session can come of it
  (`OnlyWithCredentials`).
- `save_model` says that it enrols after the user is saved "because the rank enroll() reads
  comes from the groups this save may have changed" (`app/sso/admin.py:202-203`). Django
  writes the groups after `save_model`, so `enroll` reads the old ones; the next login's
  `sync` puts it right.
- A connection lost while COMMIT is on its way makes `_store` remove the files of an upload
  that is stored (`services.py:159-163`).
- A collector killed while it writes the cursor leaves an empty file, against which both
  comparisons fail: the log is not drained again until someone removes the file.
- The comment of `gf_0007:174` speaks of a window within the hour; the window runs over all
  rows (`:208`), so the first row of an hour counts from the last of the hour before.
- `GREATEST` passes over NULL, so a counter that could not be read (`collect.sh:10-11`)
  gives its own row and the next a delta of 0, not NULL: what passed meanwhile is in no
  bucket, although the sums are said to add up to the month's traffic (`gf_0007:136-137`).
- `app/docs/lineage.py:104` says that a model nothing reads sits in the last column; it may
  sit in any. What the label needs is the converse, which holds (`LabelsStayInside`).

## 5. What is proved

### Database accounts

`DbUsersProofs` proves, for any sets of users, names and roles, any `RoleNameFor` and with or
without faults, all six properties of the `dbusers` run:

| Theorem | Statement |
|---|---|
| `TypeCorrect` | `Spec => []TypeOK` |
| `RowsCorrect` | `Spec => []RowsMatchCatalog` |
| `ClaimsCorrect` | `Spec => []ClaimedByItsOwner` |
| `OnboardedCorrect` | `Spec => []OnboardedForeign` |
| `ForeignRolesSafe` | `Spec => ForeignRolesKept` |
| `SyncCorrect` | `Spec => SyncReconciles` |
| `AccountsImplementAccess` | `Spec => AccessIsPersonal`, that is `Spec => Promised!Spec` |

The only assumption is `DbUsersAssumption`: usernames map to role names, service roles are
roles, the markers for "nobody", "onboarding" and "no row" are neither users nor rows nor what
a row is worth, and the inputs have the right type.

**The argument.** `RowsMatchCatalog` together with `TypeOK` is inductive, and everything else
rests on it. It needs its last conjunct, that no role has two rows: otherwise disabling or
dropping one person's role would falsify another's row. In turn the first conjunct, that a
row's role is a person's, is what keeps the guards of the SQL functions true whenever the
code goes on to update the row, so that no path changes the role alone. `TypeOK` needs
enrolment to refuse a person without a rank. `ClaimedByItsOwner` follows because only
`IssueCredential` clears `awaiting`, in the same transaction that sets the password, and
because a role is handed to another row only by enrolment, which sets `awaiting` again.
`SyncReconciles` is an action property that rests on the invariant: the branch in which
`sync` does nothing is right only because the row already agrees with the catalog.
`ForeignRolesKept` rests on `OnboardedForeign`, that no name listed as a tenant has a person's
role: `delete_tenant` asks for nothing and drops whatever it is named, so it spares persons
only because `create_tenant` refuses them, `create_db_user` refuses a role that is not one,
and a listed name has a role as long as it is listed.

The refinement takes `TypeOK` and `RowsMatchCatalog`, and has a lemma for each step of
`Access`. Its centre is `OneAccessAtATime`: whatever a request does to one row and to the
role it names, or is to name, changes no access but that row's, as no other row names the
role. That is why a role may outlive its user and be taken over under a new name without
anybody else noticing. That a tenant's coming and going is no step at all (`TenantsGiveNoAccess`)
rests on the roles of rows being persons', and that the password appears together with the
rank the account has (`IssueClaimsAccess`) on the row's rank being the catalog's.

### Uploads

`UploadsProofs` proves, for any number of uploads, dates and admin corrections:

| Theorem | Statement |
|---|---|
| `TypeCorrect` | `Spec => []TypeOK` |
| `OnlyOpenEndsAreClosed` | `Spec => OnlyOpenEndsMove` |
| `FilesCorrect` | `Spec => []AllOrNothing` |
| `ValidWhileNewest` | `Spec => []ValidUntilReplaced` |
| `PipelineImplementsStored` | `Spec => StoredAtOnce`, that is `Spec => Readable!Spec` |

from `UploadsAssumption`: dates are numbers, `Null` is not one, corrections are periods, and
the markers for "no row" and "nobody" are neither rows nor uploads.

**The argument.** `Commit` clips the rows `ClipScan` selected, and does not look at them
again. That it still closes only open ends rests on the row locks: the invariant `LocksHold`
says that the rows an unfinished transaction has clipped still match its WHERE clause, that no
two transactions hold one row, that only committed uploads have rows, and that an upload
without a start selects nothing. Each part needs the others: a commit or an admin edit
disturbs a row of another transaction only if both hold it. `AllOrNothing` alone is not
inductive, because it says nothing of an upload that has written its files and not committed
yet; `FilesFollow` says for every place of the pipeline what is on the volume, and that a
commit in doubt is one that was stored.
`ValidUntilReplaced` becomes inductive with `InTurn`: where one upload is stored at a time,
its stamp is later than that of every stored one, and it has selected every row it replaces
but those an admin has edited since. Then a commit is either the first successor of a row,
which it ends, or a later one, which finds the row ended by another. `StampsPass` and
`StartsKept` say why: the clock has passed all stamps, and only an admin changes a start.
Deletions and crashes take rows and jobs away and disturb none of it. The refinement takes
`LocksHold`, `FilesFollow` and two facts of its own (`ServedAlone`, `EmptiedFirst`): a
commit is `Stored`'s one step because the files were written before it, the rows it clips
are open, and, where uploads are stored one at a time, the rows it selected are still all
the open ones. Every other step of the pipeline leaves what a reader sees alone.

### Flight

`FlightProofs` proves, for any number of clients, handler threads and tables:

| Theorem | Statement |
|---|---|
| `TypeCorrect` | `Spec => []TypeOK` |
| `TruncatedIsRefused` | `Spec => []TruncationBlocksCommit` |
| `UndisturbedIsWhole` | `Spec => []UndisturbedUploadIsWhole` |
| `NothingIsLeft` | `Spec => []EndedLeavesNoDirectory` |

from `FlightAssumption`: the markers for a free thread, no table and no session are not
calls, tables or sessions.

**The argument.** `TypeOK` needs `PutsHaveTables`: only a put reads and writes, so the table
it acknowledges is one. A commit that began late is stopped because the flag it will ask is
still set: nothing clears it but a restart, and a restart ends the call too. `LateIsRefused`
says so, and that such a call never gets past the check.

`UndisturbedUploadIsWhole` and `EndedLeavesNoDirectory` share the invariant `FineInv`. Of
every session that is still undisturbed it says:

- calls under way together are puts of different tables that are not acknowledged yet, and a
  commit is alone (`CallsApart`);
- a call that was let in finds the session in the table until a commit takes it out, and
  either that commit or the sweeper ends it, never both (`EndsOnce`);
- until it is stored, the directory has the acknowledged tables, whole, those being written,
  in part, and nothing else (`FilesAsAcked`);
- what the commit has listed is what is there, and nothing is stored before
  (`NotStoredYet`);
- whoever discards the directory has all of its files on the list, and a session that has
  ended, and that nobody is ending, has no directory (`Discards`);
- what is stored is the acknowledged tables, whole and once (`StoredWhole`).

None of these holds without the others: a listing is complete because no put writes beside
it; no put does because calls are apart and the session was popped under the lock; and the
file of an acknowledged table is whole because nobody writes it twice. Sessions share only
the lock, so the proof has one lemma for what a step of one session leaves of another's
(`SameBooks`, `SameCalls`), and one for each handler step.

### SFTP

`SftpProofs` proves, for any number of dropzones, connections, sessions and paths:

| Theorem | Statement |
|---|---|
| `TypeCorrect` | `Spec => []TypeOK` |
| `DroppedAreCut` | `Spec => OnlyCutIsDropped` |
| `CredentialsNeeded` | `Spec => []OnlyWithCredentials` |
| `StoredInOrder` | `Spec => []StoredAsEnded` |
| `UploadsAreSessions` | `Spec => UploadIsTheSession` |

from `SftpAssumption`: settings are records of the dropzone's three columns, the markers
for no secret, a deleted dropzone and nobody are none of these, `Paths` is a list of files,
and a file's name is a sequence.

**The argument.** `TypeOK` says of the queue that what waits there is still wanted and waits
once; it needs `UncheckedYet`, that a connection whose password is not being checked has no
check in the queue. `LoginsKnown` follows a password from the check to the session: a
connection that was granted, is open, or has sessions carries credentials that an enabled
dropzone has had, and the identity the loop remembers is the one the thread checked.
`BrokenIsCut` says that a session is marked broken only while its channel closes and only
with a file that was cut. `InOrder` says that every session ends once, that what waits stands
in the order of its end, and that all of it stands behind what is stored: the thread takes
the head, and a session that ends goes to the back.

`UploadsAreSessions` has two halves. `Sealed` is its invariant: in a session that waits every
file is whole, because its channel has closed and a file that was cut has marked it. The
other half is that `Listing` and `Spool` lose nothing on the way: each walks through the
files and is a recursive function whose value depends on its value before. That such a
function exists at all is shown by an induction over a set of numbers (`KeptExists`,
`NamesExist`), that a listing has every file once by another (`ListingIsAll`), and that the
numbering finds a free suffix by counting: of one suffix more than there are names taken, one
is free (`NameIsFree`). So no two files of one listing meet on a name (`SpooledApart`), and
none replaces another.

### Tenants

`TenantsProofs` proves, for any slugs, names, limits and forms and any drift, all five
properties of `Tenants`:

| Theorem | Statement |
|---|---|
| `TypeCorrect` | `Spec => []TypeOK` |
| `PersonsStayPersons` | `Spec => []PersonsAreNoTenants` |
| `RolesAndSchemas` | `Spec => []RolesHaveSchemas` |
| `CacheCorrect` | `Spec => []CacheFollowsCatalog` |
| `CreationsAreNew` | `Spec => CreationIsNew` |

from `TenantsAssumption`: the markers are no names, labels, limits or rows, services have
roles, and forms are rows.

**The argument.** A page applies at its end what its calls have done in an open transaction.
`HeldStays` says what that transaction holds: a page is about one tenant; one that it created
is not a person, one that it renamed still has its schema, because others wait for the lock.
`RequestKnows` says that what a request has read still equals the catalog except for names
others have touched since, and that those are remembered; with it, writing the cache from an
old reading leaves no tenant wrong that is not excused.

### Visit log

`VisitLogProofs` proves, for any set of visits and any number of kills and rotations:

| Theorem | Statement |
|---|---|
| `VisitsOnce` | `VisitsSpec => []VisitsStoredOnce` |
| `NothingPassed` | `VisitsSpec => []CursorPassesNothing` |

from `VisitsAssumption`: the marker for "no line" is not a visit, and an emptied cursor file
is not a number.

**The argument.** `VisitsStoredOnce` needs to know where the line of a stored visit is:
behind the cursor (`BehindCursor`), and behind what the run under way has read
(`BehindRun`). That in turn holds only as long as what was read is still in the log where it
was read (`StillThere`); after a rotation it is not, but then nothing that was stored is in
the new log at all (`RunMeasured`, `RunRead`), because a visit is logged once. So a visit
comes to be stored again only if its run did not live to write the cursor.
`CursorPassesNothing` is inductive with `RunPasses`: what stands before the place a run
starts from was passed properly, if the log was not begun again unnoticed, and `Consumed` ends
at a newline, so that a line read in part is read again.

### Host history

`HostHistoryProofs` proves, for any length of an hour, any retentions and any span of time:

| Theorem | Statement |
|---|---|
| `EveryHour` | `HistorySpec => []HistoryHasEveryHour` |
| `BucketsExact` | `HistorySpec => []BucketsExactWhileRaw` |

from `HistoryAssumption`: an hour has a tick, the retentions and the end of time are
numbers, and a counter that was not read has none.

**The argument.** Rows are pruned by age (`PrunedIsOld`), and a row is folded by the call that
prunes it, before it does. `BucketOfAllRows` says that a bucket, though it is written anew by
every call, is what all rows ever taken make of the hour as long as the rows of the hour and
the row its first delta looks back to are still there: taking older rows away changes no
lookup that still finds its row (`LagSame`), and a new row only follows. With it, what is
left of `BucketsExactWhileRaw` compares two sums: the deltas of the hour's rows, of which
there is one for each row, and the rises between neighbouring rows, of which there is one for
each row that was read, stands after one that was read, and is higher. `RowsApart`, that there are finitely many rows
and no two of one moment, makes a row's delta the rise to it (`DeltaIsRise`). That the other
deltas are zero and change no sum needs the sum of a finite set taken apart one element at a
time (`TotalWithout`, `TotalOfNonzero`); `MapThenSumSet` is a recursive function over the
subsets, which exists and is unique by induction over the size of the set (`SumsExist`,
`SumsAgree`).

### Temporal join

`AnalyticsProofs` proves, for any items, join keys and values, any span of time and any
number of versions:

| Theorem | Statement |
|---|---|
| `JoinCorrect` | `JoinSpec => []JoinIsEveryChange` |
| `PastIsSettled` | `JoinSpec => PastIsKept` |

from `JoinAssumption`: time ends at a number, and NULL is no version.

**The argument.** The query looks only at ticks, the definition at every moment, so the proof
is that nothing happens between ticks: two moments with no tick of the item after the first
and up to the second have equal columns (`QuietStretch`). The row in effect stays, because
each of its versions is a tick, and what it points to stays, because a version of that is a
tick of every item that ever pointed there. A moment with no tick is therefore no change, and
the tick before a tick has the columns of the moment before it (`SinceLastTick`). A late
version leaves the lookups of earlier moments as they are (`PastLookup`); that its new ticks
before it are no changes follows from `JoinCorrect`, before and after.

### Lineage

`AnalyticsProofs` proves, for any numbered models and any graph that an export may give:

| Theorem | Statement |
|---|---|
| `ColumnsCorrect` | `LineageSpec => []ColumnsFollowReads` |
| `LabelsInside` | `LineageSpec => []LabelsStayInside` |

from `LineageAssumption`: models are numbers, and `Source` is not a model. Both are statements
about an algorithm on the graph of a state, of which the proof needs no more than that the
export is a list of models (`OrderTyped`).

**The argument.** Every call of `depth` asks smaller ones: about a parent with one more model
being visited, or about the rest of the models with the same ones being visited. `Size`
measures this, and by induction over it every call has an answer and the recursion a solution
(`AsksExist`, `EveryCallIsAnswered`). By the same induction a call keeps what the memo has
(`CallsKeep`), gives no depth that exceeds the number of models with one (`CallsAreShallow`,
which holds on cycles too and bounds the columns), and, on a graph without cycles, gives a
model one column more than its deepest parent (`CallsAreRight`). The last needs to know that
the models being visited are the chain that leads down from the one asked about (`Stack`);
without a cycle that chain never comes round (`NothingTwice`), so the answer 0 for a model
that is being visited is never used. A depth is then the length of a longest chain by an
induction down the chain (`ChainOfDepth`, `ChainsAreNoDeeper`), and a model of the last
column is read by nobody, since its reader would stand one further.

## 6. What is only model-checked, and what is not modelled

- Liveness (`AbandonedIsSwept`, `ClosedIsSettled`) is out of the prover's reach, as is
  anything that needs `ENABLED`. These two are the only properties of the passing runs that
  no theorem states.
- Induction has to be written out: the library's theorems take the property to be shown as an
  operator, which the provers cannot instantiate. The proofs form the set of the numbers that
  have the property and use `AllNumbers`, that such a set with 0 and every successor is all of
  them, which itself follows from the well-foundedness of the numbers. No module that is
  proved about declares a RECURSIVE operator.
- That `Sftp`'s numbering keeps files apart is proved for any file names; that `MCSftp`
  assumes the same of up to four files has TLC evaluate it.
- The findings are counterexamples TLC finds; nothing is proved of them.
- **Exceptions the properties make.** `UndisturbedUploadIsWhole` and `EndedLeavesNoDirectory`
  except sessions whose calls were given up, ran out of disk or were swept while running: the
  code gives no guarantee for these. `AllOrNothing` excepts the directory of a crashed upload,
  the files of a deletion that was cut off and those of a commit in doubt, `OnlyCutIsDropped`
  sessions whose connection ended in an error (finding 7), `ValidUntilReplaced` rows whose dates an admin
  changed and uploads stored side by side by Flight. `CacheFollowsCatalog` excepts tenants
  changed at the database or warned about since the cache was written, `PersonsAreNoTenants`
  schemas whose role was dropped by hand, `VisitsStoredOnce` a run that was killed between
  insert and cursor, `CursorPassesNothing` a log begun again that has outgrown its cursor, and
  `BucketsExactWhileRaw` states the sums without what passes beside a row that was not read.
  Each is a hazard in `PROJECT.json`, which lists no property where the exception is the
  hazard.
- **Left out of `DbUsers`.** The shape of identifiers (`validate_identifier` refuses some
  names, which is a failure like any other), a backend that issues no secret, the parsing of
  the claim, two browser sessions of one admin that overlap (requests themselves cannot), and
  roles dropped by hand, after which a person may be listed as a tenant.
- **Left out of `Flight`.** Wrong credentials, which change nothing, and table names that
  normalise to the same file.
- **Left out of `Uploads`.** A change of the dropzone's method while uploads run, the hash,
  downloads, avatars and the allowed users of a browser dropzone, which only read.
- **Left out of `Sftp`.** The host key, a dropzone that is renamed, symbolic links in a
  session directory, directories as such, and what a client reads back.
- **Left out of `Tenants`.** The shape of each limit, two admins whose pages overlap, and a
  limit field left blank, which is shown empty until the cache is written again.
- **Left out of the statistics.** Reading the counters and the disk, the snapshots of queries
  and tables, each one INSERT of what changed, and the dashboards' queries.
- **Left out of the analytics.** The macro's parsing of its arguments and its errors, the
  models themselves, which are SQL run by SQLMesh, its configuration and its export.
- **Not modelled at all.** The proxy, the PostgreSQL container, crudman's settings and
  start-up, the example app, Grafana with its MCP server, and the installation scripts are
  configuration or run once, in one order, without state that another part changes. The
  dropzone functions convert a file and either return or raise, which the pipeline's model
  has as a choice.

## 7. The plan

What would add most from here:

1. The snapshots of queries and tables (`collect.sh`), whose dashboards take the difference
   of the largest and the smallest row of a window.
2. The order of a certificate chain in the proxy's `entrypoint.sh`, as an algorithm.
3. An abstract specification of the two upload endpoints (a session is one upload or none),
   implemented by `Sftp` and `Flight` as `Stored` is by `Uploads`.
