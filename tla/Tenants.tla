-------------------------------- MODULE Tenants --------------------------------
(***************************************************************************)
(* The tenants of the platform (crudman/app/tenants/) and the functions of *)
(* gf_0003 that make, change and delete them.                              *)
(*                                                                         *)
(* A tenant is a login role and the bronze schema of its name; the table   *)
(* Tenant is a cache that every page rewrites from the catalog.  crudman   *)
(* serves one request at a time.  The add, change and delete pages run in  *)
(* one transaction of Django's admin, in which each function is a          *)
(* savepoint; the list and its bulk action run in none.  Beside them the   *)
(* functions are called from psql, and people's roles come and go.         *)
(***************************************************************************)
EXTENDS Naturals, FiniteSets

CONSTANTS
    Names,       \* slugs, that is names of roles
    Displays,    \* human names
    Slug,        \* slugify_tenant_name
    NoSlug,      \* what it makes of a name without a letter or digit
    Unnamed,     \* no name but the slug: an empty row, a comment that is the slug or missing
    Caps,        \* resource limits that set_tenant_limits accepts
    Unlimited,   \* the sentinels
    Malformed,   \* limits it does not accept
    NoSchema,    \* the absence of a bronze schema
    NoRow,       \* the absence of a cache row
    Services,    \* roles of the platform's own services
    Forms,       \* what is posted to the add and change pages
    Drift        \* bound: how many tenants may be out of step with the cache at a time

Labels == Displays \cup {Unnamed}
Limits == Caps \cup {Unlimited}

ASSUME TenantsAssumption ==
    /\ Slug \in [Displays -> Names \cup {NoSlug}]
    /\ NoSlug \notin Names
    /\ NoSchema \notin Labels
    /\ Malformed \notin Limits
    /\ Services \subseteq Names
    /\ Forms \subseteq [display : Labels, limits : Limits \cup {Malformed}]
    /\ Drift \in Nat
    /\ NoRow \notin [display : Labels, limits : Limits \cup {Malformed}]

Row == [display : Labels, limits : Limits \cup {Malformed}]
Rows == [Names -> Row \cup {NoRow}]

\* What a request in progress knows. `names` are its tenants, `found` is the cache as its
\* transaction has it, `named` tells that its tenant was created or renamed, `gone` is the
\* tenant a bulk action has dropped and not forgotten yet, `touched` what others changed
\* meanwhile.
Request == [op : {"idle", "view", "create", "change", "delete", "bulk"},
            at : {"start", "called"},
            names : SUBSET Names, form : Row, found : Rows,
            named : BOOLEAN, gone : SUBSET Names, touched : SUBSET Names]

VARIABLES
    role,      \* pg_roles: none, a tenant's, a person's or a service's
    schema,    \* the comment on each bronze schema
    limits,    \* pg_roles and pg_db_role_setting
    cache,     \* tenants_tenant, as committed
    req,       \* the request being served
    lingering, \* history: schemas whose role was dropped without them
    excused    \* history: names changed outside crudman, cut off or saved with a warning since
               \* the cache was last written for them

catalog == <<role, schema, limits>>
vars == <<role, schema, limits, cache, req, lingering, excused>>

NoCache == [n \in Names |-> NoRow]

Idle == [op |-> "idle", at |-> "start", names |-> {},
         form |-> [display |-> Unnamed, limits |-> Unlimited], found |-> NoCache,
         named |-> FALSE, gone |-> {}, touched |-> {}]

Init ==
    /\ role = [n \in Names |-> IF n \in Services THEN "service" ELSE "none"]
    /\ schema = [n \in Names |-> NoSchema]
    /\ limits = [n \in Names |-> Unlimited]
    /\ cache = NoCache
    /\ req = Idle
    /\ lingering = {}
    /\ excused = {}

-----------------------------------------------------------------------------
(* The functions of the database.                                          *)

\* A mutant of MayCreate: nobody asks whose role it is.
MayCreateAny(n) == TRUE

\* create_tenant refuses a person's role, and takes any other that exists.
MayCreate(n) == role[n] # "person"

Created(roles, n) == [roles EXCEPT ![n] = IF @ = "none" THEN "tenant" ELSE @]

\* set_tenant_display_name comments on a schema that has to exist.
MayName(n) == schema[n] # NoSchema

\* A mutant of MayLimit: the form of a limit is not looked at.
MayLimitAny(n, wanted) == role[n] # "none"

\* set_tenant_limits wants a role, and limits of the right form.
MayLimit(n, wanted) == role[n] # "none" /\ wanted # Malformed

\* A mutant of Undone: the schema is left behind.
UndoneRole(n) ==
    /\ role' = [role EXCEPT ![n] = "none"]
    /\ limits' = [limits EXCEPT ![n] = Unlimited]
    /\ lingering' = lingering
    /\ UNCHANGED schema

\* delete_tenant drops what the role owns, the schema, and the role, whosever it is.
Undone(n) ==
    /\ role' = [role EXCEPT ![n] = "none"]
    /\ schema' = [schema EXCEPT ![n] = NoSchema]
    /\ limits' = [limits EXCEPT ![n] = Unlimited]
    /\ lingering' = lingering \ {n}

-----------------------------------------------------------------------------
(* Reading the catalog into the cache.                                     *)

Listed(n) == schema[n] # NoSchema /\ role[n] # "none"

\* get_tenants: every bronze schema that has a role of its name.
Catalog == [n \in Names |-> IF Listed(n) THEN [display |-> schema[n], limits |-> limits[n]]
                            ELSE NoRow]

\* get_queryset reads; what it writes with sync_tenants comes after. What others do in
\* between is not in it.
ReadCatalog(op, names) ==
    /\ req.op = "idle"
    /\ req' = [Idle EXCEPT !.op = op, !.names = names, !.found = Catalog]
    /\ UNCHANGED <<catalog, cache, lingering, excused>>

OpenList == ReadCatalog("view", {})
PostChange(n) == ReadCatalog("change", {n})
PostDelete(n) == ReadCatalog("delete", {n})
PostBulkDelete(names) == ReadCatalog("bulk", names)

\* The list, or a page of a tenant that was not found.
Synced ==
    /\ \/ req.op = "view"
       \/ req.op \in {"change", "delete"} /\ \A n \in req.names : req.found[n] = NoRow
    /\ cache' = req.found
    /\ excused' = req.touched
    /\ req' = Idle
    /\ UNCHANGED <<catalog, lingering>>

\* The worker is killed while it serves the list: rows are written one by one, and the
\* stale ones go last.
SyncCutOff ==
    /\ req.op \in {"view", "bulk"} /\ req.at = "start"
    /\ \E done \in SUBSET {n \in Names : req.found[n] # NoRow} :
          cache' = [n \in Names |-> IF n \in done THEN req.found[n] ELSE cache[n]]
    /\ excused' = excused \cup req.touched \cup {n \in Names : req.found[n] # cache'[n]}
    /\ req' = Idle
    /\ UNCHANGED <<catalog, lingering>>

-----------------------------------------------------------------------------
(* The add and change pages.                                               *)

\* A mutant of PostCreate: nobody asks whether there is one already.
PostCreateAgain(form) ==
    /\ req.op = "idle"
    /\ form.display \in Displays /\ Slug[form.display] # NoSlug
    /\ req' = [Idle EXCEPT !.op = "create", !.names = {Slug[form.display]},
                           !.form = form, !.found = cache]
    /\ UNCHANGED <<catalog, cache, lingering, excused>>

\* TenantCreationForm.clean: the slug has to be one, and new to the cache. The add page
\* does not look at the catalog.
PostCreate(form) ==
    /\ req.op = "idle"
    /\ form.display \in Displays /\ Slug[form.display] # NoSlug
    /\ cache[Slug[form.display]] = NoRow
    /\ req' = [Idle EXCEPT !.op = "create", !.names = {Slug[form.display]},
                           !.form = form, !.found = cache]
    /\ UNCHANGED <<catalog, cache, lingering, excused>>

\* _call answers False for an error of any kind. A failed creation is reported, and nothing
\* is written.
CallCreate(n) ==
    /\ req.op = "create" /\ req.at = "start" /\ n \in req.names
    /\ \/ MayCreate(n) /\ req' = [req EXCEPT !.at = "called", !.named = TRUE]
       \/ req' = Idle
    /\ UNCHANGED <<catalog, cache, lingering, excused>>

\* The form is read once the tenant was found. A rename that fails is a warning.
CallRename(n, form) ==
    /\ req.op = "change" /\ req.at = "start" /\ n \in req.names /\ req.found[n] # NoRow
    /\ \/ MayName(n) /\ req' = [req EXCEPT !.at = "called", !.form = form, !.named = TRUE]
       \/ req' = [req EXCEPT !.at = "called", !.form = form]
    /\ UNCHANGED <<catalog, cache, lingering, excused>>

\* Whether the limits can be applied; a role created by this request is one that exists.
LimitsTaken(n) == MayLimit(n, req.form.limits) \/ (req.op = "create" /\ req.form.limits # Malformed)

\* A mutant of Applied: a rename stays in the cache.
AppliedUnnamed(n, limited) ==
    /\ role' = IF req.op = "create" THEN Created(role, n) ELSE role
    /\ schema' = IF req.op = "create" THEN [schema EXCEPT ![n] = req.form.display] ELSE schema
    /\ limits' = IF limited THEN [limits EXCEPT ![n] = req.form.limits] ELSE limits
    /\ lingering' = IF req.op = "create" THEN lingering \ {n} ELSE lingering

\* What the transaction of an add or change page leaves in the catalog.
Applied(n, limited) ==
    /\ role' = IF req.op = "create" THEN Created(role, n) ELSE role
    /\ schema' = IF req.named THEN [schema EXCEPT ![n] = req.form.display] ELSE schema
    /\ limits' = IF limited THEN [limits EXCEPT ![n] = req.form.limits] ELSE limits
    /\ lingering' = IF req.op = "create" THEN lingering \ {n} ELSE lingering

\* Limits that cannot be applied are a warning too: save_model writes the cache row whatever
\* became of them and of the name, and the transaction commits. A change page has refreshed
\* the whole cache, an add page has not.
Save(n) ==
    /\ req.op \in {"create", "change"} /\ req.at = "called" /\ n \in req.names
    /\ \E limited \in BOOLEAN :
          /\ limited => LimitsTaken(n)
          /\ Applied(n, limited)
          /\ excused' = ((IF req.op = "create" THEN excused ELSE req.touched) \ {n})
                        \cup (IF req.named /\ limited THEN {} ELSE {n})
    /\ cache' = [req.found EXCEPT ![n] = req.form]
    /\ req' = Idle

\* The worker is killed: PostgreSQL rolls the page's transaction back.
RollBack ==
    /\ req.op \in {"create", "change", "delete"}
    /\ req' = Idle
    /\ UNCHANGED <<catalog, cache, lingering, excused>>

-----------------------------------------------------------------------------
(* Deleting.                                                               *)

\* The delete page: the tenant, its cache row and the refreshed cache in one transaction; if
\* the function fails, the row stays.
Delete(n) ==
    /\ req.op = "delete" /\ n \in req.names /\ req.found[n] # NoRow
    /\ \/ /\ Undone(n)
          /\ cache' = [req.found EXCEPT ![n] = NoRow]
          /\ excused' = req.touched \ {n}
       \/ /\ cache' = req.found
          /\ excused' = req.touched
          /\ UNCHANGED <<catalog, lingering>>
    /\ req' = Idle

\* The bulk action refreshes the cache, then takes the tenants one by one, and each of its
\* statements commits by itself.
BulkSync ==
    /\ req.op = "bulk" /\ req.at = "start"
    /\ cache' = req.found
    /\ excused' = req.touched
    /\ req' = [req EXCEPT !.at = "called",
                          !.names = {n \in req.names : req.found[n] # NoRow},
                          !.found = NoCache]
    /\ UNCHANGED <<catalog, lingering>>

BulkDrop(n) ==
    /\ req.op = "bulk" /\ req.at = "called" /\ req.gone = {} /\ n \in req.names
    /\ \/ /\ Undone(n)
          /\ req' = [req EXCEPT !.names = @ \ {n}, !.gone = {n}]
          /\ excused' = excused \cup {n}
       \/ /\ req' = [req EXCEPT !.names = @ \ {n}]
          /\ UNCHANGED <<catalog, lingering, excused>>
    /\ UNCHANGED cache

BulkForget(n) ==
    /\ req.op = "bulk" /\ n \in req.gone
    /\ cache' = [cache EXCEPT ![n] = NoRow]
    /\ excused' = excused \ ({n} \ req.touched)
    /\ req' = [req EXCEPT !.gone = {}]
    /\ UNCHANGED <<catalog, lingering>>

\* The last is done, or the worker is killed between two statements.
BulkEnd ==
    /\ req.op = "bulk" /\ req.at = "called"
    /\ req' = Idle
    /\ UNCHANGED <<catalog, cache, lingering, excused>>

-----------------------------------------------------------------------------
(* Others at the database: the functions from psql, and people's roles.    *)

\* The request's open transaction holds the schema it has named and the role it has made;
\* others wait for it.
Held(n) == n \in req.names /\ req.op \in {"create", "change"} /\ req.named

Outside(n) ==
    /\ excused' = excused \cup {n}
    /\ req' = IF req.op = "idle" THEN req ELSE [req EXCEPT !.touched = @ \cup {n}]
    /\ UNCHANGED cache

PsqlCreate(n, display) ==
    /\ MayCreate(n) /\ ~Held(n)
    /\ role' = Created(role, n)
    /\ schema' = [schema EXCEPT ![n] = display]
    /\ lingering' = lingering \ {n}
    /\ Outside(n)
    /\ UNCHANGED limits

PsqlRename(n, display) ==
    /\ MayName(n) /\ ~Held(n)
    /\ schema' = [schema EXCEPT ![n] = display]
    /\ Outside(n)
    /\ UNCHANGED <<role, limits, lingering>>

PsqlLimits(n, wanted) ==
    /\ MayLimit(n, wanted) /\ ~Held(n)
    /\ limits' = [limits EXCEPT ![n] = wanted]
    /\ Outside(n)
    /\ UNCHANGED <<role, schema, lingering>>

\* delete_tenant by hand.
PsqlDelete(n) == ~Held(n) /\ Undone(n) /\ Outside(n)

\* A role that was dropped by hand, its schema given away before.
RoleDropped(n) ==
    /\ role[n] \in {"tenant", "service"} /\ ~Held(n)
    /\ role' = [role EXCEPT ![n] = "none"]
    /\ limits' = [limits EXCEPT ![n] = Unlimited]
    /\ lingering' = IF schema[n] = NoSchema THEN lingering ELSE lingering \cup {n}
    /\ Outside(n)
    /\ UNCHANGED schema

\* create_db_user and drop_db_user, DbUsers' subject: a person takes a free name, whether
\* or not a bronze schema lingers under it.
PersonComes(n) ==
    /\ role[n] = "none" /\ ~Held(n)
    /\ role' = [role EXCEPT ![n] = "person"]
    /\ Outside(n)
    /\ UNCHANGED <<schema, limits, lingering>>

PersonGoes(n) ==
    /\ role[n] = "person" /\ ~Held(n)
    /\ role' = [role EXCEPT ![n] = "none"]
    /\ limits' = [limits EXCEPT ![n] = Unlimited]
    /\ Outside(n)
    /\ UNCHANGED <<schema, lingering>>

Environment ==
    \E n \in {n \in Names : Cardinality(excused \cup {n}) <= Drift} :
        \/ \E label \in Labels : PsqlCreate(n, label) \/ PsqlRename(n, label)
        \/ \E wanted \in Limits : PsqlLimits(n, wanted)
        \/ PsqlDelete(n) \/ RoleDropped(n) \/ PersonComes(n) \/ PersonGoes(n)

Crudman ==
    \/ OpenList \/ Synced \/ SyncCutOff \/ RollBack \/ BulkSync \/ BulkEnd
    \/ \E names \in SUBSET Names \ {{}} : PostBulkDelete(names)
    \/ \E form \in Forms : PostCreate(form)
    \/ \E n \in Names :
          \/ \E form \in Forms : CallRename(n, form)
          \/ PostChange(n) \/ PostDelete(n) \/ CallCreate(n) \/ Save(n)
          \/ Delete(n) \/ BulkDrop(n) \/ BulkForget(n)

Next == Crudman \/ Environment

Spec == Init /\ [][Next]_vars

-----------------------------------------------------------------------------
(* Properties.                                                             *)

\* Every variable stays in its domain (the rows and catalog columns of models.py and the
\* functions of gf_0003).
TypeOK ==
    /\ role \in [Names -> {"none", "tenant", "person", "service"}]
    /\ schema \in [Names -> Labels \cup {NoSchema}]
    /\ limits \in [Names -> Limits]
    /\ cache \in Rows
    /\ req \in Request
    /\ lingering \in SUBSET Names
    /\ excused \in SUBSET Names

\* The cache shows what the catalog holds (sync_tenants, save_model, delete_model): whatever
\* pages follow each other and wherever they are cut off, a tenant's row differs from the
\* catalog only if somebody changed the tenant at the database since, or crudman warned that
\* it could not.
CacheFollowsCatalog == \A n \in Names \ excused : cache[n] = Catalog[n]

\* A person's login role does not become a tenant (create_tenant's check), neither by a name
\* given twice nor by a schema left behind; only a schema whose own role was dropped by hand
\* may stand beside a person who took the name later.
PersonsAreNoTenants ==
    \A n \in Names : role[n] = "person" /\ schema[n] # NoSchema => n \in lingering

\* Roles and schemas come and go together (create_tenant, delete_tenant and the savepoint
\* around each call): no tenant's role without its schema, and no schema without a role but
\* the one whose role was dropped by hand.
RolesHaveSchemas ==
    \A n \in Names :
        /\ role[n] = "tenant" => schema[n] # NoSchema
        /\ schema[n] # NoSchema /\ role[n] = "none" => n \in lingering

\* The add page makes new tenants and does not take over one that exists (clean asks the
\* cache alone): a creation that commits meets a tenant only if that one was made or changed
\* at the database since the cache was written.
CreationIsNew ==
    [][\A n \in Names :
         Save(n) /\ req.op = "create" => ~Listed(n) \/ n \in excused]_vars
=============================================================================
