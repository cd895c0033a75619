----------------------------- MODULE TenantsProofs -----------------------------
(***************************************************************************)
(* Proofs about Tenants: the properties of its run for any number of names *)
(* and forms and any drift between catalog and cache.                      *)
(***************************************************************************)
EXTENDS Tenants, TLAPS

\* The disjuncts of Next, each with what it is applied to.
LEMMA NextCases ==
    ASSUME Next
    PROVE  \/ OpenList \/ Synced \/ SyncCutOff \/ RollBack \/ BulkSync \/ BulkEnd
           \/ \E names \in SUBSET Names : PostBulkDelete(names)
           \/ \E form \in Forms : PostCreate(form)
           \/ \E n \in Names :
                 \/ \E form \in Forms : CallRename(n, form)
                 \/ PostChange(n) \/ PostDelete(n) \/ CallCreate(n) \/ Save(n)
                 \/ Delete(n) \/ BulkDrop(n) \/ BulkForget(n)
           \/ \E n \in Names :
                 \/ \E label \in Labels : PsqlCreate(n, label) \/ PsqlRename(n, label)
                 \/ \E wanted \in Limits : PsqlLimits(n, wanted)
                 \/ PsqlDelete(n) \/ RoleDropped(n) \/ PersonComes(n) \/ PersonGoes(n)
BY DEF Next, Crudman, Environment

-----------------------------------------------------------------------------
(* Types.                                                                  *)

\* Forms are rows, and rows are what the catalog yields.
LEMMA FormsAreRows == \A form \in Forms : form \in Row
BY TenantsAssumption DEF Row

\* What the catalog shows of a tenant is a row of the cache.
LEMMA CatalogIsRows == TypeOK => Catalog \in Rows
BY TenantsAssumption DEF TypeOK, Catalog, Listed, Rows, Row

\* An idle worker is a request of the type, an empty cache one too.
LEMMA IdleIsRequest == Idle \in Request /\ NoCache \in Rows
BY DEF Idle, Request, NoCache, Rows, Row, Labels, Limits

\* The installation starts with every variable of its type.
LEMMA InitType == Init => TypeOK
BY TenantsAssumption, IdleIsRequest DEF Init, TypeOK, NoCache, Rows, Limits

\* What an outside change does to the request.
LEMMA OutsideType ==
    ASSUME TypeOK, NEW n \in Names, Outside(n)
    PROVE  cache' \in Rows /\ req' \in Request /\ excused' \in SUBSET Names
<1>1. cache' \in Rows
      BY DEF TypeOK, Outside
<1>2. excused' \in SUBSET Names
      BY DEF TypeOK, Outside
<1>3. req' \in Request
  <2>1. req.touched \cup {n} \in SUBSET Names
        BY DEF TypeOK, Request
  <2> QED BY <2>1 DEF TypeOK, Outside, Request
<1> QED BY <1>1, <1>2, <1>3

\* Applying a page's held calls leaves the types.
LEMMA SaveType ==
    ASSUME TypeOK, NEW n \in Names, Save(n)
    PROVE  TypeOK'
<1>1. PICK limited \in BOOLEAN :
          /\ limited => LimitsTaken(n)
          /\ Applied(n, limited)
          /\ excused' = ((IF req.op = "create" THEN excused ELSE req.touched) \ {n})
                        \cup (IF req.named /\ limited THEN {} ELSE {n})
      BY DEF Save
<1>2. req.form \in Row /\ req.found \in Rows /\ req.touched \in SUBSET Names
      BY DEF TypeOK, Request
<1>3. req.form.display \in Labels /\ req.form.limits \in Limits \cup {Malformed}
      BY <1>2 DEF Row
<1>4. limited => req.form.limits \in Limits
      BY <1>1, <1>3 DEF LimitsTaken, MayLimit
<1>5. role' \in [Names -> {"none", "tenant", "person", "service"}]
      BY <1>1 DEF TypeOK, Applied, Created
<1>6. schema' \in [Names -> Labels \cup {NoSchema}]
      BY <1>1, <1>3 DEF TypeOK, Applied
<1>7. limits' \in [Names -> Limits]
      BY <1>1, <1>4 DEF TypeOK, Applied
<1>8. lingering' \in SUBSET Names /\ excused' \in SUBSET Names
      BY <1>1, <1>2 DEF TypeOK, Applied
<1>9. cache' \in Rows
      BY <1>2 DEF Save, Rows
<1>10. req' \in Request
      BY IdleIsRequest DEF Save
<1> QED BY <1>5, <1>6, <1>7, <1>8, <1>9, <1>10 DEF TypeOK

\* Every step keeps the types.
LEMMA TypeStep == TypeOK /\ [Next]_vars => TypeOK'
<1> SUFFICES ASSUME TypeOK, [Next]_vars PROVE TypeOK'
    OBVIOUS
<1>1. CASE UNCHANGED vars
      BY <1>1 DEF vars, catalog, TypeOK
<1>2. ASSUME NEW names \in SUBSET Names,
             OpenList \/ PostBulkDelete(names)
      PROVE  TypeOK'
  <2>1. PICK op \in {"view", "bulk"}, asked \in SUBSET Names : ReadCatalog(op, asked)
        BY <1>2 DEF OpenList, PostBulkDelete
  <2>2. req' \in Request
        BY <2>1, CatalogIsRows, IdleIsRequest DEF ReadCatalog, Request
  <2> QED BY <2>1, <2>2 DEF ReadCatalog, TypeOK, catalog
<1>3. CASE Synced
      BY <1>3, IdleIsRequest DEF Synced, TypeOK, Request, catalog
<1>4. CASE SyncCutOff
      BY <1>4, IdleIsRequest DEF SyncCutOff, TypeOK, Request, catalog, Rows
<1>5. CASE RollBack \/ BulkEnd
      BY <1>5, IdleIsRequest DEF RollBack, BulkEnd, TypeOK, catalog
<1>6. CASE BulkSync
      BY <1>6, IdleIsRequest DEF BulkSync, TypeOK, Request, catalog
<1>7. ASSUME NEW form \in Forms, PostCreate(form) PROVE TypeOK'
  <2>1. form \in Row /\ Slug[form.display] \in Names
        BY <1>7, FormsAreRows, TenantsAssumption DEF PostCreate
  <2> QED BY <1>7, <2>1, IdleIsRequest DEF PostCreate, TypeOK, Request, catalog, Idle
<1>8. ASSUME NEW n \in Names, NEW form \in Forms, CallRename(n, form) PROVE TypeOK'
      BY <1>8, FormsAreRows DEF CallRename, TypeOK, Request, catalog
<1>9. ASSUME NEW n \in Names, PostChange(n) \/ PostDelete(n) PROVE TypeOK'
  <2>1. PICK op \in {"change", "delete"} : ReadCatalog(op, {n})
        BY <1>9 DEF PostChange, PostDelete
  <2>2. req' \in Request
        BY <2>1, CatalogIsRows, IdleIsRequest DEF ReadCatalog, Request
  <2> QED BY <2>1, <2>2 DEF ReadCatalog, TypeOK, catalog
<1>10. ASSUME NEW n \in Names, CallCreate(n) PROVE TypeOK'
      BY <1>10, IdleIsRequest DEF CallCreate, TypeOK, Request, catalog
<1>11. ASSUME NEW n \in Names, Save(n) PROVE TypeOK'
      BY <1>11, SaveType
<1>12. ASSUME NEW n \in Names, Delete(n) PROVE TypeOK'
  <2>1. req.found \in Rows /\ req.touched \in SUBSET Names
        BY DEF TypeOK, Request
  <2>2. cache' \in Rows /\ req' \in Request /\ excused' \in SUBSET Names
        BY <1>12, <2>1, IdleIsRequest DEF Delete, Rows
  <2>3. CASE Undone(n)
        BY <2>2, <2>3 DEF Undone, TypeOK, Limits
  <2>4. CASE UNCHANGED <<catalog, lingering>>
        BY <2>2, <2>4 DEF catalog, TypeOK
  <2> QED BY <1>12, <2>3, <2>4 DEF Delete
<1>13. ASSUME NEW n \in Names, BulkDrop(n) PROVE TypeOK'
  <2>1. req' \in Request /\ excused' \in SUBSET Names /\ cache' = cache
    <3>1. excused' \in SUBSET Names /\ cache' = cache
          BY <1>13 DEF BulkDrop, TypeOK, Request
    <3>2. \/ req' = [req EXCEPT !.names = @ \ {n}, !.gone = {n}]
          \/ req' = [req EXCEPT !.names = @ \ {n}]
          BY <1>13 DEF BulkDrop
    <3>3. req.names \ {n} \in SUBSET Names /\ {n} \in SUBSET Names
          BY DEF TypeOK, Request
    <3> QED BY <3>1, <3>2, <3>3 DEF TypeOK, Request
  <2>2. CASE Undone(n)
        BY <2>1, <2>2 DEF Undone, TypeOK, Limits
  <2>3. CASE UNCHANGED <<catalog, lingering>>
        BY <2>1, <2>3 DEF catalog, TypeOK
  <2> QED BY <1>13, <2>2, <2>3 DEF BulkDrop
<1>14. ASSUME NEW n \in Names, BulkForget(n) PROVE TypeOK'
      BY <1>14 DEF BulkForget, TypeOK, Request, catalog, Rows
<1>15. ASSUME NEW n \in Names, NEW label \in Labels,
              PsqlCreate(n, label) \/ PsqlRename(n, label)
       PROVE  TypeOK'
  <2>1. Outside(n)
        BY <1>15 DEF PsqlCreate, PsqlRename
  <2>2. schema' \in [Names -> Labels \cup {NoSchema}]
        BY <1>15 DEF PsqlCreate, PsqlRename, TypeOK
  <2>3. role' \in [Names -> {"none", "tenant", "person", "service"}]
        BY <1>15 DEF PsqlCreate, PsqlRename, Created, TypeOK
  <2>4. limits' \in [Names -> Limits] /\ lingering' \in SUBSET Names
        BY <1>15 DEF PsqlCreate, PsqlRename, TypeOK
  <2> QED BY <2>1, <2>2, <2>3, <2>4, OutsideType DEF TypeOK
<1>16. ASSUME NEW n \in Names, NEW wanted \in Limits, PsqlLimits(n, wanted) PROVE TypeOK'
      BY <1>16, OutsideType DEF PsqlLimits, TypeOK
<1>17. ASSUME NEW n \in Names,
              PsqlDelete(n) \/ RoleDropped(n) \/ PersonComes(n) \/ PersonGoes(n)
       PROVE  TypeOK'
      BY <1>17, OutsideType
      DEF PsqlDelete, Undone, RoleDropped, PersonComes, PersonGoes, TypeOK, Limits
<1> QED
    BY NextCases, <1>1, <1>2, <1>3, <1>4, <1>5, <1>6, <1>7, <1>8, <1>9, <1>10, <1>11, <1>12,
       <1>13, <1>14, <1>15, <1>16, <1>17

\* Spec => []TypeOK: every variable stays in its domain, the request's record included.
THEOREM TypeCorrect == Spec => []TypeOK
BY InitType, TypeStep, PTL DEF Spec
-----------------------------------------------------------------------------
(* Roles and schemas.                                                      *)

\* A page is about one tenant. What holds between its first call and its end, because the
\* schema it named and the role it made are locked.
HeldStays ==
    /\ req.op \in {"create", "change"} => \A m, n \in req.names : m = n
    /\ \A n \in req.names :
          /\ req.op = "create" /\ req.at = "called" => req.named /\ role[n] # "person"
          /\ req.op = "change" /\ req.named => schema[n] # NoSchema

RolesInv == PersonsAreNoTenants /\ RolesHaveSchemas /\ HeldStays

\* There are no tenants at first.
LEMMA InitRoles == Init => RolesInv
BY DEF Init, RolesInv, PersonsAreNoTenants, RolesHaveSchemas, HeldStays, Idle

\* Every step keeps persons and schemas as the invariant has them.
LEMMA RolesStep == TypeOK /\ RolesInv /\ [Next]_vars => RolesInv'
<1> SUFFICES ASSUME TypeOK, RolesInv, [Next]_vars PROVE RolesInv'
    OBVIOUS
<1> USE DEF RolesInv, PersonsAreNoTenants, RolesHaveSchemas
<1>a. /\ role \in [Names -> {"none", "tenant", "person", "service"}]
      /\ schema \in [Names -> Labels \cup {NoSchema}]
      /\ req \in Request
      BY DEF TypeOK
<1>1. CASE UNCHANGED vars
      BY <1>1 DEF vars, catalog, HeldStays
<1>2. ASSUME NEW names \in SUBSET Names,
             OpenList \/ PostBulkDelete(names)
      PROVE  RolesInv'
  <2>1. UNCHANGED <<role, schema, lingering>> /\ req'.op \in {"view", "bulk"}
        BY <1>2 DEF OpenList, PostBulkDelete, ReadCatalog, catalog, Idle
  <2> QED BY <2>1 DEF HeldStays
<1>3. CASE Synced \/ SyncCutOff \/ RollBack \/ BulkEnd
      BY <1>3 DEF Synced, SyncCutOff, RollBack, BulkEnd, catalog, HeldStays, Idle
<1>4. CASE BulkSync
      BY <1>4, <1>a DEF BulkSync, catalog, HeldStays, Request
<1>5. ASSUME NEW form \in Forms, PostCreate(form) PROVE RolesInv'
      BY <1>5 DEF PostCreate, catalog, HeldStays, Idle
<1>6. ASSUME NEW n \in Names, NEW form \in Forms, CallRename(n, form) PROVE RolesInv'
  <2>1. /\ UNCHANGED <<role, schema, lingering>>
        /\ req'.op = "change" /\ req'.names = req.names
        /\ req'.named => req.named \/ schema[n] # NoSchema
        BY <1>6, <1>a DEF CallRename, MayName, catalog, Request
  <2>2. req.op = "change" /\ n \in req.names
        BY <1>6 DEF CallRename
  <2>3. \A m \in req.names : m = n /\ (req.named => schema[m] # NoSchema)
        BY <2>2 DEF HeldStays
  <2>4. \A m \in req'.names : m = n /\ (req'.named => schema'[m] # NoSchema)
        BY <2>1, <2>3
  <2>5. HeldStays'
        BY <2>1, <2>4 DEF HeldStays
  <2> QED BY <2>1, <2>5
<1>7. ASSUME NEW n \in Names, PostChange(n) \/ PostDelete(n) PROVE RolesInv'
  <2>1. UNCHANGED <<role, schema, lingering>>
        BY <1>7 DEF PostChange, PostDelete, ReadCatalog, catalog
  <2>2. req'.op \in {"change", "delete"} /\ req'.names = {n} /\ req'.named = FALSE
        BY <1>7 DEF PostChange, PostDelete, ReadCatalog, Idle
  <2> QED BY <2>1, <2>2 DEF HeldStays
<1>8. ASSUME NEW n \in Names, CallCreate(n) PROVE RolesInv'
  <2>1. UNCHANGED <<role, schema, lingering>> /\ req.op = "create" /\ n \in req.names
        BY <1>8 DEF CallCreate, catalog
  <2>2. CASE req' = Idle
        BY <2>1, <2>2 DEF HeldStays, Idle
  <2>3. CASE MayCreate(n) /\ req' = [req EXCEPT !.at = "called", !.named = TRUE]
    <3>1. req'.op = "create" /\ req'.names = req.names /\ req'.named
          BY <2>1, <2>3, <1>a DEF Request
    <3> QED BY <2>1, <2>3, <3>1 DEF HeldStays, MayCreate
  <2> QED BY <1>8, <2>2, <2>3 DEF CallCreate
<1>9. ASSUME NEW n \in Names, Save(n) PROVE RolesInv'
  <2>1. HeldStays'
        BY <1>9 DEF Save, HeldStays, Idle
  <2>2. /\ req.op \in {"create", "change"} /\ req.at = "called" /\ n \in req.names
        /\ \E limited \in BOOLEAN : Applied(n, limited)
        BY <1>9 DEF Save
  <2>3. req.form.display \in Labels /\ req.form.display # NoSchema
        BY <1>a, TenantsAssumption DEF Request, Row
  <2>4. CASE req.op = "create"
    <3>1. req.named /\ role[n] # "person"
          BY <2>2, <2>4 DEF HeldStays
    <3>2. /\ schema' = [schema EXCEPT ![n] = req.form.display]
          /\ role' = [role EXCEPT ![n] = IF @ = "none" THEN "tenant" ELSE @]
          /\ lingering' = lingering \ {n}
          BY <2>2, <2>4, <3>1 DEF Applied, Created
    <3>3. /\ schema'[n] # NoSchema /\ role'[n] \notin {"none", "person"}
          /\ \A m \in Names \ {n} : schema'[m] = schema[m] /\ role'[m] = role[m]
          BY <1>a, <2>3, <3>1, <3>2
    <3> QED BY <2>1, <3>2, <3>3
  <2>5. CASE req.op = "change"
    <3>1. role' = role /\ lingering' = lingering
          BY <2>2, <2>5 DEF Applied
    <3>2. \A m \in Names : (schema'[m] = NoSchema) <=> (schema[m] = NoSchema)
          BY <1>a, <2>2, <2>3, <2>5 DEF Applied, HeldStays
    <3> QED BY <2>1, <3>1, <3>2
  <2> QED BY <2>2, <2>4, <2>5
<1>10. ASSUME NEW n \in Names, Delete(n) PROVE RolesInv'
      BY <1>10, <1>a DEF Delete, Undone, catalog, HeldStays, Idle
<1>11. ASSUME NEW n \in Names, BulkDrop(n) PROVE RolesInv'
      BY <1>11, <1>a DEF BulkDrop, Undone, catalog, HeldStays, Request
<1>12. ASSUME NEW n \in Names, BulkForget(n) PROVE RolesInv'
      BY <1>12, <1>a DEF BulkForget, catalog, HeldStays, Request
<1>13. ASSUME NEW n \in Names, NEW label \in Labels, PsqlCreate(n, label) PROVE RolesInv'
      BY <1>13, <1>a, TenantsAssumption
      DEF PsqlCreate, MayCreate, Created, Outside, Held, HeldStays, Request
<1>14. ASSUME NEW n \in Names, NEW label \in Labels, PsqlRename(n, label) PROVE RolesInv'
      BY <1>14, <1>a, TenantsAssumption
      DEF PsqlRename, MayName, Outside, Held, HeldStays, Request
<1>15. ASSUME NEW n \in Names, NEW wanted \in Limits, PsqlLimits(n, wanted) PROVE RolesInv'
      BY <1>15, <1>a DEF PsqlLimits, Outside, HeldStays, Request
<1>16. ASSUME NEW n \in Names, PsqlDelete(n) PROVE RolesInv'
      BY <1>16, <1>a DEF PsqlDelete, Undone, Outside, Held, HeldStays, Request
<1>17. ASSUME NEW n \in Names, RoleDropped(n) PROVE RolesInv'
      BY <1>17, <1>a DEF RoleDropped, Outside, Held, HeldStays, Request
<1>18. ASSUME NEW n \in Names, PersonComes(n) \/ PersonGoes(n) PROVE RolesInv'
      BY <1>18, <1>a DEF PersonComes, PersonGoes, Outside, Held, HeldStays, Request
<1> QED
    BY NextCases, <1>1, <1>2, <1>3, <1>4, <1>5, <1>6, <1>7, <1>8, <1>9, <1>10, <1>11, <1>12,
       <1>13, <1>14, <1>15, <1>16, <1>17, <1>18

\* The invariant of roles and schemas holds in every reachable state.
LEMMA RolesInvariant == Spec => []RolesInv
BY InitRoles, RolesStep, TypeCorrect, PTL DEF Spec

\* Spec => []PersonsAreNoTenants: however many names there are, whatever runs beside a page,
\* a person's role has no bronze schema but one whose own role was dropped by hand.
THEOREM PersonsStayPersons == Spec => []PersonsAreNoTenants
BY RolesInvariant, PTL DEF RolesInv

\* Spec => []RolesHaveSchemas: roles and schemas of tenants come and go together.
THEOREM RolesAndSchemas == Spec => []RolesHaveSchemas
BY RolesInvariant, PTL DEF RolesInv

-----------------------------------------------------------------------------
(* The cache.                                                              *)

Reads == req.op \in {"view", "change", "delete"} \/ (req.op = "bulk" /\ req.at = "start")

\* What a request has read is what is there, apart from what others have touched since. An
\* add page has the cache itself and found no row in it; what a bulk action has dropped and
\* not forgotten yet is excused, and not listed.
RequestKnows ==
    /\ Reads => \A n \in Names \ req.touched : req.found[n] = Catalog[n]
    /\ req.op = "create" => req.found = cache /\ \A n \in req.names : cache[n] = NoRow
    /\ \A n \in req.gone \ req.touched : ~Listed(n)
    /\ req.gone # {} => req.op = "bulk" /\ req.at = "called"
    /\ req.gone \subseteq excused

CacheInv == CacheFollowsCatalog /\ RequestKnows

\* The empty cache shows the empty catalog.
LEMMA InitCache == Init => CacheInv
BY DEF Init, CacheInv, CacheFollowsCatalog, RequestKnows, Reads, Catalog, Listed, NoCache, Idle

\* A step that leaves a name's role, schema and limits alone leaves its row alone.
LEMMA SameRow ==
    ASSUME NEW n \in Names, role'[n] = role[n], schema'[n] = schema[n], limits'[n] = limits[n]
    PROVE  Catalog'[n] = Catalog[n] /\ (Listed(n)' <=> Listed(n))
BY DEF Catalog, Listed

\* An outside change is confined to one name.
LEMMA OutsideCache ==
    ASSUME TypeOK, CacheInv, NEW n \in Names, Outside(n),
           \A m \in Names \ {n} : /\ role'[m] = role[m] /\ schema'[m] = schema[m]
                                  /\ limits'[m] = limits[m]
    PROVE  CacheInv'
<1>1. \A m \in Names \ {n} : Catalog'[m] = Catalog[m] /\ (Listed(m)' <=> Listed(m))
      BY SameRow
<1>2. CacheFollowsCatalog'
      BY <1>1 DEF CacheInv, CacheFollowsCatalog, Outside
<1>3. CASE req.op = "idle"
      BY <1>2, <1>3 DEF Outside, CacheInv, RequestKnows, Reads
<1>4. CASE req.op # "idle"
  <2>1. /\ req'.op = req.op /\ req'.at = req.at /\ req'.found = req.found
        /\ req'.names = req.names /\ req'.gone = req.gone
        /\ req'.touched = req.touched \cup {n} /\ cache' = cache
        /\ excused' = excused \cup {n}
        BY <1>4 DEF Outside, TypeOK, Request
  <2>2. req.gone \subseteq Names
        BY DEF TypeOK, Request
  <2> QED BY <1>1, <1>2, <2>1, <2>2 DEF CacheInv, RequestKnows, Reads
<1> QED BY <1>3, <1>4

\* A request that ends knows nothing.
LEMMA IdleKnows == req' = Idle => RequestKnows'
BY DEF Idle, RequestKnows, Reads

\* A page writes the row of what it has done, and excuses what failed.
LEMMA SaveCache ==
    ASSUME TypeOK, CacheInv, NEW n \in Names, Save(n)
    PROVE  CacheInv'
<1>1. PICK limited \in BOOLEAN :
          /\ limited => LimitsTaken(n)
          /\ Applied(n, limited)
          /\ excused' = ((IF req.op = "create" THEN excused ELSE req.touched) \ {n})
                        \cup (IF req.named /\ limited THEN {} ELSE {n})
      BY DEF Save
<1>2. /\ req.op \in {"create", "change"}
      /\ cache' = [req.found EXCEPT ![n] = req.form]
      /\ req.form \in Row /\ req.found \in Rows
      BY DEF Save, TypeOK, Request
<1>3. \A m \in Names \ {n} : Catalog'[m] = Catalog[m]
  <2>1. \A m \in Names \ {n} : /\ role'[m] = role[m] /\ schema'[m] = schema[m]
                               /\ limits'[m] = limits[m]
        BY <1>1 DEF Applied, Created, TypeOK
  <2> QED BY <2>1, SameRow
<1>4. \A m \in Names \ ({n} \cup excused') : cache'[m] = Catalog'[m]
  <2>1. \A m \in Names \ {n} : cache'[m] = req.found[m]
        BY <1>2 DEF Rows
  <2>2. CASE req.op = "create"
        BY <1>1, <1>3, <2>1, <2>2 DEF CacheInv, CacheFollowsCatalog, RequestKnows
  <2>3. CASE req.op = "change"
        BY <1>1, <1>3, <2>1, <2>3 DEF CacheInv, RequestKnows, Reads
  <2> QED BY <1>2, <2>2, <2>3
<1>5. n \notin excused' => cache'[n] = Catalog'[n]
  <2> SUFFICES ASSUME n \notin excused' PROVE cache'[n] = Catalog'[n]
      OBVIOUS
  <2>1. req.named /\ limited
        BY <1>1
  <2>2. schema'[n] = req.form.display /\ limits'[n] = req.form.limits
        BY <1>1, <2>1 DEF Applied, TypeOK
  <2>3. schema'[n] # NoSchema
        BY <1>2, <2>2, TenantsAssumption DEF Row
  <2>4. role'[n] # "none"
    <3>1. CASE req.op = "create"
          BY <1>1, <3>1 DEF Applied, Created, TypeOK
    <3>2. CASE req.op = "change"
          BY <1>1, <2>1, <3>2 DEF Applied, LimitsTaken, MayLimit
    <3> QED BY <1>2, <3>1, <3>2
  <2>5. Catalog'[n] = [display |-> req.form.display, limits |-> req.form.limits]
        BY <2>2, <2>3, <2>4 DEF Catalog, Listed
  <2>6. cache'[n] = req.form
        BY <1>2 DEF Rows
  <2> QED BY <1>2, <2>5, <2>6 DEF Row
<1>6. CacheFollowsCatalog'
      BY <1>4, <1>5 DEF CacheFollowsCatalog
<1>7. RequestKnows'
      BY IdleKnows DEF Save
<1> QED BY <1>6, <1>7 DEF CacheInv

\* What delete_tenant leaves is not listed, and nothing else has changed.
LEMMA UndoneRows ==
    ASSUME TypeOK, NEW n \in Names, Undone(n)
    PROVE  /\ Catalog'[n] = NoRow /\ ~Listed(n)'
           /\ \A m \in Names \ {n} : Catalog'[m] = Catalog[m] /\ (Listed(m)' <=> Listed(m))
<1>1. schema'[n] = NoSchema
      BY DEF Undone, TypeOK
<1>2. \A m \in Names \ {n} : /\ role'[m] = role[m] /\ schema'[m] = schema[m]
                             /\ limits'[m] = limits[m]
      BY DEF Undone, TypeOK
<1> QED BY <1>1, <1>2, SameRow DEF Catalog, Listed

\* Where role, schema and limits stay, so does what the catalog shows.
LEMMA CatalogStays ==
    UNCHANGED catalog => Catalog' = Catalog /\ \A n \in Names : Listed(n)' <=> Listed(n)
BY DEF catalog, Catalog, Listed

\* Every step keeps the cache with the catalog, but for the excused.
LEMMA CacheStep == TypeOK /\ CacheInv /\ [Next]_vars => CacheInv'
<1> SUFFICES ASSUME TypeOK, CacheInv, [Next]_vars PROVE CacheInv'
    OBVIOUS
<1>a. cache \in Rows /\ req \in Request
      BY DEF TypeOK
<1>1. CASE UNCHANGED vars
      BY <1>1 DEF vars, catalog, CacheInv, CacheFollowsCatalog, RequestKnows, Reads, Catalog,
                  Listed
<1>2. ASSUME NEW names \in SUBSET Names,
             NEW op \in {"view", "change", "delete", "bulk"}, ReadCatalog(op, names)
      PROVE  CacheInv'
  <2>1. /\ req'.op = op /\ req'.found = Catalog /\ req'.gone = {}
        /\ UNCHANGED <<catalog, cache, excused>>
        BY <1>2 DEF ReadCatalog, Idle
  <2> QED BY <2>1, CatalogStays DEF CacheInv, CacheFollowsCatalog, RequestKnows
<1>3. CASE Synced
  <2>1. \A n \in Names \ req.touched : req.found[n] = Catalog[n]
        BY <1>3 DEF Synced, CacheInv, RequestKnows, Reads
  <2> QED BY <1>3, <2>1, CatalogStays, IdleKnows DEF Synced, CacheInv, CacheFollowsCatalog
<1>4. CASE SyncCutOff
  <2>1. \A n \in Names \ req.touched : req.found[n] = Catalog[n]
        BY <1>4 DEF SyncCutOff, CacheInv, RequestKnows, Reads
  <2> QED BY <1>4, <2>1, CatalogStays, IdleKnows DEF SyncCutOff, CacheInv, CacheFollowsCatalog
<1>5. CASE RollBack \/ BulkEnd
      BY <1>5, CatalogStays, IdleKnows DEF RollBack, BulkEnd, CacheInv, CacheFollowsCatalog
<1>6. CASE BulkSync
  <2>1. \A n \in Names \ req.touched : req.found[n] = Catalog[n]
        BY <1>6 DEF BulkSync, CacheInv, RequestKnows, Reads
  <2>2. /\ req'.op = "bulk" /\ req'.at = "called" /\ req'.gone = req.gone
        /\ req'.touched = req.touched
        BY <1>6, <1>a DEF BulkSync, Request
  <2>3. req.gone \subseteq Names
        BY <1>a DEF Request
  <2> QED BY <1>6, <2>1, <2>2, <2>3, CatalogStays
          DEF BulkSync, CacheInv, CacheFollowsCatalog, RequestKnows, Reads
<1>7. ASSUME NEW form \in Forms, PostCreate(form) PROVE CacheInv'
  <2>1. /\ req'.op = "create" /\ req'.found = cache /\ req'.gone = {}
        /\ \A n \in req'.names : cache[n] = NoRow
        /\ UNCHANGED <<catalog, cache, excused>>
        BY <1>7 DEF PostCreate, Idle
  <2> QED BY <2>1, CatalogStays DEF CacheInv, CacheFollowsCatalog, RequestKnows, Reads
<1>8. ASSUME NEW n \in Names, NEW form \in Forms, CallRename(n, form) PROVE CacheInv'
  <2>1. /\ req.op = "change" /\ req'.op = "change" /\ req'.found = req.found
        /\ req'.gone = req.gone /\ req'.touched = req.touched
        /\ UNCHANGED <<catalog, cache, excused>>
        BY <1>8, <1>a DEF CallRename, Request
  <2> QED BY <2>1, CatalogStays DEF CacheInv, CacheFollowsCatalog, RequestKnows, Reads
<1>9. ASSUME NEW n \in Names, CallCreate(n) PROVE CacheInv'
  <2>1. UNCHANGED <<catalog, cache, excused>> /\ req.op = "create"
        BY <1>9 DEF CallCreate
  <2>2. CacheFollowsCatalog'
        BY <2>1, CatalogStays DEF CacheInv, CacheFollowsCatalog
  <2>3. CASE req' = Idle
        BY <2>2, <2>3, IdleKnows DEF CacheInv
  <2>4. CASE req' = [req EXCEPT !.at = "called", !.named = TRUE]
    <3>1. /\ req'.op = "create" /\ req'.found = req.found /\ req'.names = req.names
          /\ req'.gone = req.gone /\ req'.touched = req.touched
          BY <1>a, <2>1, <2>4 DEF Request
    <3> QED BY <2>1, <2>2, <3>1 DEF CacheInv, RequestKnows, Reads
  <2> QED BY <1>9, <2>3, <2>4 DEF CallCreate
<1>10. ASSUME NEW n \in Names, Save(n) PROVE CacheInv'
      BY <1>10, SaveCache
<1>11. ASSUME NEW n \in Names, Delete(n) PROVE CacheInv'
  <2>1. \A m \in Names \ req.touched : req.found[m] = Catalog[m]
        BY <1>11 DEF Delete, CacheInv, RequestKnows, Reads
  <2>2. req.found \in Rows
        BY <1>a DEF Request
  <2>3. CASE Undone(n) /\ cache' = [req.found EXCEPT ![n] = NoRow]
             /\ excused' = req.touched \ {n}
    <3>1. cache'[n] = NoRow /\ \A m \in Names \ {n} : cache'[m] = req.found[m]
          BY <2>2, <2>3 DEF Rows
    <3>2. CacheFollowsCatalog'
          BY <2>1, <2>3, <3>1, UndoneRows DEF CacheFollowsCatalog
    <3> QED BY <1>11, <3>2, IdleKnows DEF Delete, CacheInv
  <2>4. CASE cache' = req.found /\ excused' = req.touched /\ UNCHANGED catalog
    <3>1. CacheFollowsCatalog'
          BY <2>1, <2>4, CatalogStays DEF CacheFollowsCatalog
    <3> QED BY <1>11, <3>1, IdleKnows DEF Delete, CacheInv
  <2> QED BY <1>11, <2>3, <2>4 DEF Delete
<1>12. ASSUME NEW n \in Names, BulkDrop(n) PROVE CacheInv'
  <2>1. /\ req.op = "bulk" /\ req.at = "called" /\ req.gone = {}
        /\ cache' = cache
        BY <1>12 DEF BulkDrop
  <2>2. CASE /\ Undone(n) /\ req' = [req EXCEPT !.names = @ \ {n}, !.gone = {n}]
             /\ excused' = excused \cup {n}
    <3>1. req'.op = "bulk" /\ req'.at = "called" /\ req'.gone = {n}
          BY <1>a, <2>1, <2>2 DEF Request
    <3>2. CacheFollowsCatalog'
          BY <2>1, <2>2, UndoneRows DEF CacheInv, CacheFollowsCatalog
    <3> QED BY <2>2, <3>1, <3>2, UndoneRows DEF CacheInv, RequestKnows, Reads
  <2>3. CASE req' = [req EXCEPT !.names = @ \ {n}] /\ UNCHANGED <<catalog, excused>>
    <3>1. req'.op = "bulk" /\ req'.at = "called" /\ req'.gone = {}
          BY <1>a, <2>1, <2>3 DEF Request
    <3> QED BY <2>1, <2>3, <3>1, CatalogStays
            DEF CacheInv, CacheFollowsCatalog, RequestKnows, Reads
  <2> QED BY <1>12, <2>2, <2>3 DEF BulkDrop
<1>13. ASSUME NEW n \in Names, BulkForget(n) PROVE CacheInv'
  <2>1. /\ req.op = "bulk" /\ n \in req.gone /\ UNCHANGED catalog
        /\ cache' = [cache EXCEPT ![n] = NoRow]
        /\ excused' = excused \ ({n} \ req.touched)
        BY <1>13 DEF BulkForget
  <2>2. n \in excused /\ (n \notin req.touched => Catalog[n] = NoRow)
        BY <2>1 DEF CacheInv, RequestKnows, Catalog
  <2>3. /\ req'.op = "bulk" /\ req'.at = req.at /\ req'.gone = {}
        /\ req'.found = req.found /\ req'.touched = req.touched
    <3>1. req' = [req EXCEPT !.gone = {}]
          BY <1>13 DEF BulkForget
    <3> QED BY <3>1, <1>a, <2>1 DEF Request
  <2>4. cache'[n] = NoRow /\ \A m \in Names \ {n} : cache'[m] = cache[m]
        BY <1>a, <2>1 DEF Rows
  <2>5. CacheFollowsCatalog'
        BY <2>1, <2>2, <2>4, CatalogStays DEF CacheInv, CacheFollowsCatalog
  <2> QED BY <2>1, <2>3, <2>5, CatalogStays DEF CacheInv, RequestKnows, Reads
<1>14. ASSUME NEW n \in Names, NEW label \in Labels,
              PsqlCreate(n, label) \/ PsqlRename(n, label)
       PROVE  CacheInv'
  <2>1. \A m \in Names \ {n} : /\ role'[m] = role[m] /\ schema'[m] = schema[m]
                               /\ limits'[m] = limits[m]
        BY <1>14 DEF PsqlCreate, PsqlRename, Created, TypeOK
  <2> QED BY <1>14, <2>1, OutsideCache DEF PsqlCreate, PsqlRename
<1>15. ASSUME NEW n \in Names, NEW wanted \in Limits, PsqlLimits(n, wanted) PROVE CacheInv'
  <2>1. \A m \in Names \ {n} : /\ role'[m] = role[m] /\ schema'[m] = schema[m]
                               /\ limits'[m] = limits[m]
        BY <1>15 DEF PsqlLimits, TypeOK
  <2> QED BY <1>15, <2>1, OutsideCache DEF PsqlLimits
<1>16. ASSUME NEW n \in Names,
              PsqlDelete(n) \/ RoleDropped(n) \/ PersonComes(n) \/ PersonGoes(n)
       PROVE  CacheInv'
  <2>1. \A m \in Names \ {n} : /\ role'[m] = role[m] /\ schema'[m] = schema[m]
                               /\ limits'[m] = limits[m]
        BY <1>16 DEF PsqlDelete, Undone, RoleDropped, PersonComes, PersonGoes, TypeOK
  <2> QED BY <1>16, <2>1, OutsideCache DEF PsqlDelete, RoleDropped, PersonComes, PersonGoes
<1>17. ASSUME NEW n \in Names, PostChange(n) \/ PostDelete(n) PROVE CacheInv'
      BY <1>17, <1>2 DEF PostChange, PostDelete
<1>18. ASSUME NEW names \in SUBSET Names, OpenList \/ PostBulkDelete(names) PROVE CacheInv'
      BY <1>18, <1>2 DEF OpenList, PostBulkDelete
<1> QED
    BY NextCases, <1>1, <1>3, <1>4, <1>5, <1>6, <1>7, <1>8, <1>9, <1>10, <1>11, <1>12, <1>13,
       <1>14, <1>15, <1>16, <1>17, <1>18

\* The invariant of the cache holds in every reachable state.
LEMMA CacheInvariant == Spec => []CacheInv
BY InitCache, CacheStep, TypeCorrect, PTL DEF Spec

\* Spec => []CacheFollowsCatalog: whatever pages follow each other and wherever they are cut
\* off, a row differs from the catalog only where the tenant was changed at the database or
\* a page warned.
THEOREM CacheCorrect == Spec => []CacheFollowsCatalog
BY CacheInvariant, PTL DEF CacheInv

\* Spec => CreationIsNew: a page takes over a tenant only if it was changed at the database
\* since the cache was written. The form's question to the cache is still true when the page
\* commits, because nothing else writes the cache.
THEOREM CreationsAreNew == Spec => CreationIsNew
<1>1. TypeOK /\ CacheInv /\ [Next]_vars =>
        [\A n \in Names : Save(n) /\ req.op = "create" => ~Listed(n) \/ n \in excused]_vars
  <2> SUFFICES ASSUME TypeOK, CacheInv, NEW n \in Names, Save(n), req.op = "create",
                      Listed(n), n \notin excused
               PROVE  FALSE
      OBVIOUS
  <2>1. cache[n] = NoRow /\ cache[n] = Catalog[n]
        BY DEF Save, CacheInv, CacheFollowsCatalog, RequestKnows
  <2>2. Catalog[n] = [display |-> schema[n], limits |-> limits[n]]
        BY DEF Catalog, Listed
  <2>3. schema[n] \in Labels /\ limits[n] \in Limits
        BY DEF TypeOK, Listed
  <2> QED BY <2>1, <2>2, <2>3, TenantsAssumption
<1> QED BY <1>1, TypeCorrect, CacheInvariant, PTL DEF Spec, CreationIsNew
=============================================================================
