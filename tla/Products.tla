------------------------------ MODULE Products ------------------------------
(***************************************************************************)
(* The product catalogue of src/modules/products: the use cases of the two *)
(* controllers as concurrent requests on the products of one SKU, with the *)
(* cached repositories under them.  A step is an await on Postgres or      *)
(* Redis.  The shared state is                                             *)
(*                                                                         *)
(*   table    the rows, by id; a product is named for the request that     *)
(*            creates it, its info for the request that wrote it           *)
(*   byId     the cache entries by id, which the command repository and    *)
(*            the query repository both fill                               *)
(*   bySku    the cache entry of the SKU: of what it holds existsBySKU      *)
(*            looks at the status                                          *)
(*   version  the counter in the keys of the cached lists                  *)
(*   pages    a cached list under each version, as the set of the writes   *)
(*            it shows                                                     *)
(*   missed   history: cache entries that are old and that no deletion     *)
(*            still to come will remove                                    *)
(***************************************************************************)
EXTENDS Product, Naturals, FiniteSets

CONSTANTS
    Request,      \* the requests that may be made
    Prior,        \* the product that may be there before
    None,         \* no row, no cache entry
    Ops,          \* the use cases the requests may call
    MaxRestarts,  \* bound: how often the process may restart
    RedisFaults   \* may Redis calls fail?

UseCase == {"create", "update", "delete", "detail", "list"}

Id == Request \cup {Prior}

ASSUME ProductsAssumption ==
    /\ IsFiniteSet(Request)
    /\ Id \subseteq ProductInfo
    /\ "sku" \notin Id
    /\ Prior \notin Request
    /\ None \notin ProductRecord
    /\ \A s \in SUBSET Request : s # None
    /\ Ops \subseteq UseCase
    /\ MaxRestarts \in Nat
    /\ RedisFaults \in BOOLEAN

VARIABLES table, byId, bySku, version, pages, missed, pc, req, held, view, since,
          wrote, announced, restarts

catalog == <<table, byId, bySku, version, pages, missed>>
history == <<wrote, announced, restarts>>
vars == <<table, byId, bySku, version, pages, missed, pc, req, held, view, since,
          wrote, announced, restarts>>

(* The cache entries of products: by id, and the one of the SKU *)
Entry == Id \cup {"sku"}

Version == 0 .. Cardinality(Request)

Copy == ProductRecord \cup {None}

Page == {None} \cup SUBSET Request

Place == {"idle", "get", "read", "fill", "act", "fetch", "remove", "delId", "delSku",
          "incr", "version", "page", "query", "store", "answer", "done", "failed"}

Answered == {"done", "failed"}

Command == [op : UseCase, id : Id]

ProductsTypeOK ==
    /\ table \in [Id -> Copy]
    /\ byId \in [Id -> Copy]
    /\ bySku \in ProductStatus \cup {None}
    /\ version \in Version
    /\ pages \in [Version -> Page]
    /\ missed \subseteq Entry
    /\ pc \in [Request -> Place]
    /\ req \in [Request -> Command]
    /\ held \in [Request -> Copy]
    /\ view \in [Request -> [at : Version, shows : SUBSET Request]]
    /\ since \in [Request -> SUBSET Request]
    /\ wrote \subseteq Request
    /\ announced \subseteq wrote
    /\ restarts \in 0 .. MaxRestarts

NoView == [at |-> 0, shows |-> {}]

(* One product may be there, for sale or deleted *)
InitialTables ==
    {[i \in Id |-> IF i = Prior THEN p ELSE None] :
        p \in {None, CreateProduct(Prior), DeleteProduct(CreateProduct(Prior))}}

Init ==
    /\ table \in InitialTables
    /\ byId = [i \in Id |-> None]
    /\ bySku = None
    /\ version = 0
    /\ pages = [v \in Version |-> None]
    /\ missed = {}
    /\ pc = [r \in Request |-> "idle"]
    /\ req = [r \in Request |-> [op |-> "list", id |-> Prior]]
    /\ held = [r \in Request |-> None]
    /\ view = [r \in Request |-> NoView]
    /\ since = [r \in Request |-> {}]
    /\ wrote = {}
    /\ announced = {}
    /\ restarts = 0

-----------------------------------------------------------------------------
(* A Redis call succeeds (TRUE), or fails as CacheService lets it: the error
   is logged, a get answers a miss, a set, a del and an incr do nothing. *)
RedisUp == IF RedisFaults THEN BOOLEAN ELSE {TRUE}

Goto(r, place) == pc' = [pc EXCEPT ![r] = place]

Hold(r, p) == held' = [held EXCEPT ![r] = p]

Existing == {i \in Id : table[i] # None}

Live(p) == p # None /\ p.status # "DELETED"

(* An entry shows what no row shows any more *)
Old(e) ==
    IF e = "sku" THEN bySku # None /\ \A i \in Existing : table[i].status # bySku
    ELSE byId[e] \notin {None, table[e]}

(* The entries that a request has yet to delete *)
ToDelete(r) ==
    CASE pc[r] = "delId" -> {req[r].id, "sku"}
      [] pc[r] = "delSku" -> {"sku"}
      [] OTHER -> {}

(* Products are found by the ids that clients were given; a create brings
   none and gets one of its own. *)
Start(r) ==
    /\ pc[r] = "idle"
    /\ \E op \in Ops : \E id \in CASE op = "create" -> {r}
                                   [] op = "list" -> {Prior}
                                   [] OTHER -> Existing :
         /\ req' = [req EXCEPT ![r] = [op |-> op, id |-> id]]
         /\ since' = IF op = "list" THEN [since EXCEPT ![r] = announced] ELSE since
         /\ Goto(r, IF op = "list" THEN "version" ELSE "get")
    /\ UNCHANGED <<catalog, held, view, history>>

-----------------------------------------------------------------------------
(* cache.wrap around a single product: findBySKU for create, findById for
   update and delete, getProductDetailById for detail *)

(* What a hit leads to.  The price is a string once it has been through the
   cache: the command repository's mapper makes a number of it again, the
   query repository calls toNumber on it and throws. *)
AfterHit(op) == IF op = "detail" THEN "failed" ELSE "act"

CacheGet(r) ==
    /\ pc[r] = "get"
    /\ \E up \in RedisUp :
         IF req[r].op = "create"
         THEN LET hit == up /\ bySku # None
              IN  /\ Goto(r, CASE ~ hit -> "read"
                               [] bySku = "DELETED" -> "act"
                               [] OTHER -> "failed")
                  /\ UNCHANGED held
         ELSE LET copy == IF up THEN byId[req[r].id] ELSE None
              IN  /\ Goto(r, IF copy = None THEN "read" ELSE AfterHit(req[r].op))
                  /\ Hold(r, IF req[r].op = "detail" THEN None ELSE copy)
    /\ UNCHANGED <<catalog, req, view, since, history>>

(* What a query finds: findUnique by SKU takes any row that has it, for
   several may once they are deleted; the query repository passes over a
   deleted product. *)
Found(r) ==
    CASE req[r].op = "create" -> IF Existing = {} THEN {None} ELSE {table[i] : i \in Existing}
      [] req[r].op = "detail" -> {IF Live(table[req[r].id]) THEN table[req[r].id] ELSE None}
      [] OTHER -> {table[req[r].id]}

(* Mutant of AfterMiss: a missing product is looked up until it is there *)
AwaitProduct(op) == IF op = "create" THEN "act" ELSE "get"

(* A missing product is not cached *)
AfterMiss(op) == IF op = "create" THEN "act" ELSE "failed"

ReadRow(r) ==
    /\ pc[r] = "read"
    /\ \E p \in Found(r) :
         /\ Hold(r, p)
         /\ Goto(r, IF p = None THEN AfterMiss(req[r].op) ELSE "fill")
    /\ UNCHANGED <<catalog, req, view, since, history>>

(* Is what a fill is about to store what an entry may show? *)
FillIsFresh(r) ==
    IF req[r].op = "create" THEN \E i \in Existing : table[i].status = held[r].status
    ELSE held[r] = table[req[r].id]

(* existsBySKU looks at the status, detail answers and forgets the product *)
AfterFill(r) ==
    CASE req[r].op = "create" -> IF Live(held[r]) THEN "failed" ELSE "act"
      [] req[r].op = "detail" -> "done"
      [] OTHER -> "act"

Fill(r) ==
    /\ pc[r] = "fill"
    /\ \E up \in RedisUp :
         /\ IF req[r].op = "create"
            THEN bySku' = (IF up THEN held[r].status ELSE bySku) /\ UNCHANGED byId
            ELSE byId' = (IF up THEN [byId EXCEPT ![req[r].id] = held[r]] ELSE byId)
                 /\ UNCHANGED bySku
         /\ LET e == IF req[r].op = "create" THEN "sku" ELSE req[r].id
            IN  missed' = CASE ~ up -> missed
                            [] up /\ FillIsFresh(r) -> missed \ {e}
                            [] up /\ ~ FillIsFresh(r) -> missed \cup {e}
    /\ Goto(r, AfterFill(r))
    /\ Hold(r, IF req[r].op \in {"update", "delete"} THEN held[r] ELSE None)
    /\ UNCHANGED <<table, version, pages, req, view, since, history>>

-----------------------------------------------------------------------------
(* The use case on the aggregate it holds.  findById answers a deleted
   product, which it does cache, with nothing. *)

NotFound(r) ==
    /\ pc[r] = "act"
    /\ req[r].op # "create"
    /\ ~ (Live(held[r]) /\ (req[r].op = "update" => CanModify(held[r])))
    /\ Goto(r, "failed")
    /\ Hold(r, None)
    /\ UNCHANGED <<catalog, req, view, since, history>>

(* What the request saves: a product of its own making, or the one it holds
   with its own info, or as it was when the request asks for no change. *)
Saved(r) ==
    IF req[r].op = "create" THEN {CreateProduct(r)}
    ELSE {SetInfo(held[r], i) : i \in {r, held[r].info}}

(* Mutant of SkuFree: the index was dropped and not made again *)
NoIndex(r, p) == TRUE

(* idx_unique_sku_active: of the rows with one SKU, one has no deletedAt *)
SkuFree(r, p) ==
    p.deletedAt \/ \A i \in Existing \ {req[r].id} : table[i].deletedAt

(* Mutant of Upsert: the update branch leaves out status and deletedAt *)
UpsertInfo(r, p) ==
    /\ table' = [table EXCEPT ![req[r].id] =
                    IF @ = None \/ req[r].op = "delete" THEN p ELSE SetInfo(@, p.info)]
    /\ wrote' = wrote \cup {r}

(* The upsert that save and delete end in, of the whole row *)
Upsert(r, p) ==
    /\ table' = [table EXCEPT ![req[r].id] = p]
    /\ wrote' = wrote \cup {r}

Save(r) ==
    /\ pc[r] = "act"
    /\ req[r].op \in {"create", "update"}
    /\ req[r].op = "update" => Live(held[r]) /\ CanModify(held[r])
    /\ \E p \in Saved(r) :
         \/ SkuFree(r, p) /\ Upsert(r, p) /\ Goto(r, "delId")
         \/ ~ SkuFree(r, p) /\ Goto(r, "failed") /\ UNCHANGED <<table, wrote>>
    /\ Hold(r, None)
    /\ UNCHANGED <<byId, bySku, version, pages, missed, req, view, since, announced, restarts>>

(* PrismaProductRepository.delete reads the row again, past the cache *)
AskDelete(r) ==
    /\ pc[r] = "act"
    /\ req[r].op = "delete"
    /\ Live(held[r])
    /\ Goto(r, "fetch")
    /\ Hold(r, None)
    /\ UNCHANGED <<catalog, req, view, since, history>>

(* A product that another request has deleted meanwhile throws *)
Fetch(r) ==
    /\ pc[r] = "fetch"
    /\ LET p == table[req[r].id]
       IN  IF CanDelete(p) THEN Hold(r, p) /\ Goto(r, "remove")
           ELSE UNCHANGED held /\ Goto(r, "failed")
    /\ UNCHANGED <<catalog, req, view, since, history>>

Remove(r) ==
    /\ pc[r] = "remove"
    /\ Upsert(r, DeleteProduct(held[r]))
    /\ Goto(r, "delId")
    /\ Hold(r, None)
    /\ UNCHANGED <<byId, bySku, version, pages, missed, req, view, since, announced, restarts>>

-----------------------------------------------------------------------------
(* Before the answer the two entries are deleted, one after the other, and
   the version is raised. *)

(* An entry that is deleted is old no more; one whose deletion is lost stays *)
AfterDeletion(up, e) ==
    CASE up -> missed \ {e}
      [] ~ up /\ Old(e) -> missed \cup {e}
      [] OTHER -> missed

(* Mutant of InvalidateId: the entry of a deleted product is left to expire *)
InvalidateLive(r) ==
    /\ pc[r] = "delId"
    /\ \E up \in RedisUp :
         IF Live(table[req[r].id])
         THEN /\ byId' = IF up THEN [byId EXCEPT ![req[r].id] = None] ELSE byId
              /\ missed' = AfterDeletion(up, req[r].id)
         ELSE UNCHANGED <<byId, missed>>
    /\ Goto(r, "delSku")
    /\ UNCHANGED <<table, bySku, version, pages, req, held, view, since, history>>

InvalidateId(r) ==
    /\ pc[r] = "delId"
    /\ \E up \in RedisUp :
         /\ byId' = IF up THEN [byId EXCEPT ![req[r].id] = None] ELSE byId
         /\ missed' = AfterDeletion(up, req[r].id)
    /\ Goto(r, "delSku")
    /\ UNCHANGED <<table, bySku, version, pages, req, held, view, since, history>>

InvalidateSku(r) ==
    /\ pc[r] = "delSku"
    /\ \E up \in RedisUp :
         /\ bySku' = IF up THEN None ELSE bySku
         /\ missed' = AfterDeletion(up, "sku")
    /\ Goto(r, "incr")
    /\ UNCHANGED <<table, byId, version, pages, req, held, view, since, history>>

(* Mutant of RaiseVersion: a listener on the domain event raises it as well *)
RaiseVersionTwice(r) ==
    /\ pc[r] = "incr"
    /\ version' = version + 2
    /\ announced' = announced \cup {r}
    /\ Goto(r, "done")
    /\ UNCHANGED <<table, byId, bySku, pages, missed, req, held, view, since, wrote, restarts>>

RaiseVersion(r) ==
    /\ pc[r] = "incr"
    /\ \E up \in RedisUp :
         IF up THEN version' = version + 1 /\ announced' = announced \cup {r}
         ELSE UNCHANGED <<version, announced>>
    /\ Goto(r, "done")
    /\ UNCHANGED <<table, byId, bySku, pages, missed, req, held, view, since, wrote, restarts>>

-----------------------------------------------------------------------------
(* findAllProducts: the version is read first and the list is looked for, and
   kept, under it.  A version that cannot be read counts as 0. *)

ReadVersion(r) ==
    /\ pc[r] = "version"
    /\ \E up \in RedisUp :
         /\ view' = [view EXCEPT ![r].at = IF up THEN version ELSE 0]
         /\ since' = IF up THEN since ELSE [since EXCEPT ![r] = {}]
    /\ Goto(r, "page")
    /\ UNCHANGED <<catalog, req, held, history>>

ReadPage(r) ==
    /\ pc[r] = "page"
    /\ \E up \in RedisUp :
         LET page == IF up THEN pages[view[r].at] ELSE None
         IN  IF page = None THEN UNCHANGED view /\ Goto(r, "query")
             ELSE view' = [view EXCEPT ![r].shows = page] /\ Goto(r, "answer")
    /\ UNCHANGED <<catalog, req, held, since, history>>

QueryList(r) ==
    /\ pc[r] = "query"
    /\ view' = [view EXCEPT ![r].shows = wrote]
    /\ Goto(r, "store")
    /\ UNCHANGED <<catalog, req, held, since, history>>

(* Mutant of StorePage: the list is kept under the version of that moment *)
StoreUnderVersion(r) ==
    /\ pc[r] = "store"
    /\ pages' = [pages EXCEPT ![version] = view[r].shows]
    /\ Goto(r, "answer")
    /\ UNCHANGED <<table, byId, bySku, version, missed, req, held, view, since, history>>

StorePage(r) ==
    /\ pc[r] = "store"
    /\ \E up \in RedisUp :
         pages' = IF up THEN [pages EXCEPT ![view[r].at] = view[r].shows] ELSE pages
    /\ Goto(r, "answer")
    /\ UNCHANGED <<table, byId, bySku, version, missed, req, held, view, since, history>>

AnswerList(r) ==
    /\ pc[r] = "answer"
    /\ Goto(r, "done")
    /\ view' = [view EXCEPT ![r] = NoView]
    /\ since' = [since EXCEPT ![r] = {}]
    /\ UNCHANGED <<catalog, req, held, history>>

-----------------------------------------------------------------------------
(* Around the requests *)

ExpireProduct(i) ==
    /\ byId[i] # None
    /\ byId' = [byId EXCEPT ![i] = None]
    /\ missed' = missed \ {i}
    /\ UNCHANGED <<table, bySku, version, pages, pc, req, held, view, since, history>>

ExpireSku ==
    /\ bySku # None
    /\ bySku' = None
    /\ missed' = missed \ {"sku"}
    /\ UNCHANGED <<table, byId, version, pages, pc, req, held, view, since, history>>

ExpirePage(v) ==
    /\ pages[v] # None
    /\ pages' = [pages EXCEPT ![v] = None]
    /\ UNCHANGED <<table, byId, bySku, version, missed, pc, req, held, view, since, history>>

Expire ==
    \/ \E i \in Id : ExpireProduct(i)
    \/ ExpireSku
    \/ \E v \in Version : ExpirePage(v)

AtRest == \A r \in Request : pc[r] \in {"idle"} \cup Answered

(* The process dies with its requests; at rest it takes nothing with it *)
Restart ==
    /\ restarts < MaxRestarts
    /\ ~ AtRest
    /\ restarts' = restarts + 1
    /\ pc' = [r \in Request |->
                IF pc[r] \in {"idle"} \cup Answered THEN pc[r] ELSE "failed"]
    /\ held' = [r \in Request |-> None]
    /\ view' = [r \in Request |-> NoView]
    /\ since' = [r \in Request |-> {}]
    /\ missed' = missed \cup {e \in Entry : Old(e) /\ \E r \in Request : e \in ToDelete(r)}
    /\ UNCHANGED <<table, byId, bySku, version, pages, req, wrote, announced>>

Quiet ==
    /\ AtRest
    /\ UNCHANGED vars

RequestStep(r) ==
    \/ CacheGet(r) \/ ReadRow(r) \/ Fill(r)
    \/ NotFound(r) \/ Save(r) \/ AskDelete(r) \/ Fetch(r) \/ Remove(r)
    \/ InvalidateId(r) \/ InvalidateSku(r) \/ RaiseVersion(r)
    \/ ReadVersion(r) \/ ReadPage(r) \/ QueryList(r) \/ StorePage(r) \/ AnswerList(r)

Next ==
    \/ \E r \in Request : Start(r) \/ RequestStep(r)
    \/ Expire
    \/ Restart
    \/ Quiet

Spec == Init /\ [][Next]_vars

(* The event loop runs something that is ready.  No request goes on for ever,
   so that is enough. *)
Fairness == WF_vars(\E r \in Request : RequestStep(r))

FairSpec == Spec /\ Fairness
-----------------------------------------------------------------------------
(* Properties *)

(* One SKU is for sale once: creates that all found it free, a create beside
   the deletion of its predecessor, and an update that saves an old copy of a
   product whose SKU has been given away since, never leave two. *)
OneLiveProductPerSku ==
    \A i, j \in Id : Live(table[i]) /\ Live(table[j]) => i = j

(* A list shows every write that was answered before it was asked for,
   whatever list requests were in flight around that write and whichever of
   their pages it is served from; unless Redis lost the raise of the version
   or the reading of it. *)
ListsFresh ==
    \A r \in Request : pc[r] = "answer" => since[r] \subseteq view[r].shows

(* A cached product, and what is cached of the SKU, is old for one of four
   reasons only: the request that wrote has not come to its deletion yet, a write
   overtook the fill that stored it, Redis lost the deletion, or the process died
   before it.  The list under the current version lacks no write whose raise of
   the version Redis has carried out, though the list was queried before it. *)
OldEntriesExplained ==
    /\ \A e \in Entry : Old(e) => e \in missed \/ \E r \in Request : e \in ToDelete(r)
    /\ pages[version] # None => announced \subseteq pages[version]

(* Every request is answered, a restart being an answer of its kind: the
   requests, of which each is made once, come to rest. *)
RequestsAnswered == <>[]AtRest

(* The snapshots of single products that cache and requests have *)
Snapshots ==
    {<<i, byId[i]>> : i \in {j \in Id : byId[j] # None}}
    \cup {<<req[r].id, held[r]>> :
            r \in {q \in Request : held[q] # None /\ req[q].op # "create"}}

(* v is u after one command on it *)
IsCommand(u, v) ==
    \/ CanModify(u) /\ \E i \in ProductInfo : v = SetInfo(u, i)
    \/ CanDelete(u) /\ v = DeleteProduct(u)

Rows == INSTANCE SnapshotStore WITH
    Slot <- Id,
    Initial <- InitialTables,
    Fresh <- {CreateProduct(i) : i \in ProductInfo},
    Commands <- {c \in ProductRecord \X ProductRecord : IsCommand(c[1], c[2])},
    store <- table,
    copies <- Snapshots

(* The repository as a store of snapshots: a saved row is one command on one
   product that once was that row, an old one perhaps, but never a mixture
   and never a product that was deleted when it was loaded. *)
RowsAreCommands == Rows!Spec

-----------------------------------------------------------------------------
(* "Product is deleted and cannot be modified" (product-is-deleted.error.ts):
   broken by an update that loaded the product, from Postgres or from the
   cache, before its deletion and saves the whole row after it. *)
DeletedStaysDeleted ==
    [][\A i \in Existing : table[i].status = "DELETED" => table'[i] = table[i]]_vars
=============================================================================
