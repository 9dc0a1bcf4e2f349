--------------------------- MODULE ProductsProofs ---------------------------
(***************************************************************************)
(* Products for any number of requests, restarts and Redis faults: the     *)
(* types, that an SKU is for sale once, that lists are fresh, why a cache  *)
(* entry may be old, that the repository implements SnapshotStore, and its *)
(* atomic form where one request at a time is served; that every request   *)
(* moves on to its answer.                                                 *)
(***************************************************************************)
EXTENDS Products, FiniteSetTheorems, TLAPS

(* ProductsTypeOK but for the history of missed deletions, on which nothing else
   depends *)
Types ==
    /\ table \in [Id -> Copy]
    /\ byId \in [Id -> Copy]
    /\ bySku \in ProductStatus \cup {None}
    /\ version \in Version
    /\ pages \in [Version -> Page]
    /\ pc \in [Request -> Place]
    /\ req \in [Request -> Command]
    /\ held \in [Request -> Copy]
    /\ view \in [Request -> [at : Version, shows : SUBSET Request]]
    /\ since \in [Request -> SUBSET Request]
    /\ wrote \subseteq Request
    /\ announced \subseteq wrote
    /\ restarts \in 0 .. MaxRestarts

(* deletedAt is set with the status and never without it *)
Consistent(p) == p # None => (p.deletedAt <=> p.status = "DELETED")

RowsSound ==
    /\ \A i \in Id : Consistent(table[i]) /\ Consistent(byId[i])
    /\ \A r \in Request : Consistent(held[r])

(* Where a request is tells what it has done: before its save a create has no
   row, every other command has found one, and a write that is announced has
   been answered. *)
Placed(r) ==
    /\ req[r].op = "create" => req[r].id = r
    /\ pc[r] = "idle" => table[r] = None /\ held[r] = None
    /\ pc[r] \in {"get", "read", "fill", "act"} =>
         IF req[r].op = "create" THEN table[r] = None ELSE table[req[r].id] # None
    /\ pc[r] = "fill" => held[r] # None
    /\ pc[r] = "fetch" => req[r].op = "delete" /\ table[req[r].id] # None
    /\ pc[r] = "remove" => /\ req[r].op = "delete" /\ table[req[r].id] # None
                           /\ held[r] # None /\ CanDelete(held[r])
    /\ pc[r] \in {"delId", "delSku", "incr"} => r \in wrote
    /\ r \in announced => pc[r] = "done"

Counted == version = Cardinality(announced)

RowInv ==
    /\ RowsSound
    /\ OneLiveProductPerSku
    /\ Counted
    /\ \A r \in Request : Placed(r)

ListPlace == {"version", "page", "query", "store", "answer"}

(* The page under the current version, and a list that is about to be kept
   there, show all that is announced; what a request has been promised is in
   the page it will find, in the list another is about to put there, and in
   the list it has made itself. *)
CurrentFresh ==
    /\ \A v \in Version : v > version => pages[v] = None
    /\ pages[version] # None => announced \subseteq pages[version]
    /\ \A q \in Request :
         pc[q] = "store" /\ view[q].at = version => announced \subseteq view[q].shows

PromiseKept(r) ==
    /\ view[r].at <= version
    /\ since[r] \subseteq announced
    /\ pc[r] = "page" =>
         /\ pages[view[r].at] # None => since[r] \subseteq pages[view[r].at]
         /\ \A q \in Request :
              pc[q] = "store" /\ view[q].at = view[r].at => since[r] \subseteq view[q].shows
    /\ pc[r] \in {"store", "answer"} => since[r] \subseteq view[r].shows

ListInv ==
    /\ CurrentFresh
    /\ \A r \in Request : PromiseKept(r)

IInv == Types /\ RowInv /\ ListInv

-----------------------------------------------------------------------------
LEMMA Counting ==
    /\ Cardinality({}) = 0
    /\ Cardinality(Request) \in Nat
    /\ Version = 0 .. Cardinality(Request)
    /\ \A S \in SUBSET Request :
         /\ Cardinality(S) \in Version
         /\ \A r \in Request \ S : Cardinality(S \cup {r}) = Cardinality(S) + 1
BY ProductsAssumption, FS_EmptySet, FS_CardinalityType, FS_Subset, FS_AddElement DEF Version

LEMMA CreateTyped ==
    ASSUME NEW i \in ProductInfo
    PROVE  CreateProduct(i) \in ProductRecord /\ Consistent(CreateProduct(i))
BY DEF CreateProduct, ProductRecord, ProductStatus, Consistent

LEMMA CommandsTyped ==
    ASSUME NEW p \in ProductRecord, NEW i \in ProductInfo
    PROVE  /\ SetInfo(p, i) \in ProductRecord
           /\ Consistent(p) => Consistent(SetInfo(p, i))
           /\ DeleteProduct(p) \in ProductRecord /\ Consistent(DeleteProduct(p))
           /\ ~ Live(DeleteProduct(p))
BY ProductsAssumption
   DEF SetInfo, DeleteProduct, ProductRecord, ProductStatus, Consistent, Live

LEMMA InitInductive == Init => IInv
<1>. SUFFICES ASSUME Init PROVE IInv
  OBVIOUS
<1>1. Prior \in ProductInfo /\ Prior \in Id
  BY ProductsAssumption DEF Id
<1>2. PICK p \in {None, CreateProduct(Prior), DeleteProduct(CreateProduct(Prior))} :
         table = [i \in Id |-> IF i = Prior THEN p ELSE None]
  BY DEF Init, InitialTables
<1>3. p \in Copy /\ Consistent(p)
  <2>1. CreateProduct(Prior) \in ProductRecord
    BY <1>1, CreateTyped
  <2>. QED  BY <1>1, <2>1, CreateTyped, CommandsTyped DEF Copy, Consistent
<1>4. table \in [Id -> Copy] /\ \A i \in Id : Consistent(table[i])
  BY <1>2, <1>3 DEF Copy, Consistent
<1>5. OneLiveProductPerSku
  BY <1>2 DEF OneLiveProductPerSku, Live
<1>6. Types
  BY <1>1, <1>4, Counting, ProductsAssumption
     DEF Init, Types, Copy, Page, Place, Command, UseCase, NoView
<1>7. RowInv
  BY <1>2, <1>4, <1>5, Counting, ProductsAssumption
     DEF Init, RowInv, RowsSound, Consistent, Counted, Placed, Id
<1>8. ListInv
  BY Counting DEF Init, ListInv, CurrentFresh, PromiseKept, NoView
<1>. QED  BY <1>6, <1>7, <1>8 DEF IInv

-----------------------------------------------------------------------------
(* Two frames: a step that leaves the rows and what is written alone ... *)

LEMMA RowsStay ==
    ASSUME IInv, NEW r \in Request, NEW place \in Place,
           pc' = [pc EXCEPT ![r] = place],
           UNCHANGED <<table, req, wrote, announced, version>>,
           \A i \in Id : Consistent(byId'[i]),
           \A q \in Request : Consistent(held'[q]),
           \A q \in Request \ {r} : held'[q] = held[q],
           Placed(r)'
    PROVE  RowInv'
<1>1. \A q \in Request \ {r} : Placed(q)'
  BY DEF IInv, RowInv, Placed, Types
<1>. QED
  BY <1>1 DEF IInv, RowInv, RowsSound, OneLiveProductPerSku, Counted

(* ... and one that neither raises the version nor makes or finds a list *)
LEMMA ListsStay ==
    ASSUME IInv, UNCHANGED <<version, announced>>,
           \A v \in Version : pages'[v] \in {pages[v], None},
           \A q \in Request :
              \/ pc'[q] = pc[q] /\ view'[q] = view[q] /\ since'[q] = since[q]
              \/ /\ pc'[q] \notin {"page", "store", "answer"}
                 /\ since'[q] \subseteq announced
                 /\ view'[q].at \in 0 .. version
    PROVE  ListInv'
<1>1. version \in Version /\ \A q \in Request : view[q].at \in Version
  BY DEF IInv, Types
<1>2. CurrentFresh'
  BY <1>1 DEF IInv, ListInv, CurrentFresh
<1>3. ASSUME NEW q \in Request  PROVE PromiseKept(q)'
  BY <1>1, Counting DEF IInv, ListInv, PromiseKept, Version
<1>. QED  BY <1>2, <1>3 DEF ListInv

-----------------------------------------------------------------------------
(* Finding the product *)

LEMMA StartInductive ==
    ASSUME IInv, NEW r \in Request, Start(r)  PROVE  IInv'
<1>1. PICK op \in Ops, id \in Id :
        /\ req' = [req EXCEPT ![r] = [op |-> op, id |-> id]]
        /\ op = "create" => id = r
        /\ op \notin {"create", "list"} => table[id] # None
        /\ since' = IF op = "list" THEN [since EXCEPT ![r] = announced] ELSE since
        /\ Goto(r, IF op = "list" THEN "version" ELSE "get")
  <2>1. PICK op \in Ops : \E id \in CASE op = "create" -> {r}
                                      [] op = "list" -> {Prior}
                                      [] OTHER -> Existing :
           /\ req' = [req EXCEPT ![r] = [op |-> op, id |-> id]]
           /\ since' = IF op = "list" THEN [since EXCEPT ![r] = announced] ELSE since
           /\ Goto(r, IF op = "list" THEN "version" ELSE "get")
    BY DEF Start
  <2>2. CASE op = "create"
    BY <2>1, <2>2 DEF Id
  <2>3. CASE op = "list"
    BY <2>1, <2>3 DEF Id
  <2>4. CASE op \notin {"create", "list"}
    BY <2>1, <2>4 DEF Existing
  <2>. QED  BY <2>2, <2>3, <2>4
<1>2. UNCHANGED <<table, byId, bySku, version, pages, held, view, wrote, announced, restarts>>
      /\ pc[r] = "idle"
  BY DEF Start, catalog, history
<1>3. op \in UseCase /\ [op |-> op, id |-> id] \in Command
  BY ProductsAssumption DEF Command
<1>4. Types'
  BY <1>1, <1>2, <1>3 DEF IInv, Types, Goto, Place
<1>5. Placed(r)'
  BY <1>1, <1>2 DEF IInv, RowInv, Placed, Types, Goto
<1>6. \A q \in Request \ {r} : Placed(q)'
  BY <1>1, <1>2 DEF IInv, RowInv, Placed, Types, Goto
<1>7. RowInv'
  BY <1>1, <1>2, <1>5, <1>6 DEF IInv, RowInv, RowsSound, OneLiveProductPerSku, Counted
<1>8. ListInv'
  BY <1>1, <1>2, ListsStay DEF IInv, Types, ListInv, PromiseKept, Goto, Version
<1>. QED  BY <1>4, <1>7, <1>8 DEF IInv

LEMMA CacheGetInductive ==
    ASSUME IInv, NEW r \in Request, CacheGet(r)  PROVE  IInv'
<1>1. /\ pc[r] = "get"
      /\ UNCHANGED <<table, byId, bySku, version, pages, req, view, since,
                     wrote, announced, restarts>>
  BY DEF CacheGet, catalog, history
<1>2. PICK place \in {"read", "act", "failed"}, p \in Copy :
        /\ Goto(r, place) /\ held' = [held EXCEPT ![r] = p] /\ Consistent(p)
  <2>1. req[r].id \in Id /\ byId[req[r].id] \in Copy /\ held[r] \in Copy
        /\ Consistent(byId[req[r].id]) /\ Consistent(held[r]) /\ None \in Copy
        /\ Consistent(None) /\ held = [held EXCEPT ![r] = held[r]]
    BY DEF IInv, Types, Command, Copy, RowInv, RowsSound, Consistent
  <2>2. CASE req[r].op = "create"
    <3>1. \E place \in {"read", "act", "failed"} : Goto(r, place) /\ UNCHANGED held
      BY <2>2 DEF CacheGet
    <3>. QED  BY <2>1, <3>1
  <2>3. CASE req[r].op # "create"
    <3>1. \E copy \in {byId[req[r].id], None} :
             /\ Goto(r, IF copy = None THEN "read" ELSE AfterHit(req[r].op))
             /\ Hold(r, IF req[r].op = "detail" THEN None ELSE copy)
      BY <2>3 DEF CacheGet
    <3>. QED  BY <2>1, <3>1 DEF AfterHit, Hold
  <2>. QED  BY <2>2, <2>3
<1>3. Types'
  BY <1>1, <1>2 DEF IInv, Types, Goto, Place
<1>4. Placed(r)'
  BY <1>1, <1>2 DEF IInv, RowInv, Placed, Types, Goto
<1>5. RowInv'
  BY <1>1, <1>2, <1>4, RowsStay DEF IInv, Types, Goto, Place, RowInv, RowsSound
<1>6. ListInv'
  BY <1>1, <1>2, ListsStay
     DEF IInv, Types, ListInv, PromiseKept, Goto, Version
<1>. QED  BY <1>3, <1>5, <1>6 DEF IInv

LEMMA ReadRowInductive ==
    ASSUME IInv, NEW r \in Request, ReadRow(r)  PROVE  IInv'
<1>1. /\ pc[r] = "read"
      /\ UNCHANGED <<table, byId, bySku, version, pages, req, view, since,
                     wrote, announced, restarts>>
  BY DEF ReadRow, catalog, history
<1>2. PICK p \in Found(r) :
        /\ Hold(r, p)
        /\ Goto(r, IF p = None THEN AfterMiss(req[r].op) ELSE "fill")
  BY DEF ReadRow
<1>3. p \in Copy /\ Consistent(p)
  <2>1. req[r].id \in Id /\ \A i \in Id : table[i] \in Copy /\ Consistent(table[i])
    BY DEF IInv, Types, Command, RowInv, RowsSound
  <2>2. p = None \/ \E i \in Id : p = table[i]
    <3>1. CASE req[r].op = "create"
      BY <1>2, <3>1 DEF Found, Existing
    <3>2. CASE req[r].op = "detail"
      BY <1>2, <2>1, <3>2 DEF Found
    <3>3. CASE req[r].op \notin {"create", "detail"}
      BY <1>2, <2>1, <3>3 DEF Found
    <3>. QED  BY <3>1, <3>2, <3>3
  <2>. QED  BY <2>1, <2>2 DEF Copy, Consistent
<1>4. PICK place \in {"act", "failed", "fill"} :
        /\ Goto(r, place)
        /\ place = "fill" => p # None
        /\ place = "act" => req[r].op = "create"
  BY <1>2 DEF AfterMiss
<1>5. Types'
  BY <1>1, <1>2, <1>3, <1>4 DEF IInv, Types, Goto, Hold, Place
<1>6. Placed(r)'
  BY <1>1, <1>2, <1>4 DEF IInv, RowInv, Placed, Types, Goto, Hold
<1>7. RowInv'
  BY <1>1, <1>2, <1>3, <1>4, <1>6, RowsStay
     DEF IInv, Types, Goto, Hold, Place, RowInv, RowsSound
<1>8. ListInv'
  BY <1>1, <1>4, ListsStay DEF IInv, Types, ListInv, PromiseKept, Goto, Version
<1>. QED  BY <1>5, <1>7, <1>8 DEF IInv

LEMMA FillInductive ==
    ASSUME IInv, NEW r \in Request, Fill(r)  PROVE  IInv'
<1>1. /\ pc[r] = "fill" /\ held[r] \in ProductRecord /\ Consistent(held[r])
      /\ req[r].id \in Id
      /\ UNCHANGED <<table, version, pages, req, view, since, wrote, announced, restarts>>
  BY DEF Fill, history, IInv, RowInv, RowsSound, Placed, Types, Copy, Command
<1>2. PICK place \in {"act", "failed", "done"} : Goto(r, place)
  <2>1. AfterFill(r) \in {"act", "failed", "done"}
    BY DEF AfterFill
  <2>. QED  BY <2>1 DEF Fill
<1>3. /\ byId' \in [Id -> Copy] /\ \A i \in Id : Consistent(byId'[i])
      /\ bySku' \in ProductStatus \cup {None}
  BY <1>1 DEF Fill, IInv, Types, RowInv, RowsSound, Copy, ProductRecord
<1>4. /\ held' \in [Request -> Copy] /\ \A q \in Request : Consistent(held'[q])
      /\ \A q \in Request \ {r} : held'[q] = held[q]
  BY <1>1 DEF Fill, Hold, IInv, Types, RowInv, RowsSound, Copy, Consistent
<1>5. Types'
  BY <1>1, <1>2, <1>3, <1>4 DEF IInv, Types, Goto, Place
<1>6. Placed(r)'
  BY <1>1, <1>2 DEF IInv, RowInv, Placed, Types, Goto
<1>7. RowInv'
  BY <1>1, <1>2, <1>3, <1>4, <1>6, RowsStay DEF Goto, Place
<1>8. ListInv'
  BY <1>1, <1>2, ListsStay DEF IInv, Types, ListInv, PromiseKept, Goto, Version
<1>. QED  BY <1>5, <1>7, <1>8 DEF IInv

(* NotFound, AskDelete and Fetch change the request and nothing else *)
LEMMA DecideInductive ==
    ASSUME IInv, NEW r \in Request, NotFound(r) \/ AskDelete(r) \/ Fetch(r)
    PROVE  IInv'
<1>1. /\ pc[r] \in {"act", "fetch"}
      /\ UNCHANGED <<table, byId, bySku, version, pages, req, view, since,
                     wrote, announced, restarts>>
  BY DEF NotFound, AskDelete, Fetch, catalog, history
<1>2. PICK place \in {"failed", "fetch", "remove"}, p \in Copy :
        /\ Goto(r, place) /\ held' = [held EXCEPT ![r] = p] /\ Consistent(p)
        /\ place = "fetch" => req[r].op = "delete" /\ pc[r] = "act"
        /\ place = "remove" => p # None /\ CanDelete(p) /\ pc[r] = "fetch"
  <2>1. req[r].id \in Id /\ table[req[r].id] \in Copy /\ None \in Copy /\ held[r] \in Copy
        /\ Consistent(table[req[r].id]) /\ Consistent(None) /\ Consistent(held[r])
        /\ held = [held EXCEPT ![r] = held[r]]
    BY DEF IInv, Types, Command, Copy, RowInv, RowsSound, Consistent
  <2>2. CASE NotFound(r) \/ AskDelete(r)
    BY <2>1, <2>2 DEF NotFound, AskDelete, Hold
  <2>3. CASE Fetch(r)
    <3>1. table[req[r].id] # None
      BY <2>3 DEF Fetch, IInv, RowInv, Placed
    <3>. QED  BY <2>1, <2>3, <3>1 DEF Fetch, Hold
  <2>. QED  BY <2>2, <2>3
<1>3. Types'
  BY <1>1, <1>2 DEF IInv, Types, Goto, Place
<1>4. Placed(r)'
  BY <1>1, <1>2 DEF IInv, RowInv, Placed, Types, Goto
<1>5. RowInv'
  BY <1>1, <1>2, <1>4, RowsStay DEF IInv, Types, Goto, Place, RowInv, RowsSound
<1>6. ListInv'
  BY <1>1, <1>2, ListsStay
     DEF IInv, Types, ListInv, PromiseKept, Goto, Version
<1>. QED  BY <1>3, <1>5, <1>6 DEF IInv

-----------------------------------------------------------------------------
(* Writing the row *)

LEMMA UpsertInductive ==
    ASSUME IInv, NEW r \in Request, pc[r] \in {"act", "remove"},
           req[r].op \in {"create", "update", "delete"},
           NEW p \in ProductRecord, Consistent(p), Live(p) => SkuFree(r, p),
           Upsert(r, p), Goto(r, "delId"), Hold(r, None),
           UNCHANGED <<byId, bySku, version, pages, req, view, since, announced, restarts>>
    PROVE  IInv'
<1>. DEFINE id == req[r].id
<1>1. /\ id \in Id /\ Request \subseteq Id /\ p # None
      /\ IF req[r].op = "create" THEN id = r ELSE table[id] # None
  BY ProductsAssumption DEF IInv, Types, Command, RowInv, Placed, Id
<1>2. /\ table' \in [Id -> Copy] /\ table'[id] = p
      /\ \A i \in Id \ {id} : table'[i] = table[i]
  BY <1>1 DEF Upsert, IInv, Types, Copy
<1>3. Types'
  BY <1>2 DEF IInv, Types, Upsert, Goto, Hold, Place, Copy
<1>4. RowsSound'
  BY <1>1, <1>2 DEF IInv, RowInv, RowsSound, Types, Hold, Consistent
<1>5. OneLiveProductPerSku'
  <2>1. ASSUME NEW i \in Id, NEW j \in Id, Live(table'[i]), Live(table'[j]), i # j
        PROVE  FALSE
    <3>1. CASE i # id /\ j # id
      BY <1>2, <2>1, <3>1 DEF IInv, RowInv, OneLiveProductPerSku
    <3>2. ASSUME NEW k \in Id \ {id}, Live(p), Live(table[k])  PROVE FALSE
      BY <1>1, <3>2
         DEF SkuFree, Existing, Live, Consistent, IInv, RowInv, RowsSound
    <3>. QED  BY <1>2, <2>1, <3>1, <3>2
  <2>. QED  BY <2>1 DEF OneLiveProductPerSku, Live
<1>6. Placed(r)'
  BY <1>1, <1>2 DEF IInv, RowInv, Placed, Types, Goto, Upsert
<1>7. ASSUME NEW q \in Request \ {r}  PROVE Placed(q)'
  <2>1. req'[q] = req[q] /\ pc'[q] = pc[q] /\ held'[q] = held[q] /\ q \in Id
        /\ (q \in wrote => q \in wrote') /\ announced' = announced
    BY <1>1 DEF IInv, Types, Goto, Hold, Upsert
  <2>2. \A i \in Id : table[i] # None => table'[i] # None
    BY <1>1, <1>2
  <2>3. table[q] = None => table'[q] = None
    BY <1>1, <1>2, <2>1
  <2>4. req[q].id \in Id /\ Placed(q)
    BY DEF IInv, Types, Command, RowInv
  <2>. QED  BY <2>1, <2>2, <2>3, <2>4 DEF Placed
<1>8. RowInv'
  BY <1>4, <1>5, <1>6, <1>7 DEF IInv, RowInv, Counted
<1>9. ListInv'
  BY ListsStay DEF IInv, Types, ListInv, PromiseKept, Goto, Version
<1>. QED  BY <1>3, <1>8, <1>9 DEF IInv

LEMMA SaveInductive ==
    ASSUME IInv, NEW r \in Request, Save(r)  PROVE  IInv'
<1>1. /\ pc[r] = "act" /\ req[r].op \in {"create", "update"} /\ Hold(r, None)
      /\ req[r].op = "update" => Live(held[r]) /\ CanModify(held[r])
      /\ UNCHANGED <<byId, bySku, version, pages, req, view, since, announced, restarts>>
  BY DEF Save
<1>2. PICK p \in Saved(r) :
        \/ SkuFree(r, p) /\ Upsert(r, p) /\ Goto(r, "delId")
        \/ ~ SkuFree(r, p) /\ Goto(r, "failed") /\ UNCHANGED <<table, wrote>>
  BY DEF Save
<1>3. p \in ProductRecord /\ Consistent(p)
  <2>1. r \in ProductInfo
    BY ProductsAssumption DEF Id
  <2>2. CASE req[r].op = "create"
    BY <1>2, <2>1, <2>2, CreateTyped DEF Saved
  <2>3. CASE req[r].op = "update"
    <3>1. held[r] \in ProductRecord /\ held[r].info \in ProductInfo /\ Consistent(held[r])
      BY <1>1, <2>3 DEF Live, IInv, Types, Copy, ProductRecord, RowInv, RowsSound
    <3>2. PICK i \in ProductInfo : p = SetInfo(held[r], i)
      BY <1>2, <2>1, <2>3, <3>1 DEF Saved
    <3>. QED  BY <3>1, <3>2, CommandsTyped
  <2>. QED  BY <1>1, <2>2, <2>3
<1>4. CASE SkuFree(r, p) /\ Upsert(r, p) /\ Goto(r, "delId")
  BY <1>1, <1>3, <1>4, UpsertInductive
<1>5. CASE Goto(r, "failed") /\ UNCHANGED <<table, wrote>>
  <2>1. Types'
    BY <1>1, <1>5 DEF IInv, Types, Goto, Hold, Place, Copy
  <2>2. Placed(r)'
    BY <1>1, <1>5 DEF IInv, RowInv, Placed, Types, Goto
  <2>3. RowInv'
    BY <1>1, <1>5, <2>2, RowsStay
       DEF IInv, Types, Goto, Hold, Place, RowInv, RowsSound, Consistent
  <2>4. ListInv'
    BY <1>1, <1>5, ListsStay
       DEF IInv, Types, ListInv, PromiseKept, Goto, Version
  <2>. QED  BY <2>1, <2>3, <2>4 DEF IInv
<1>. QED  BY <1>2, <1>4, <1>5

LEMMA RemoveInductive ==
    ASSUME IInv, NEW r \in Request, Remove(r)  PROVE  IInv'
<1>1. /\ pc[r] = "remove" /\ Upsert(r, DeleteProduct(held[r])) /\ Goto(r, "delId")
      /\ Hold(r, None)
      /\ UNCHANGED <<byId, bySku, version, pages, req, view, since, announced, restarts>>
  BY DEF Remove
<1>2. req[r].op = "delete" /\ held[r] \in ProductRecord /\ held[r].info \in ProductInfo
  BY <1>1 DEF IInv, RowInv, Placed, Types, Copy, ProductRecord
<1>3. /\ DeleteProduct(held[r]) \in ProductRecord /\ Consistent(DeleteProduct(held[r]))
      /\ ~ Live(DeleteProduct(held[r]))
  BY <1>2, CommandsTyped
<1>. QED  BY <1>1, <1>2, <1>3, UpsertInductive

-----------------------------------------------------------------------------
(* After the save *)

LEMMA InvalidateInductive ==
    ASSUME IInv, NEW r \in Request, InvalidateId(r) \/ InvalidateSku(r)  PROVE  IInv'
<1>1. PICK place \in {"delSku", "incr"} : Goto(r, place)
  BY DEF InvalidateId, InvalidateSku
<1>2. /\ pc[r] \in {"delId", "delSku"} /\ req[r].id \in Id
      /\ UNCHANGED <<table, version, pages, req, held, view, since, wrote, announced, restarts>>
  BY DEF InvalidateId, InvalidateSku, history, IInv, Types, Command
<1>3. /\ byId' \in [Id -> Copy] /\ \A i \in Id : Consistent(byId'[i])
      /\ bySku' \in ProductStatus \cup {None}
  BY <1>2 DEF InvalidateId, InvalidateSku, IInv, Types, RowInv, RowsSound,
     Copy, Consistent
<1>4. Types'
  BY <1>1, <1>2, <1>3 DEF IInv, Types, Goto, Place
<1>5. Placed(r)'
  BY <1>1, <1>2 DEF IInv, RowInv, Placed, Types, Goto
<1>6. RowInv'
  BY <1>1, <1>2, <1>3, <1>5, RowsStay DEF Goto, Place, IInv, RowInv, RowsSound
<1>7. ListInv'
  BY <1>1, <1>2, ListsStay DEF IInv, Types, ListInv, PromiseKept, Goto, Version
<1>. QED  BY <1>4, <1>6, <1>7 DEF IInv

(* The version counts what is announced, so that no page and no list in the
   making is under the new one. *)
LEMMA RaiseVersionInductive ==
    ASSUME IInv, NEW r \in Request, RaiseVersion(r)  PROVE  IInv'
<1>1. /\ pc[r] = "incr" /\ Goto(r, "done") /\ r \in wrote /\ r \notin announced
      /\ UNCHANGED <<table, byId, bySku, pages, req, held, view, since, wrote, restarts>>
  BY DEF RaiseVersion, IInv, RowInv, Placed
<1>2. \/ version' = version + 1 /\ announced' = announced \cup {r}
      \/ version' = version /\ announced' = announced
  BY DEF RaiseVersion
<1>3. version' \in Version /\ Counted' /\ announced' \subseteq wrote /\ version \in Nat
      /\ version' \in Nat
  <2>1. announced \subseteq Request /\ announced \cup {r} \subseteq Request
        /\ version \in Version
    BY DEF IInv, Types
  <2>2. /\ Cardinality(announced \cup {r}) = Cardinality(announced) + 1
        /\ Cardinality(announced \cup {r}) \in Version
        /\ version = Cardinality(announced)
    BY <1>1, <2>1, Counting DEF IInv, RowInv, Counted
  <2>3. announced \subseteq wrote /\ Version \subseteq Nat
    BY Counting DEF IInv, Types
  <2>4. CASE version' = version + 1 /\ announced' = announced \cup {r}
    BY <1>1, <2>1, <2>2, <2>3, <2>4 DEF Counted
  <2>5. CASE version' = version /\ announced' = announced
    BY <1>1, <2>1, <2>2, <2>3, <2>5 DEF Counted
  <2>. QED  BY <1>2, <2>4, <2>5
<1>4. Types'
  BY <1>1, <1>3 DEF IInv, Types, Goto, Place
<1>5. \A q \in Request : Placed(q)'
  BY <1>1, <1>2 DEF IInv, RowInv, Placed, Types, Goto
<1>6. RowInv'
  BY <1>1, <1>3, <1>5 DEF IInv, RowInv, RowsSound, OneLiveProductPerSku
<1>7. ListInv'
  <2>1. \A q \in Request : pc'[q] = pc[q] \/ pc'[q] = "done"
    BY <1>1 DEF Goto, IInv, Types
  <2>2. \A q \in Request : view[q].at \in Nat
    BY Counting DEF IInv, Types
  <2>3. CurrentFresh'
    <3>1. CASE version' = version + 1
      <4>1. version + 1 > version /\ \A q \in Request : view[q].at <= version
        BY <1>3 DEF IInv, ListInv, PromiseKept
      <4>2. pages[version + 1] = None
        BY <1>3, <3>1, <4>1 DEF IInv, ListInv, CurrentFresh
      <4>3. \A v \in Version : v > version + 1 => pages[v] = None
        BY <1>3, Counting DEF IInv, ListInv, CurrentFresh
      <4>4. \A q \in Request : view[q].at # version + 1
        BY <1>3, <2>2, <4>1
      <4>. QED  BY <1>1, <3>1, <4>2, <4>3, <4>4 DEF CurrentFresh
    <3>2. CASE version' = version /\ announced' = announced
      BY <1>1, <2>1, <3>2 DEF IInv, ListInv, CurrentFresh
    <3>. QED  BY <1>2, <3>1, <3>2
  <2>4. ASSUME NEW q \in Request  PROVE PromiseKept(q)'
    <3>1. view[q].at <= version' /\ since[q] \subseteq announced'
      BY <1>2, <1>3, <2>2 DEF IInv, ListInv, PromiseKept
    <3>. QED  BY <1>1, <2>1, <3>1 DEF IInv, ListInv, PromiseKept
  <2>. QED  BY <2>3, <2>4 DEF ListInv
<1>. QED  BY <1>4, <1>6, <1>7 DEF IInv

-----------------------------------------------------------------------------
(* Lists *)

(* The rows have nothing to do with the lists *)
LEMMA ListStepKeepsRows ==
    ASSUME IInv, NEW r \in Request, NEW place \in {"page", "query", "store", "answer", "done"},
           pc[r] \in ListPlace, Goto(r, place),
           UNCHANGED <<table, byId, version, req, held, wrote, announced>>
    PROVE  RowInv'
<1>1. r \notin announced
  BY DEF IInv, RowInv, Placed, ListPlace
<1>2. Placed(r)'
  BY <1>1 DEF IInv, RowInv, Placed, Types, Goto
<1>. QED  BY <1>2, RowsStay DEF Goto, Place, IInv, RowInv, RowsSound

LEMMA ReadVersionInductive ==
    ASSUME IInv, NEW r \in Request, ReadVersion(r)  PROVE  IInv'
<1>1. /\ pc[r] = "version" /\ Goto(r, "page")
      /\ UNCHANGED <<table, byId, bySku, version, pages, req, held, wrote, announced, restarts>>
  BY DEF ReadVersion, catalog, history
<1>2. PICK at \in {version, 0} :
        /\ view' = [view EXCEPT ![r].at = at]
        /\ \/ at = version /\ since' = since
           \/ since' = [since EXCEPT ![r] = {}]
  BY DEF ReadVersion
<1>3. version \in Version /\ at \in Version /\ at <= version /\ version \in Nat
  BY Counting DEF IInv, Types
<1>4. /\ view'[r].at = at
      /\ \A q \in Request \ {r} : view'[q] = view[q] /\ since'[q] = since[q] /\ pc'[q] = pc[q]
      /\ pc'[r] = "page"
      /\ view' \in [Request -> [at : Version, shows : SUBSET Request]]
  BY <1>1, <1>2, <1>3 DEF IInv, Types, Goto
<1>5. Types'
  BY <1>1, <1>2, <1>4 DEF IInv, Types, Goto, Place
<1>6. RowInv'
  BY <1>1, ListStepKeepsRows DEF ListPlace
<1>7. CurrentFresh'
  <2>1. \A q \in Request : pc'[q] = "store" => q # r
    BY <1>4
  <2>. QED  BY <1>1, <1>4, <2>1 DEF IInv, ListInv, CurrentFresh
<1>8. PromiseKept(r)'
  <2>1. since[r] \subseteq announced
    BY DEF IInv, ListInv, PromiseKept
  <2>2. CASE at = version /\ since' = since
    <3>1. pages[version] # None => since[r] \subseteq pages[version]
      BY <2>1 DEF IInv, ListInv, CurrentFresh
    <3>2. \A q \in Request : pc'[q] = "store" /\ view'[q].at = version
                              => since[r] \subseteq view'[q].shows
      BY <1>4, <2>1 DEF IInv, ListInv, CurrentFresh
    <3>. QED  BY <1>1, <1>3, <1>4, <2>1, <2>2, <3>1, <3>2 DEF PromiseKept
  <2>3. CASE since' = [since EXCEPT ![r] = {}]
    <3>1. since'[r] = {}
      BY <2>3 DEF IInv, Types
    <3>. QED  BY <1>1, <1>3, <1>4, <3>1 DEF PromiseKept
  <2>. QED  BY <1>2, <2>2, <2>3
<1>9. ASSUME NEW q \in Request \ {r}  PROVE PromiseKept(q)'
  <2>1. PromiseKept(q)
    BY DEF IInv, ListInv
  <2>2. \A s \in Request : pc'[s] = "store" => s # r
    BY <1>4
  <2>. QED  BY <1>1, <1>4, <2>1, <2>2 DEF PromiseKept
<1>. QED  BY <1>5, <1>6, <1>7, <1>8, <1>9 DEF IInv, ListInv

LEMMA ReadPageInductive ==
    ASSUME IInv, NEW r \in Request, ReadPage(r)  PROVE  IInv'
<1>1. /\ pc[r] = "page"
      /\ UNCHANGED <<table, byId, bySku, version, pages, req, held, since, wrote, announced,
                     restarts>>
  BY DEF ReadPage, catalog, history
<1>2. PICK place \in {"query", "answer"} :
        /\ Goto(r, place)
        /\ place = "query" => view' = view
        /\ place = "answer" => /\ pages[view[r].at] # None
                               /\ view' = [view EXCEPT ![r].shows = pages[view[r].at]]
  BY DEF ReadPage
<1>3. view[r].at \in Version /\ pages[view[r].at] \in Page
  BY DEF IInv, Types
<1>4. /\ view' \in [Request -> [at : Version, shows : SUBSET Request]]
      /\ view'[r].at = view[r].at
      /\ \A q \in Request \ {r} : view'[q] = view[q] /\ pc'[q] = pc[q]
      /\ pc'[r] \notin {"page", "store"}
      /\ pc'[r] = "answer" => since[r] \subseteq view'[r].shows
  BY <1>1, <1>2, <1>3 DEF IInv, Types, ListInv, PromiseKept, Goto, Page
<1>5. Types'
  BY <1>1, <1>2, <1>4 DEF IInv, Types, Goto, Place
<1>6. RowInv'
  BY <1>1, <1>2, ListStepKeepsRows DEF ListPlace
<1>7. CurrentFresh'
  BY <1>1, <1>4 DEF IInv, ListInv, CurrentFresh
<1>8. \A q \in Request : PromiseKept(q)'
  BY <1>1, <1>4 DEF IInv, ListInv, PromiseKept
<1>. QED  BY <1>5, <1>6, <1>7, <1>8 DEF IInv, ListInv

LEMMA QueryListInductive ==
    ASSUME IInv, NEW r \in Request, QueryList(r)  PROVE  IInv'
<1>1. /\ pc[r] = "query" /\ Goto(r, "store") /\ view' = [view EXCEPT ![r].shows = wrote]
      /\ UNCHANGED <<table, byId, bySku, version, pages, req, held, since, wrote, announced,
                     restarts>>
  BY DEF QueryList, catalog, history
<1>2. /\ view' \in [Request -> [at : Version, shows : SUBSET Request]]
      /\ view'[r].at = view[r].at /\ view'[r].shows = wrote /\ pc'[r] = "store"
      /\ \A q \in Request \ {r} : view'[q] = view[q] /\ pc'[q] = pc[q]
      /\ announced \subseteq wrote
  BY <1>1 DEF IInv, Types, Goto
<1>3. Types'
  BY <1>1, <1>2 DEF IInv, Types, Goto, Place
<1>4. RowInv'
  BY <1>1, ListStepKeepsRows DEF ListPlace
<1>5. CurrentFresh'
  BY <1>1, <1>2 DEF IInv, ListInv, CurrentFresh
<1>6. \A q \in Request : PromiseKept(q)'
  BY <1>1, <1>2 DEF IInv, ListInv, PromiseKept
<1>. QED  BY <1>3, <1>4, <1>5, <1>6 DEF IInv, ListInv

LEMMA StorePageInductive ==
    ASSUME IInv, NEW r \in Request, StorePage(r)  PROVE  IInv'
<1>1. /\ pc[r] = "store" /\ Goto(r, "answer")
      /\ pages' \in {pages, [pages EXCEPT ![view[r].at] = view[r].shows]}
      /\ UNCHANGED <<table, byId, bySku, version, req, held, view, since, wrote, announced,
                     restarts>>
  BY DEF StorePage, history
<1>2. /\ view[r].at \in Version /\ view[r].shows \in SUBSET Request
      /\ \A q \in Request \ {r} : pc'[q] = pc[q]
      /\ pc'[r] = "answer" /\ version \in Version
  BY <1>1 DEF IInv, Types, Goto
<1>3. pages' \in [Version -> Page]
  BY <1>1, <1>2 DEF IInv, Types, Page
<1>4. \A v \in Version : \/ pages'[v] = pages[v]
                         \/ v = view[r].at /\ pages'[v] = view[r].shows
  BY <1>1, <1>2 DEF IInv, Types
<1>5. Types'
  BY <1>1, <1>3 DEF IInv, Types, Goto, Place
<1>6. RowInv'
  BY <1>1, ListStepKeepsRows DEF ListPlace
<1>7. CurrentFresh'
  <2>1. view[r].at <= version /\ view[r].at \in Nat /\ version \in Nat
    BY <1>2, Counting DEF IInv, ListInv, PromiseKept
  <2>2. \A v \in Version : v > version => pages'[v] = None
    BY <1>4, <2>1, Counting DEF IInv, ListInv, CurrentFresh
  <2>3. pages'[version] # None => announced \subseteq pages'[version]
    BY <1>1, <1>2, <1>4 DEF IInv, ListInv, CurrentFresh
  <2>. QED  BY <1>1, <1>2, <2>2, <2>3 DEF IInv, ListInv, CurrentFresh
<1>8. ASSUME NEW q \in Request  PROVE PromiseKept(q)'
  <2>1. PromiseKept(q) /\ view[q].at \in Version
    BY DEF IInv, ListInv, Types
  <2>. QED  BY <1>1, <1>2, <1>4, <2>1 DEF PromiseKept
<1>. QED  BY <1>5, <1>6, <1>7, <1>8 DEF IInv, ListInv

LEMMA AnswerListInductive ==
    ASSUME IInv, NEW r \in Request, AnswerList(r)  PROVE  IInv'
<1>1. /\ pc[r] = "answer" /\ Goto(r, "done") /\ view' = [view EXCEPT ![r] = NoView]
      /\ since' = [since EXCEPT ![r] = {}]
      /\ UNCHANGED <<table, byId, bySku, version, pages, req, held, wrote, announced, restarts>>
  BY DEF AnswerList, catalog, history
<1>2. 0 \in Version /\ version \in Version /\ NoView \in [at : Version, shows : SUBSET Request]
  BY Counting DEF IInv, Types, NoView
<1>3. Types'
  BY <1>1, <1>2 DEF IInv, Types, Goto, Place
<1>4. RowInv'
  BY <1>1, ListStepKeepsRows DEF ListPlace
<1>5. ListInv'
  BY <1>1, <1>2, ListsStay, Counting DEF IInv, Types, Goto, NoView
<1>. QED  BY <1>3, <1>4, <1>5 DEF IInv

-----------------------------------------------------------------------------
(* What happens around the requests *)

LEMMA ExpireInductive ==
    ASSUME IInv, Expire  PROVE  IInv'
<1>1. UNCHANGED <<table, version, pc, req, held, view, since, wrote, announced, restarts>>
  BY DEF Expire, ExpireProduct, ExpireSku, ExpirePage, history
<1>2. /\ byId' \in [Id -> Copy] /\ \A i \in Id : Consistent(byId'[i])
      /\ bySku' \in ProductStatus \cup {None}
      /\ pages' \in [Version -> Page]
      /\ \A v \in Version : pages'[v] \in {pages[v], None}
  BY DEF Expire, ExpireProduct, ExpireSku, ExpirePage, IInv, Types, RowInv, RowsSound,
     Copy, Page, Consistent
<1>3. Types'
  BY <1>1, <1>2 DEF IInv, Types
<1>4. RowInv'
  BY <1>1, <1>2 DEF IInv, RowInv, RowsSound, OneLiveProductPerSku, Counted, Placed
<1>5. ListInv'
  BY <1>1, <1>2, ListsStay
<1>. QED  BY <1>3, <1>4, <1>5 DEF IInv

LEMMA RestartInductive ==
    ASSUME IInv, Restart  PROVE  IInv'
<1>1. /\ restarts' \in 0 .. MaxRestarts
      /\ UNCHANGED <<table, byId, bySku, version, pages, req, wrote, announced>>
      /\ held' = [r \in Request |-> None] /\ view' = [r \in Request |-> NoView]
      /\ since' = [r \in Request |-> {}]
  BY ProductsAssumption DEF Restart, catalog, IInv, Types
<1>2. \A r \in Request : \/ pc'[r] = "failed"
                         \/ pc'[r] = pc[r] /\ pc[r] \in {"idle", "done", "failed"}
  BY DEF Restart, Answered
<1>3. \A r \in Request : pc'[r] \in Place /\ (pc[r] = "done" => pc'[r] = "done")
  BY DEF Restart, Answered, Place, IInv, Types
<1>4. 0 \in Version /\ NoView \in [at : Version, shows : SUBSET Request] /\ version \in Version
  BY Counting DEF NoView, IInv, Types
<1>5. Types'
  <2>1. pc' \in [Request -> Place]
    BY <1>3 DEF Restart
  <2>. QED  BY <1>1, <1>4, <2>1 DEF IInv, Types, Copy
<1>6. \A r \in Request : Placed(r)'
  BY <1>1, <1>2, <1>3 DEF IInv, RowInv, Placed
<1>7. RowInv'
  BY <1>1, <1>6 DEF IInv, RowInv, RowsSound, OneLiveProductPerSku, Counted, Consistent
<1>8. ListInv'
  BY <1>1, <1>2, <1>4, ListsStay, Counting DEF NoView
<1>. QED  BY <1>5, <1>7, <1>8 DEF IInv

LEMMA StepInductive == IInv /\ [Next]_vars => IInv'
<1>. SUFFICES ASSUME IInv, [Next]_vars PROVE IInv'
  OBVIOUS
<1>1. ASSUME NEW r \in Request, Start(r) \/ RequestStep(r)  PROVE IInv'
  BY <1>1, StartInductive, CacheGetInductive, ReadRowInductive, FillInductive, DecideInductive,
     SaveInductive, RemoveInductive, InvalidateInductive, RaiseVersionInductive,
     ReadVersionInductive, ReadPageInductive, QueryListInductive, StorePageInductive,
     AnswerListInductive DEF RequestStep
<1>2. CASE Quiet \/ UNCHANGED vars
  BY <1>2 DEF Quiet, vars, IInv, Types, RowInv, RowsSound, OneLiveProductPerSku,
     Counted, Placed, ListInv, CurrentFresh, PromiseKept
<1>. QED  BY <1>1, <1>2, ExpireInductive, RestartInductive DEF Next

-----------------------------------------------------------------------------
(* Old cache entries.  A write leaves the request that made it before its two
   deletions, so what is old and not counted as missed is still to be deleted. *)

EntriesExplained ==
    \A e \in Entry : Old(e) => e \in missed \/ \E r \in Request : e \in ToDelete(r)

OldInv == missed \subseteq Entry /\ EntriesExplained

LEMMA InitOld == Init => OldInv
<1>. SUFFICES ASSUME Init, NEW e \in Entry  PROVE ~ Old(e)
  BY DEF Init, OldInv, EntriesExplained
<1>. QED  BY DEF Init, Entry, Old

(* Steps that leave rows and entries alone and are not deletions ... *)
LEMMA OldStays ==
    ASSUME OldInv, UNCHANGED <<table, byId, bySku, missed>>,
           \A q \in Request : ToDelete(q) \subseteq ToDelete(q)'
    PROVE  OldInv'
BY DEF OldInv, EntriesExplained, Old, Existing

(* ... and those that write, delete or store *)
LEMMA OldWritten ==
    ASSUME IInv, OldInv, NEW r \in Request, pc[r] \in {"act", "remove"},
           NEW p, Upsert(r, p), Goto(r, "delId"), UNCHANGED <<byId, bySku, missed, req>>
    PROVE  OldInv'
<1>1. ToDelete(r)' = {req[r].id, "sku"} /\ req[r].id \in Id
  BY DEF Goto, ToDelete, IInv, Types, Command
<1>2. \A q \in Request \ {r} : ToDelete(q)' = ToDelete(q)
  BY DEF Goto, ToDelete, IInv, Types
<1>3. ToDelete(r) = {}
  BY DEF ToDelete
<1>4. \A i \in Id \ {req[r].id} : table'[i] = table[i]
  BY DEF Upsert, IInv, Types
<1>5. ASSUME NEW e \in Entry, Old(e)'
      PROVE  e \in missed \/ \E q \in Request : e \in ToDelete(q)'
  <2>1. CASE e \in {req[r].id, "sku"}
    BY <1>1, <2>1
  <2>2. CASE e \notin {req[r].id, "sku"}
    <3>1. e \in Id /\ Old(e)
      BY <1>4, <1>5, <2>2 DEF Entry, Old
    <3>2. e \in missed \/ \E q \in Request \ {r} : e \in ToDelete(q)
      BY <1>3, <3>1 DEF OldInv, EntriesExplained
    <3>. QED  BY <1>2, <3>2
  <2>. QED  BY <2>1, <2>2
<1>. QED  BY <1>5 DEF OldInv, EntriesExplained

LEMMA OldDeleted ==
    ASSUME IInv, OldInv, NEW r \in Request, InvalidateId(r) \/ InvalidateSku(r)
    PROVE  OldInv'
<1>1. "sku" \notin Id /\ req[r].id \in Id /\ UNCHANGED <<table, req>>
  BY ProductsAssumption DEF InvalidateId, InvalidateSku, IInv, Types, Command
<1>2. \A q \in Request \ {r} : ToDelete(q)' = ToDelete(q)
  BY <1>1 DEF InvalidateId, InvalidateSku, Goto, ToDelete, IInv, Types
<1>3. PICK d \in Entry :
        /\ \A e \in ToDelete(r) \ {d} : e \in ToDelete(r)'
        /\ \A e \in Entry \ {d} : Old(e)' = Old(e)
        /\ \/ ~ Old(d)' /\ missed' = missed \ {d}
           \/ Old(d)' = Old(d) /\ missed' = IF Old(d) THEN missed \cup {d} ELSE missed
  <2>1. CASE InvalidateId(r)
    <3>0. PICK d \in Id : d = req[r].id
      BY <1>1
    <3>1. ToDelete(r) = {d, "sku"} /\ ToDelete(r)' = {"sku"}
      BY <1>1, <2>1, <3>0 DEF InvalidateId, Goto, ToDelete, IInv, Types
    <3>2. /\ UNCHANGED bySku
          /\ \/ byId' = [byId EXCEPT ![d] = None] /\ missed' = missed \ {d}
             \/ byId' = byId /\ missed' = IF Old(d) THEN missed \cup {d} ELSE missed
      BY <2>1, <3>0 DEF InvalidateId, AfterDeletion
    <3>3. \A e \in Entry \ {d} : Old(e)' = Old(e)
      BY <1>1, <3>2 DEF Entry, Old, Existing, IInv, Types
    <3>4. byId' = [byId EXCEPT ![d] = None] => ~ Old(d)'
      BY <1>1 DEF Old, IInv, Types
    <3>5. byId' = byId => Old(d)' = Old(d)
      BY <1>1, <3>2 DEF Old, Existing
    <3>6. d \in Entry
      BY DEF Entry
    <3>7. \/ ~ Old(d)' /\ missed' = missed \ {d}
          \/ Old(d)' = Old(d) /\ missed' = IF Old(d) THEN missed \cup {d} ELSE missed
      BY <3>2, <3>4, <3>5
    <3>8. \A e \in ToDelete(r) \ {d} : e \in ToDelete(r)'
      BY <3>1
    <3>. QED  BY <3>3, <3>6, <3>7, <3>8
  <2>2. CASE InvalidateSku(r)
    <3>1. ToDelete(r) = {"sku"} /\ "sku" \in Entry
      BY <2>2 DEF InvalidateSku, ToDelete, Entry
    <3>2. /\ UNCHANGED byId
          /\ \/ bySku' = None /\ missed' = missed \ {"sku"}
             \/ bySku' = bySku /\ missed' = IF Old("sku") THEN missed \cup {"sku"} ELSE missed
      BY <2>2 DEF InvalidateSku, AfterDeletion
    <3>3. \A e \in Entry \ {"sku"} : Old(e)' = Old(e)
      BY <1>1, <3>2 DEF Entry, Old
    <3>4. bySku' = None => ~ Old("sku")'
      BY DEF Old
    <3>5. bySku' = bySku => Old("sku")' = Old("sku")
      BY <1>1 DEF Old, Existing
    <3>. QED  BY <3>1, <3>2, <3>3, <3>4, <3>5
  <2>. QED  BY <2>1, <2>2
<1>4. missed' \subseteq Entry
  BY <1>3 DEF OldInv
<1>5. ASSUME NEW e \in Entry, Old(e)'
      PROVE  e \in missed' \/ \E q \in Request : e \in ToDelete(q)'
  <2>1. CASE e = d
    BY <1>3, <1>5, <2>1
  <2>2. CASE e # d
    <3>1. Old(e)
      BY <1>3, <1>5, <2>2
    <3>2. e \in missed \/ \E q \in Request : e \in ToDelete(q)
      BY <3>1 DEF OldInv, EntriesExplained
    <3>. QED  BY <1>2, <1>3, <2>2, <3>2
  <2>. QED  BY <2>1, <2>2
<1>. QED  BY <1>4, <1>5 DEF OldInv, EntriesExplained

LEMMA OldFilled ==
    ASSUME IInv, OldInv, NEW r \in Request, Fill(r)
    PROVE  OldInv'
<1>1. /\ "sku" \notin Id /\ req[r].id \in Id /\ UNCHANGED <<table, req>>
      /\ held[r] \in ProductRecord
  BY ProductsAssumption DEF Fill, IInv, Types, Command, RowInv, Placed, Copy
<1>2. PICK e \in Entry : e = IF req[r].op = "create" THEN "sku" ELSE req[r].id
  BY <1>1 DEF Entry
<1>3. \A q \in Request : ToDelete(q) \subseteq ToDelete(q)'
  BY <1>1 DEF Fill, Goto, ToDelete, IInv, Types
<1>4. CASE UNCHANGED <<byId, bySku, missed>>
  BY <1>1, <1>3, <1>4, OldStays
<1>5. CASE ~ UNCHANGED <<byId, bySku, missed>>
  <2>1. /\ IF req[r].op = "create"
           THEN bySku' = held[r].status /\ byId' = byId
           ELSE byId' = [byId EXCEPT ![req[r].id] = held[r]] /\ bySku' = bySku
        /\ missed' = IF FillIsFresh(r) THEN missed \ {e} ELSE missed \cup {e}
    BY <1>2, <1>5 DEF Fill
  <2>2. \A d \in Entry \ {e} : Old(d)' = Old(d)
    BY <1>2, <1>1, <2>1 DEF Entry, Old, Existing, IInv, Types
  <2>3. FillIsFresh(r) => ~ Old(e)'
    <3>1. CASE req[r].op = "create"
      BY <1>2, <1>1, <2>1, <3>1 DEF FillIsFresh, Old, Existing
    <3>2. CASE req[r].op # "create"
      BY <1>2, <1>1, <2>1, <3>2 DEF FillIsFresh, Old, IInv, Types
    <3>. QED  BY <3>1, <3>2
  <2>4. /\ missed' \subseteq Entry
        /\ \A d \in Entry \ {e} : d \in missed => d \in missed'
    BY <1>1, <2>1 DEF OldInv
  <2>5. Old(e)' => e \in missed'
    BY <2>1, <2>3
  <2>6. ASSUME NEW d \in Entry, Old(d)'
        PROVE  d \in missed' \/ \E q \in Request : d \in ToDelete(q)'
    <3>1. CASE d = e
      BY <2>5, <2>6, <3>1
    <3>2. CASE d # e
      <4>1. d \in missed \/ \E q \in Request : d \in ToDelete(q)
        BY <2>2, <2>6, <3>2 DEF OldInv, EntriesExplained
      <4>. QED  BY <1>3, <2>4, <3>2, <4>1
    <3>. QED  BY <3>1, <3>2
  <2>. QED  BY <2>4, <2>6 DEF OldInv, EntriesExplained
<1>. QED  BY <1>4, <1>5

LEMMA OldAround ==
    ASSUME IInv, OldInv, Expire \/ Restart
    PROVE  OldInv'
<1>1. CASE Expire
  <2>1. UNCHANGED <<table, pc, req>> /\ "sku" \notin Id
    BY <1>1, ProductsAssumption DEF Expire, ExpireProduct, ExpireSku, ExpirePage
  <2>2. ASSUME NEW i \in Id, ExpireProduct(i)  PROVE OldInv'
    <3>1. ~ Old(i)' /\ \A e \in Entry \ {i} : Old(e)' = Old(e)
      BY <2>1, <2>2 DEF ExpireProduct, Entry, Old, Existing, IInv, Types
    <3>. QED  BY <2>1, <2>2, <3>1 DEF ExpireProduct, OldInv, EntriesExplained, ToDelete
  <2>3. CASE ExpireSku
    <3>1. ~ Old("sku")' /\ \A e \in Entry \ {"sku"} : Old(e)' = Old(e)
      BY <2>1, <2>3 DEF ExpireSku, Entry, Old, Existing
    <3>. QED  BY <2>1, <2>3, <3>1 DEF ExpireSku, OldInv, EntriesExplained, ToDelete
  <2>4. ASSUME NEW v \in Version, ExpirePage(v)  PROVE OldInv'
    BY <2>4, OldStays DEF ExpirePage, ToDelete
  <2>. QED  BY <1>1, <2>2, <2>3, <2>4 DEF Expire
<1>2. CASE Restart
  <2>1. /\ UNCHANGED <<table, byId, bySku>>
        /\ missed' = missed \cup {e \in Entry : Old(e) /\ \E r \in Request : e \in ToDelete(r)}
    BY <1>2 DEF Restart
  <2>2. \A e \in Entry : Old(e)' = Old(e)
    BY <2>1 DEF Old, Existing
  <2>. QED  BY <2>1, <2>2 DEF OldInv, EntriesExplained
<1>. QED  BY <1>1, <1>2

LEMMA OldStep == IInv /\ OldInv /\ [Next]_vars => OldInv'
<1>. SUFFICES ASSUME IInv, OldInv, [Next]_vars PROVE OldInv'
  OBVIOUS
<1>1. ASSUME NEW r \in Request,
             \/ Start(r) \/ CacheGet(r) \/ ReadRow(r)
             \/ NotFound(r) \/ AskDelete(r) \/ Fetch(r) \/ RaiseVersion(r)
             \/ ReadVersion(r) \/ ReadPage(r) \/ QueryList(r) \/ StorePage(r) \/ AnswerList(r)
      PROVE  OldInv'
  <2>1. /\ UNCHANGED <<table, byId, bySku, missed>>
        /\ pc[r] \notin {"delId", "delSku"}
        /\ \A q \in Request \ {r} : pc'[q] = pc[q] /\ req'[q] = req[q]
    BY <1>1 DEF Start, CacheGet, ReadRow, NotFound, AskDelete, Fetch, RaiseVersion, ReadVersion,
       ReadPage, QueryList, StorePage, AnswerList, Goto, catalog, IInv, Types
  <2>2. \A q \in Request : ToDelete(q) \subseteq ToDelete(q)'
    BY <2>1 DEF ToDelete
  <2>. QED  BY <2>1, <2>2, OldStays
<1>2. ASSUME NEW r \in Request, Save(r) \/ Remove(r)
      PROVE  OldInv'
  <2>1. UNCHANGED <<byId, bySku, missed, req>> /\ pc[r] \in {"act", "remove"}
    BY <1>2 DEF Save, Remove
  <2>2. \/ \E p : Upsert(r, p) /\ Goto(r, "delId")
        \/ UNCHANGED table /\ Goto(r, "failed")
    BY <1>2 DEF Save, Remove
  <2>3. CASE UNCHANGED table /\ Goto(r, "failed")
    <3>1. \A q \in Request : ToDelete(q) \subseteq ToDelete(q)'
      BY <2>1, <2>3 DEF Goto, ToDelete, IInv, Types
    <3>. QED  BY <2>1, <2>3, <3>1, OldStays
  <2>. QED  BY <2>1, <2>2, <2>3, OldWritten
<1>3. CASE Quiet \/ UNCHANGED vars
  BY <1>3, OldStays DEF Quiet, vars, ToDelete
<1>. QED  BY <1>1, <1>2, <1>3, OldDeleted, OldFilled, OldAround DEF Next, RequestStep

-----------------------------------------------------------------------------
(* No request, fault or restart leaves a state outside ProductsTypeOK; the
   version never passes the number of writes. *)
THEOREM ProductsTyped == Spec => []ProductsTypeOK
<1>1. IInv /\ OldInv => ProductsTypeOK
  BY DEF IInv, OldInv, Types, ProductsTypeOK
<1>. QED  BY <1>1, InitInductive, StepInductive, InitOld, OldStep, PTL DEF Spec

(* For any number of requests, a cached product that is old, or an old entry of
   the SKU, is one that a request will still delete, or one whose fill was
   overtaken, whose deletion Redis lost or whose deletion died with the process;
   and the current list shows every write whose raise of the version was done. *)
THEOREM OldEntriesAreExplained == Spec => []OldEntriesExplained
<1>1. IInv /\ OldInv => OldEntriesExplained
  BY DEF IInv, ListInv, CurrentFresh, OldInv, EntriesExplained, OldEntriesExplained
<1>. QED  BY <1>1, InitInductive, StepInductive, InitOld, OldStep, PTL DEF Spec

(* Under the partial unique index one SKU is for sale once, however many
   creates, updates of old copies and deletions overlap. *)
THEOREM SkuSoldOnce == Spec => []OneLiveProductPerSku
<1>1. IInv => OneLiveProductPerSku
  BY DEF IInv, RowInv
<1>. QED  BY <1>1, InitInductive, StepInductive, PTL DEF Spec

(* A list that is answered shows every write whose raise of the version came
   before the request, for any number of requests in any order. *)
THEOREM ListsStayFresh == Spec => []ListsFresh
<1>1. IInv => ListsFresh
  BY DEF IInv, ListInv, PromiseKept, ListsFresh
<1>. QED  BY <1>1, InitInductive, StepInductive, PTL DEF Spec

-----------------------------------------------------------------------------
(* The two kinds of step of SnapshotStore *)

TakesSnapshots == table' = table /\ Snapshots' \subseteq Snapshots \cup Rows!Current

LEMMA InSnapshots ==
    /\ \A i \in Id : byId[i] # None => <<i, byId[i]>> \in Snapshots
    /\ \A r \in Request : held[r] # None /\ req[r].op # "create"
                          => <<req[r].id, held[r]>> \in Snapshots
BY DEF Snapshots

(* Most steps only drop snapshots *)
LEMMA DropsSnapshots ==
    ASSUME table' = table,
           \A i \in Id : byId'[i] \in {byId[i], None},
           \A q \in Request : \/ held'[q] = None
                              \/ req'[q].op = "create"
                              \/ held'[q] = held[q] /\ req'[q] = req[q]
    PROVE  TakesSnapshots
BY DEF TakesSnapshots, Snapshots

LEMMA LookupTakesSnapshots ==
    ASSUME IInv, NEW r \in Request, CacheGet(r) \/ ReadRow(r) \/ Fill(r) \/ Fetch(r)
    PROVE  TakesSnapshots
<1>. DEFINE id == req[r].id
<1>1. id \in Id /\ table' = table /\ req' = req
      /\ \A q \in Request \ {r} : held'[q] = held[q]
  BY DEF CacheGet, ReadRow, Fill, Fetch, Hold, catalog, IInv, Types, Command
<1>2. CASE CacheGet(r)
  <2>1. byId' = byId /\ (req[r].op # "create" => held'[r] \in {None, byId[id]})
    BY <1>2 DEF CacheGet, Hold, catalog, IInv, Types
  <2>. QED  BY <1>1, <2>1 DEF TakesSnapshots, Snapshots
<1>3. CASE ReadRow(r)
  <2>1. byId' = byId /\ \E p \in Found(r) : held'[r] = p
    BY <1>3 DEF ReadRow, Hold, catalog, IInv, Types
  <2>2. req[r].op # "create" => \A p \in Found(r) : p \in {None, table[id]}
    <3>1. CASE req[r].op = "detail"
      BY <3>1 DEF Found
    <3>2. CASE req[r].op \notin {"create", "detail"}
      BY <3>2 DEF Found
    <3>. QED  BY <3>1, <3>2
  <2>. QED  BY <1>1, <2>1, <2>2 DEF TakesSnapshots, Snapshots, Rows!Current
<1>4. CASE Fill(r)
  <2>1. /\ held'[r] \in {None, held[r]}
        /\ \A i \in Id : \/ byId'[i] = byId[i]
                         \/ i = id /\ req[r].op # "create" /\ byId'[i] = held[r]
    BY <1>1, <1>4 DEF Fill, Hold, IInv, Types
  <2>. QED  BY <1>1, <2>1 DEF TakesSnapshots, Snapshots
<1>5. CASE Fetch(r)
  <2>1. byId' = byId /\ held'[r] \in {held[r], table[id]}
    BY <1>5 DEF Fetch, Hold, catalog, IInv, Types
  <2>. QED  BY <1>1, <2>1 DEF TakesSnapshots, Snapshots, Rows!Current
<1>. QED  BY <1>2, <1>3, <1>4, <1>5

LEMMA UpsertWrites ==
    ASSUME IInv, NEW r \in Request, NEW p \in ProductRecord,
           Upsert(r, p), Hold(r, None), UNCHANGED <<byId, req>>,
           \/ table[req[r].id] = None /\ p \in {CreateProduct(i) : i \in ProductInfo}
           \/ /\ held[r] \in ProductRecord /\ held[r] # None /\ req[r].op # "create"
              /\ IsCommand(held[r], p)
    PROVE  Rows!Write(req[r].id)
<1>. DEFINE id == req[r].id
<1>1. id \in Id /\ table' = [table EXCEPT ![id] = p] /\ table'[id] = p
  BY DEF Upsert, IInv, Types, Command
<1>2. Snapshots' \subseteq Snapshots
  BY DEF Snapshots, Hold, IInv, Types
<1>3. CASE table[id] = None /\ p \in {CreateProduct(i) : i \in ProductInfo}
  BY <1>1, <1>2, <1>3 DEF Rows!Write
<1>4. CASE held[r] \in ProductRecord /\ held[r] # None /\ req[r].op # "create"
           /\ IsCommand(held[r], p)
  <2>1. <<id, held[r]>> \in Snapshots
    BY <1>4, InSnapshots
  <2>2. <<held[r], p>> \in {c \in ProductRecord \X ProductRecord : IsCommand(c[1], c[2])}
    BY <1>4
  <2>. QED  BY <1>1, <1>2, <2>1, <2>2 DEF Rows!Write
<1>. QED  BY <1>3, <1>4

LEMMA SaveWrites ==
    ASSUME IInv, NEW r \in Request, Save(r) \/ Remove(r)
    PROVE  TakesSnapshots \/ Rows!Write(req[r].id)
<1>1. /\ Hold(r, None) /\ UNCHANGED <<byId, req>>
      /\ held[r] \in Copy
  BY DEF Save, Remove, IInv, Types
<1>2. CASE Remove(r)
  <2>1. /\ held[r] \in ProductRecord /\ held[r] # None /\ CanDelete(held[r])
        /\ req[r].op = "delete" /\ held[r].info \in ProductInfo
    BY <1>1, <1>2 DEF Remove, IInv, RowInv, Placed, Copy, ProductRecord
  <2>2. DeleteProduct(held[r]) \in ProductRecord /\ IsCommand(held[r], DeleteProduct(held[r]))
    BY <2>1, CommandsTyped DEF IsCommand
  <2>. QED  BY <1>1, <1>2, <2>1, <2>2, UpsertWrites DEF Remove
<1>3. CASE Save(r)
  <2>1. PICK p \in Saved(r) : Upsert(r, p) \/ UNCHANGED <<table, wrote>>
    BY <1>3 DEF Save
  <2>2. CASE UNCHANGED <<table, wrote>>
    BY <1>1, <2>2, DropsSnapshots DEF Hold, IInv, Types
  <2>3. CASE Upsert(r, p) /\ req[r].op = "create"
    <3>1. r \in ProductInfo /\ p = CreateProduct(r) /\ table[req[r].id] = None
      BY <1>3, <2>1, <2>3, ProductsAssumption
         DEF Save, Saved, Id, IInv, RowInv, Placed
    <3>2. p \in ProductRecord
      BY <3>1, CreateTyped
    <3>. QED  BY <1>1, <2>3, <3>1, <3>2, UpsertWrites
  <2>4. CASE Upsert(r, p) /\ req[r].op = "update"
    <3>1. /\ held[r] \in ProductRecord /\ held[r] # None /\ CanModify(held[r])
          /\ held[r].info \in ProductInfo /\ r \in ProductInfo
      BY <1>1, <1>3, <2>4, ProductsAssumption DEF Save, Live, Copy, ProductRecord, Id
    <3>2. PICK i \in ProductInfo : p = SetInfo(held[r], i)
      BY <2>1, <2>4, <3>1 DEF Saved
    <3>3. p \in ProductRecord /\ IsCommand(held[r], p)
      BY <3>1, <3>2, CommandsTyped DEF IsCommand
    <3>. QED  BY <1>1, <2>4, <3>1, <3>3, UpsertWrites
  <2>. QED  BY <1>3, <2>1, <2>2, <2>3, <2>4 DEF Save
<1>. QED  BY <1>2, <1>3

LEMMA StepSimulates ==
    ASSUME IInv, [Next]_vars
    PROVE  TakesSnapshots \/ \E s \in Id : Rows!Write(s)
<1>1. ASSUME NEW r \in Request, Start(r)
      PROVE  TakesSnapshots
  <2>1. held[r] = None
    BY <1>1 DEF Start, IInv, RowInv, Placed
  <2>2. /\ UNCHANGED <<table, byId, held>>
        /\ \A q \in Request \ {r} : req'[q] = req[q]
    BY <1>1 DEF Start, catalog, IInv, Types
  <2>. QED  BY <2>1, <2>2, DropsSnapshots
<1>2. ASSUME NEW r \in Request, RequestStep(r)
      PROVE  TakesSnapshots \/ \E s \in Id : Rows!Write(s)
  <2>1. CASE NotFound(r) \/ AskDelete(r)
    <3>1. UNCHANGED <<table, byId, req>> /\ held' = [held EXCEPT ![r] = None]
      BY <2>1 DEF NotFound, AskDelete, Hold, catalog
    <3>. QED  BY <3>1, DropsSnapshots DEF IInv, Types
  <2>2. CASE InvalidateId(r)
    <3>1. UNCHANGED <<table, req, held>> /\ \A i \in Id : byId'[i] \in {byId[i], None}
      BY <2>2 DEF InvalidateId, IInv, Types
    <3>. QED  BY <3>1, DropsSnapshots
  <2>3. CASE \/ InvalidateSku(r) \/ RaiseVersion(r) \/ ReadVersion(r) \/ ReadPage(r)
             \/ QueryList(r) \/ StorePage(r) \/ AnswerList(r)
    <3>1. UNCHANGED <<table, byId, req, held>>
      BY <2>3 DEF InvalidateSku, RaiseVersion, ReadVersion, ReadPage, QueryList, StorePage,
         AnswerList, catalog
    <3>. QED  BY <3>1, DropsSnapshots
  <2>4. CASE Save(r) \/ Remove(r)
    <3>1. req[r].id \in Id
      BY DEF IInv, Types, Command
    <3>. QED  BY <2>4, <3>1, SaveWrites
  <2>. QED  BY <1>2, <2>1, <2>2, <2>3, <2>4, LookupTakesSnapshots DEF RequestStep
<1>3. CASE Expire \/ Quiet \/ UNCHANGED vars
  <2>1. UNCHANGED <<table, req, held>> /\ \A i \in Id : byId'[i] \in {byId[i], None}
    BY <1>3 DEF Expire, ExpireProduct, ExpireSku, ExpirePage, Quiet, vars, IInv, Types
  <2>. QED  BY <2>1, DropsSnapshots
<1>4. CASE Restart
  <2>1. UNCHANGED <<table, byId, req>> /\ \A q \in Request : held'[q] = None
    BY <1>4 DEF Restart, catalog
  <2>. QED  BY <2>1, DropsSnapshots
<1>. QED  BY <1>1, <1>2, <1>3, <1>4 DEF Next

(* The catalogue implements a store of snapshots: a saved product is new, or
   one command on one product of that id that once was in the table and was
   not deleted when it was loaded. *)
THEOREM SavesAreCommands == Spec => RowsAreCommands
<1>1. Init => Rows!Init
  BY DEF Init, Rows!Init, Snapshots
<1>2. IInv /\ [Next]_vars => [Rows!Next]_<<table, Snapshots>>
  <2>1. TakesSnapshots => Rows!Copy
    BY DEF TakesSnapshots, Rows!Copy
  <2>. QED  BY <2>1, StepSimulates DEF Rows!Next
<1>. QED
  BY <1>1, <1>2, InitInductive, StepInductive, PTL DEF Spec, RowsAreCommands, Rows!Spec

-----------------------------------------------------------------------------
(* Orderly use: one request is served at a time, and none is cut off between
   its save and the deletion of the entry of the product.  The hypothesis is
   on the callers, not on the code; SnapshotStore permits that an old copy is
   saved over a newer row, and what follows shows that overlap, and a fault
   of Redis, is all that can bring it about. *)

Served(r) == pc[r] \notin {"idle"} \cup Answered

OneAtATime == \A r, q \in Request : Served(r) /\ Served(q) => r = q

Orderly ==
    /\ OneAtATime'
    /\ restarts' # restarts => \A r \in Request : pc[r] # "delId"

(* Each copy of a product is its row, or its deletion comes next *)
CopiesCurrent ==
    /\ OneAtATime
    /\ \A i \in Id : \/ byId[i] \in {None, table[i]}
                     \/ \E r \in Request : pc[r] = "delId" /\ req[r].id = i
    /\ \A r \in Request : held[r] # None /\ req[r].op # "create" =>
         held[r] = table[req[r].id] /\ pc[r] \in {"fill", "act", "remove"}

(* One row at most is written, by one command on what it was *)
WritesRow(i) ==
    /\ table' = [table EXCEPT ![i] = table'[i]]
    /\ \/ table[i] = None /\ table'[i] \in {CreateProduct(j) : j \in ProductInfo}
       \/ /\ table[i] # None /\ table[i] \in ProductRecord /\ table'[i] \in ProductRecord
          /\ IsCommand(table[i], table'[i])

LEMMA Alone ==
    ASSUME IInv, CopiesCurrent, NEW r \in Request, Served(r)
    PROVE  /\ \A q \in Request \ {r} :
                ~ Served(q) /\ pc[q] # "delId" /\ (held[q] = None \/ req[q].op = "create")
           /\ \A i \in Id : byId[i] \in {None, table[i]} \/ (pc[r] = "delId" /\ req[r].id = i)
<1>1. \A q \in Request \ {r} : ~ Served(q) /\ pc[q] # "delId"
  BY DEF CopiesCurrent, OneAtATime, Served, Answered
<1>2. \A q \in Request \ {r} : held[q] = None \/ req[q].op = "create"
  BY <1>1 DEF CopiesCurrent, Served, Answered
<1>3. \A i \in Id : byId[i] \in {None, table[i]} \/ (pc[r] = "delId" /\ req[r].id = i)
  BY <1>1 DEF CopiesCurrent
<1>. QED  BY <1>1, <1>2, <1>3

LEMMA CurrentMove ==
    ASSUME IInv, CopiesCurrent, OneAtATime', NEW r \in Request, Served(r), NEW copy,
           UNCHANGED <<table, req>>,
           held' = [held EXCEPT ![r] = copy],
           \A i \in Id : byId'[i] \in {byId[i], None, table[i]},
           pc[r] = "delId" => byId'[req[r].id] = None,
           \/ copy = None \/ req[r].op = "create"
           \/ copy = table[req[r].id] /\ pc'[r] \in {"fill", "act", "remove"}
    PROVE  CopiesCurrent'
<1>1. \A q \in Request \ {r} : held[q] = None \/ req[q].op = "create"
  BY Alone
<1>2. \A i \in Id : byId[i] \in {None, table[i]} \/ (pc[r] = "delId" /\ req[r].id = i)
  BY Alone
<1>3. \A i \in Id : byId'[i] \in {None, table[i]}
  BY <1>2
<1>4. \A q \in Request : held'[q] # None /\ req[q].op # "create" =>
        held'[q] = table[req[q].id] /\ pc'[q] \in {"fill", "act", "remove"}
  BY <1>1 DEF IInv, Types
<1>. QED  BY <1>3, <1>4 DEF CopiesCurrent

LEMMA CurrentLookup ==
    ASSUME RedisFaults = FALSE, IInv, CopiesCurrent, OneAtATime', NEW r \in Request,
           CacheGet(r) \/ ReadRow(r) \/ Fill(r) \/ Fetch(r)
    PROVE  CopiesCurrent'
<1>. DEFINE id == req[r].id
<1>1. /\ Served(r) /\ pc[r] # "delId" /\ id \in Id /\ RedisUp = {TRUE}
      /\ byId[id] \in {None, table[id]}
      /\ UNCHANGED <<table, req>>
      /\ held \in [Request -> Copy] /\ byId \in [Id -> Copy] /\ pc \in [Request -> Place]
  <2>1. Served(r) /\ pc[r] # "delId" /\ UNCHANGED <<table, req>>
    BY DEF CacheGet, ReadRow, Fill, Fetch, Served, Answered, catalog
  <2>2. id \in Id
    BY DEF IInv, Types, Command
  <2>. QED  BY <2>1, <2>2, Alone DEF RedisUp, IInv, Types
<1>2. CASE CacheGet(r)
  <2>1. byId' = byId
    BY <1>2 DEF CacheGet, catalog
  <2>2. CASE req[r].op = "create"
    <3>1. held' = [held EXCEPT ![r] = held[r]]
      BY <1>1, <1>2, <2>2 DEF CacheGet
    <3>. QED  BY <1>1, <2>1, <2>2, <3>1, CurrentMove
  <2>3. CASE req[r].op # "create"
    <3>. DEFINE copy == IF req[r].op = "detail" THEN None ELSE byId[id]
    <3>1. /\ held' = [held EXCEPT ![r] = copy]
          /\ copy # None => pc'[r] = "act"
      BY <1>1, <1>2, <2>3 DEF CacheGet, Hold, Goto, AfterHit
    <3>2. copy = None \/ (copy = table[id] /\ pc'[r] \in {"fill", "act", "remove"})
      BY <1>1, <3>1
    <3>. HIDE DEF copy
    <3>. QED  BY <1>1, <2>1, <3>1, <3>2, CurrentMove
  <2>. QED  BY <2>2, <2>3
<1>3. CASE ReadRow(r)
  <2>1. PICK p \in Found(r) :
          Hold(r, p) /\ Goto(r, IF p = None THEN AfterMiss(req[r].op) ELSE "fill")
    BY <1>3 DEF ReadRow
  <2>2. p = None \/ req[r].op = "create" \/ p = table[id]
    <3>1. CASE req[r].op = "detail"
      BY <2>1, <3>1 DEF Found
    <3>2. CASE req[r].op \notin {"create", "detail"}
      BY <2>1, <3>2 DEF Found
    <3>. QED  BY <3>1, <3>2
  <2>3. byId' = byId /\ held' = [held EXCEPT ![r] = p] /\ (p # None => pc'[r] = "fill")
    BY <1>1, <1>3, <2>1 DEF ReadRow, Hold, Goto, catalog
  <2>. QED  BY <1>1, <2>2, <2>3, CurrentMove
<1>4. CASE Fill(r)
  <2>1. held[r] # None
    BY <1>4 DEF Fill, IInv, RowInv, Placed
  <2>2. req[r].op # "create" => held[r] = table[id]
    BY <2>1 DEF CopiesCurrent
  <2>3. \A i \in Id : byId'[i] \in {byId[i], None, table[i]}
    BY <1>1, <1>4, <2>2 DEF Fill
  <2>. DEFINE copy == IF req[r].op \in {"update", "delete"} THEN held[r] ELSE None
  <2>4. held' = [held EXCEPT ![r] = copy] /\ pc' = [pc EXCEPT ![r] = AfterFill(r)]
    BY <1>4 DEF Fill, Hold, Goto
  <2>5. copy # None => req[r].op # "create" /\ pc'[r] = "act"
    BY <1>1, <2>4 DEF AfterFill
  <2>6. copy = None \/ (copy = table[id] /\ pc'[r] \in {"fill", "act", "remove"})
    BY <2>2, <2>5
  <2>. HIDE DEF copy
  <2>. QED  BY <1>1, <2>3, <2>4, <2>6, CurrentMove
<1>5. CASE Fetch(r)
  <2>1. byId' = byId /\ req[r].op = "delete"
    BY <1>5 DEF Fetch, catalog, IInv, RowInv, Placed
  <2>2. CASE CanDelete(table[id])
    <3>1. held' = [held EXCEPT ![r] = table[id]] /\ pc'[r] = "remove"
      BY <1>1, <1>5, <2>2 DEF Fetch, Hold, Goto
    <3>. QED  BY <1>1, <2>1, <3>1, CurrentMove
  <2>3. CASE ~ CanDelete(table[id])
    <3>1. held' = [held EXCEPT ![r] = held[r]] /\ held[r] = None
      BY <1>1, <1>5, <2>1, <2>3 DEF Fetch, CopiesCurrent
    <3>. QED  BY <1>1, <2>1, <3>1, CurrentMove
  <2>. QED  BY <2>2, <2>3
<1>. QED  BY <1>2, <1>3, <1>4, <1>5

(* The upsert of what a request holds, which is the row *)
LEMMA SavesInOrder ==
    ASSUME IInv, CopiesCurrent, NEW r \in Request, Save(r) \/ Remove(r)
    PROVE  \/ UNCHANGED <<table, byId, req>>
           \/ WritesRow(req[r].id) /\ pc'[r] = "delId" /\ UNCHANGED <<byId, req>>
<1>. DEFINE id == req[r].id
<1>1. id \in Id /\ held[r] \in Copy /\ UNCHANGED <<byId, req>>
  BY DEF Save, Remove, IInv, Types, Command
<1>2. req[r].op # "create" /\ held[r] # None => held[r] = table[id]
  BY DEF CopiesCurrent
<1>3. CASE Remove(r)
  <2>1. /\ held[r] \in ProductRecord /\ held[r] # None /\ CanDelete(held[r])
        /\ req[r].op = "delete" /\ held[r].info \in ProductInfo
    BY <1>1, <1>3 DEF Remove, IInv, RowInv, Placed, Copy, ProductRecord
  <2>2. DeleteProduct(held[r]) \in ProductRecord
    BY <2>1, CommandsTyped
  <2>3. table' = [table EXCEPT ![id] = DeleteProduct(held[r])] /\ pc'[r] = "delId"
    BY <1>3 DEF Remove, Upsert, Goto, IInv, Types
  <2>4. table'[id] = DeleteProduct(held[r])
    BY <1>1, <2>3 DEF IInv, Types
  <2>. QED  BY <1>1, <1>2, <2>1, <2>2, <2>3, <2>4 DEF WritesRow, IsCommand
<1>4. CASE Save(r)
  <2>1. PICK p \in Saved(r) :
          \/ Upsert(r, p) /\ Goto(r, "delId")
          \/ UNCHANGED <<table, wrote>>
    BY <1>4 DEF Save
  <2>2. CASE Upsert(r, p) /\ Goto(r, "delId")
    <3>1. table' = [table EXCEPT ![id] = p] /\ table'[id] = p /\ pc'[r] = "delId"
      BY <1>1, <2>2 DEF Upsert, Goto, IInv, Types
    <3>2. CASE req[r].op = "create"
      <4>1. r \in ProductInfo /\ p = CreateProduct(r) /\ table[id] = None
        BY <1>4, <2>1, <3>2, ProductsAssumption DEF Save, Saved, Id, IInv, RowInv, Placed
      <4>. QED  BY <1>1, <3>1, <4>1 DEF WritesRow
    <3>3. CASE req[r].op = "update"
      <4>1. /\ held[r] \in ProductRecord /\ held[r] # None /\ CanModify(held[r])
            /\ held[r].info \in ProductInfo /\ r \in ProductInfo
        BY <1>1, <1>4, <3>3, ProductsAssumption DEF Save, Live, Copy, ProductRecord, Id
      <4>2. PICK i \in ProductInfo : p = SetInfo(held[r], i)
        BY <2>1, <3>3, <4>1 DEF Saved
      <4>3. p \in ProductRecord /\ IsCommand(held[r], p)
        BY <4>1, <4>2, CommandsTyped DEF IsCommand
      <4>. QED  BY <1>1, <1>2, <3>1, <3>3, <4>1, <4>3 DEF WritesRow
    <3>. QED  BY <1>4, <3>2, <3>3 DEF Save
  <2>. QED  BY <1>1, <2>1, <2>2
<1>. QED  BY <1>3, <1>4

LEMMA CurrentSave ==
    ASSUME IInv, CopiesCurrent, OneAtATime', NEW r \in Request, Save(r) \/ Remove(r)
    PROVE  CopiesCurrent'
<1>1. Served(r) /\ pc[r] # "delId"
  BY DEF Save, Remove, Served, Answered
<1>2. held' = [held EXCEPT ![r] = None] /\ req[r].id \in Id
  BY DEF Save, Remove, Hold, IInv, Types, Command
<1>3. CASE UNCHANGED <<table, byId, req>>
  BY <1>1, <1>2, <1>3, CurrentMove
<1>4. CASE WritesRow(req[r].id) /\ pc'[r] = "delId" /\ UNCHANGED <<byId, req>>
  <2>1. \A i \in Id \ {req[r].id} : byId'[i] \in {None, table'[i]}
    BY <1>1, <1>4, Alone DEF WritesRow, IInv, Types
  <2>2. \A q \in Request : held'[q] = None \/ req'[q].op = "create"
    BY <1>1, <1>2, <1>4, Alone DEF IInv, Types
  <2>. QED  BY <1>4, <2>1, <2>2 DEF CopiesCurrent
<1>. QED  BY <1>3, <1>4, SavesInOrder

LEMMA CurrentStep ==
    ASSUME RedisFaults = FALSE, IInv, CopiesCurrent, [Next]_vars, Orderly
    PROVE  CopiesCurrent'
<1>0. OneAtATime' /\ RedisUp = {TRUE}
  BY DEF Orderly, RedisUp
<1>1. ASSUME NEW r \in Request, Start(r)
      PROVE  CopiesCurrent'
  <2>1. pc[r] = "idle" /\ held[r] = None
    BY <1>1 DEF Start, IInv, RowInv, Placed
  <2>2. /\ UNCHANGED <<table, byId, held>>
        /\ \A q \in Request \ {r} : req'[q] = req[q] /\ pc'[q] = pc[q]
    BY <1>1 DEF Start, Goto, catalog, IInv, Types
  <2>3. \A i \in Id : \/ byId'[i] \in {None, table'[i]}
                      \/ \E q \in Request : pc'[q] = "delId" /\ req'[q].id = i
    <3>. SUFFICES ASSUME NEW i \in Id, byId[i] \notin {None, table[i]}
                  PROVE  \E q \in Request : pc'[q] = "delId" /\ req'[q].id = i
      BY <2>2
    <3>1. PICK q \in Request : pc[q] = "delId" /\ req[q].id = i
      BY DEF CopiesCurrent
    <3>. QED  BY <2>1, <2>2, <3>1
  <2>. QED  BY <1>0, <2>1, <2>2, <2>3 DEF CopiesCurrent
<1>2. ASSUME NEW r \in Request,
             \/ NotFound(r) \/ AskDelete(r) \/ InvalidateSku(r) \/ RaiseVersion(r)
             \/ ReadVersion(r) \/ ReadPage(r) \/ QueryList(r) \/ StorePage(r) \/ AnswerList(r)
      PROVE  CopiesCurrent'
  <2>1. /\ UNCHANGED <<table, byId, req>> /\ Served(r) /\ pc[r] \notin {"delId", "fill", "remove"}
        /\ held' = held \/ held' = [held EXCEPT ![r] = None]
        /\ held' = held => pc[r] # "act" \/ held[r] = None
    BY <1>2 DEF NotFound, AskDelete, InvalidateSku, RaiseVersion, ReadVersion, ReadPage,
       QueryList, StorePage, AnswerList, Hold, Served, Answered, catalog, IInv, Types
  <2>2. PICK copy : /\ held' = [held EXCEPT ![r] = copy]
                    /\ copy = None \/ req[r].op = "create"
    BY <2>1 DEF CopiesCurrent, IInv, Types
  <2>. QED  BY <1>0, <2>1, <2>2, CurrentMove
<1>3. ASSUME NEW r \in Request, InvalidateId(r)
      PROVE  CopiesCurrent'
  <2>1. /\ UNCHANGED <<table, req, held>> /\ Served(r) /\ req[r].id \in Id
        /\ byId' = [byId EXCEPT ![req[r].id] = None] /\ pc[r] = "delId"
    BY <1>0, <1>3 DEF InvalidateId, Served, Answered, IInv, Types, Command
  <2>2. held' = [held EXCEPT ![r] = held[r]] /\ (held[r] = None \/ req[r].op = "create")
    BY <2>1 DEF CopiesCurrent, IInv, Types
  <2>3. byId'[req[r].id] = None /\ \A i \in Id : byId'[i] \in {byId[i], None}
    BY <2>1 DEF IInv, Types
  <2>. QED  BY <1>0, <2>1, <2>2, <2>3, CurrentMove
<1>4. ASSUME Expire
      PROVE  CopiesCurrent'
  <2>1. /\ UNCHANGED <<table, req, held, pc>> /\ \A i \in Id : byId'[i] \in {byId[i], None}
    BY <1>4 DEF Expire, ExpireProduct, ExpireSku, ExpirePage, IInv, Types
  <2>. QED  BY <1>0, <2>1 DEF CopiesCurrent
<1>5. ASSUME Restart
      PROVE  CopiesCurrent'
  <2>1. /\ UNCHANGED <<table, byId, req>> /\ \A q \in Request : held'[q] = None
        /\ \A q \in Request : pc[q] # "delId"
    BY <1>5 DEF Restart, Orderly, catalog, IInv, Types
  <2>. QED  BY <1>0, <2>1 DEF CopiesCurrent
<1>6. ASSUME UNCHANGED vars
      PROVE  CopiesCurrent'
  BY <1>0, <1>6 DEF vars, CopiesCurrent
<1>. QED
  BY <1>0, <1>1, <1>2, <1>3, <1>4, <1>5, <1>6, CurrentLookup, CurrentSave
     DEF Next, RequestStep, Quiet

OrderlyInv == IInv /\ CopiesCurrent

LEMMA InitOrderly == Init => OrderlyInv
<1>1. Init => CopiesCurrent
  BY DEF Init, CopiesCurrent, OneAtATime, Served
<1>. QED  BY <1>1, InitInductive DEF OrderlyInv

LEMMA OrderlyStep ==
    ASSUME RedisFaults = FALSE
    PROVE  OrderlyInv /\ [Next]_vars /\ [Orderly]_vars => OrderlyInv'
<1>1. OrderlyInv /\ UNCHANGED vars => CopiesCurrent'
  BY DEF vars, OrderlyInv, CopiesCurrent, OneAtATime, Served
<1>. QED  BY <1>1, StepInductive, CurrentStep DEF OrderlyInv

LEMMA NextInOrder ==
    ASSUME OrderlyInv, [Next]_vars
    PROVE  table' = table \/ \E i \in Id : WritesRow(i)
<1>1. ASSUME NEW r \in Request, Save(r) \/ Remove(r)
      PROVE  table' = table \/ \E i \in Id : WritesRow(i)
  <2>1. req[r].id \in Id
    BY DEF OrderlyInv, IInv, Types, Command
  <2>. QED  BY <1>1, <2>1, SavesInOrder DEF OrderlyInv
<1>. QED
  BY <1>1 DEF Next, RequestStep, Start, CacheGet, ReadRow, Fill, NotFound, AskDelete, Fetch,
     InvalidateId, InvalidateSku, RaiseVersion, ReadVersion, ReadPage, QueryList, StorePage,
     AnswerList, Expire, ExpireProduct, ExpireSku, ExpirePage, Restart, Quiet, catalog, vars

(* Where requests do not overlap and Redis answers, no update of a product is
   lost: each save is one command on the row that is there ... *)
THEOREM OrderlySavesAtomic ==
    ASSUME RedisFaults = FALSE
    PROVE  Spec /\ [][Orderly]_vars => Rows!AtomicSpec
<1>1. Init => table \in InitialTables
  BY DEF Init
<1>2. ASSUME NEW i \in Id, WritesRow(i)
      PROVE  Rows!AtomicWrite(i)
  <2>1. CASE table[i] = None /\ table'[i] \in {CreateProduct(j) : j \in ProductInfo}
    BY <1>2, <2>1 DEF WritesRow, Rows!AtomicWrite
  <2>2. CASE /\ table[i] # None /\ table[i] \in ProductRecord /\ table'[i] \in ProductRecord
             /\ IsCommand(table[i], table'[i])
    <3>1. <<table[i], table'[i]>> \in {c \in ProductRecord \X ProductRecord : IsCommand(c[1], c[2])}
      BY <2>2
    <3>. QED  BY <1>2, <2>2, <3>1 DEF WritesRow, Rows!AtomicWrite
  <2>. QED  BY <1>2, <2>1, <2>2 DEF WritesRow
<1>3. OrderlyInv /\ [Next]_vars => [Rows!AtomicNext]_table
  BY <1>2, NextInOrder DEF Rows!AtomicNext
<1>. QED  BY <1>1, <1>3, InitOrderly, OrderlyStep, PTL DEF Spec, Rows!AtomicSpec

(* ... and a deleted product stays deleted. *)
THEOREM OrderlyDeletedStays ==
    ASSUME RedisFaults = FALSE
    PROVE  Spec /\ [][Orderly]_vars => DeletedStaysDeleted
<1>. DEFINE A == \A i \in Existing : table[i].status = "DELETED" => table'[i] = table[i]
<1>1. ASSUME OrderlyInv, NEW j \in Id, WritesRow(j)
      PROVE  A
  <2>1. table[j] = None \/ table[j].status # "DELETED"
    BY <1>1 DEF WritesRow, IsCommand, CanModify, CanDelete
  <2>2. \A i \in Id \ {j} : table'[i] = table[i]
    BY <1>1 DEF WritesRow, OrderlyInv, IInv, Types
  <2>. QED  BY <2>1, <2>2 DEF Existing
<1>2. OrderlyInv /\ [Next]_vars => A
  <2>1. table' = table => A
    BY DEF Existing
  <2>. QED  BY <1>1, <2>1, NextInOrder
<1>. QED  BY <1>2, InitOrderly, OrderlyStep, PTL DEF Spec, DeletedStaysDeleted

-----------------------------------------------------------------------------
(* How many steps of its own a request has ahead of it at most: ten, for a
   deletion that finds nothing in the cache *)
Ahead(place) ==
    CASE place \in Answered -> 0
      [] place \in {"incr", "answer"} -> 1
      [] place \in {"delSku", "store"} -> 2
      [] place \in {"delId", "query"} -> 3
      [] place \in {"remove", "page"} -> 4
      [] place \in {"fetch", "version"} -> 5
      [] place = "act" -> 6
      [] place = "fill" -> 7
      [] place = "read" -> 8
      [] place = "get" -> 9
      [] place = "idle" -> 10

LEMMA RequestMoves ==
    ASSUME Types, NEW r \in Request, Start(r) \/ RequestStep(r)
    PROVE  Ahead(pc[r])' < Ahead(pc[r])
<1>1. PICK place \in Place :
        /\ pc' = [pc EXCEPT ![r] = place]
        /\ \/ pc[r] = "idle" /\ place \in {"version", "get"}
           \/ pc[r] = "get" /\ place \in {"read", "act", "failed"}
           \/ pc[r] = "read" /\ place \in {"act", "failed", "fill"}
           \/ pc[r] = "fill" /\ place \in {"act", "done", "failed"}
           \/ pc[r] = "act" /\ place \in {"fetch", "delId", "failed"}
           \/ pc[r] = "fetch" /\ place \in {"remove", "failed"}
           \/ pc[r] = "remove" /\ place = "delId"
           \/ pc[r] = "delId" /\ place = "delSku"
           \/ pc[r] = "delSku" /\ place = "incr"
           \/ pc[r] = "incr" /\ place = "done"
           \/ pc[r] = "version" /\ place = "page"
           \/ pc[r] = "page" /\ place \in {"query", "answer"}
           \/ pc[r] = "query" /\ place = "store"
           \/ pc[r] = "store" /\ place = "answer"
           \/ pc[r] = "answer" /\ place = "done"
  <2>1. CASE Start(r)
    BY <2>1 DEF Start, Goto, Place
  <2>2. CASE CacheGet(r) \/ ReadRow(r) \/ Fill(r)
    BY <2>2 DEF CacheGet, ReadRow, Fill, AfterHit, AfterMiss, AfterFill, Goto, Place
  <2>3. CASE NotFound(r) \/ Save(r) \/ AskDelete(r) \/ Fetch(r) \/ Remove(r)
    BY <2>3 DEF NotFound, Save, AskDelete, Fetch, Remove, Goto, Place
  <2>4. CASE \/ InvalidateId(r) \/ InvalidateSku(r) \/ RaiseVersion(r)
             \/ ReadVersion(r) \/ ReadPage(r) \/ QueryList(r) \/ StorePage(r)
             \/ AnswerList(r)
    BY <2>4 DEF InvalidateId, InvalidateSku, RaiseVersion, ReadVersion, ReadPage, QueryList,
       StorePage, AnswerList, Goto, Place
  <2>. QED  BY <2>1, <2>2, <2>3, <2>4 DEF RequestStep
<1>2. pc'[r] = place
  BY <1>1 DEF Types
<1>. QED  BY <1>1, <1>2 DEF Ahead, Answered

(* No product request goes round in circles, whatever it meets: every step of
   it brings it nearer to its answer, and nothing else takes it further away.
   With the fairness of FairSpec that is why every request is answered. *)
THEOREM RequestsMoveOn ==
    Spec => [][\A r \in Request :
                 /\ Ahead(pc[r])' <= Ahead(pc[r])
                 /\ Start(r) \/ RequestStep(r) => Ahead(pc[r])' < Ahead(pc[r])]_vars
<1>. DEFINE A == \A r \in Request :
                   /\ Ahead(pc[r])' <= Ahead(pc[r])
                   /\ Start(r) \/ RequestStep(r) => Ahead(pc[r])' < Ahead(pc[r])
<1>1. ASSUME IInv, [Next]_vars, NEW r \in Request
      PROVE  Ahead(pc[r])' <= Ahead(pc[r])
  <2>1. Ahead(pc[r]) \in Nat
    BY <1>1 DEF Ahead, Answered, Place, IInv, Types
  <2>2. Ahead(pc[r])' \in Nat
    BY <1>1, StepInductive DEF Ahead, Answered, Place, IInv, Types
  <2>3. CASE UNCHANGED pc[r]
    BY <1>1, <2>1, <2>3 DEF Ahead, Answered, Place, IInv, Types
  <2>4. CASE Restart
    <3>1. pc'[r] = IF pc[r] \in {"idle"} \cup Answered THEN pc[r] ELSE "failed"
      BY <2>4 DEF Restart
    <3>2. CASE pc[r] \notin {"idle"} \cup Answered
      <4>1. Ahead(pc[r])' = 0
        BY <3>1, <3>2 DEF Ahead, Answered
      <4>. QED  BY <2>1, <4>1
    <3>. QED  BY <2>3, <3>1, <3>2
  <2>5. ASSUME NEW q \in Request, q # r, Start(q) \/ RequestStep(q)
        PROVE  UNCHANGED pc[r]
    BY <1>1, <2>5 DEF Start, RequestStep, CacheGet, ReadRow, Fill, NotFound, Save, AskDelete,
       Fetch, Remove, InvalidateId, InvalidateSku, RaiseVersion, ReadVersion, ReadPage,
       QueryList, StorePage, AnswerList, Goto, IInv, Types
  <2>6. CASE Start(r) \/ RequestStep(r)
    BY <1>1, <2>1, <2>2, <2>6, RequestMoves DEF IInv
  <2>. QED
    BY <1>1, <2>3, <2>4, <2>5, <2>6
       DEF Next, Expire, ExpireProduct, ExpireSku, ExpirePage, Quiet, vars
<1>2. IInv /\ [Next]_vars => A
  BY <1>1, RequestMoves DEF IInv
<1>. QED  BY <1>2, InitInductive, StepInductive, PTL DEF Spec
=============================================================================
