--------------------------- MODULE ProfilesProofs ---------------------------
(***************************************************************************)
(* Profiles for every number of requests and restarts: unless a logout     *)
(* writes back a copy from before the verification, no mixture of what the *)
(* two modules save locks an account out; and where calls do not overlap,  *)
(* nothing does, and no module takes back what the other has saved.  Why a *)
(* cache entry may be old, and that every step of a request brings it      *)
(* nearer to its end.                                                      *)
(***************************************************************************)
EXTENDS Profiles, TLAPS

(* The operations that read an account in order to write its users columns *)
ProfileOp == {"patch", "me", "avatar"}

Underway == {"get", "read", "fill", "act"}

-----------------------------------------------------------------------------
(* Types *)

AccountTyped ==
    /\ row \in Row
    /\ \A k \in AuthKey : cache[k] \in AuthCopy \cup {None}
    /\ \A k \in UserKey : cache[k] \in UserCopy \cup {None}
    /\ DOMAIN cache = Key
    /\ pending \in Nat
    /\ signedIn \in BOOLEAN
    /\ recalled \in BOOLEAN
    /\ restarts \in 0 .. MaxRestarts

RequestsTyped ==
    /\ pc \in [Request -> Place]
    /\ req \in [Request -> Op]
    /\ DOMAIN held = Request
    /\ \A r \in Request : held[r] \in CopyFor(req[r])

(* A request holds a copy from its lookup to its save *)
HeldInv ==
    \A r \in Request :
      /\ held[r] # None <=> pc[r] \in {"fill", "act"}
      /\ pc[r] = "act" => req[r] \notin {"me", "detail"}

(* ProfilesTypeOK but for the history of missed deletions, on which nothing else
   depends *)
Types ==
    /\ row \in Row
    /\ \A k \in AuthKey : cache[k] \in AuthCopy \cup {None}
    /\ \A k \in UserKey : cache[k] \in UserCopy \cup {None}
    /\ DOMAIN cache = Key
    /\ pending \in Nat
    /\ signedIn \in BOOLEAN
    /\ recalled \in BOOLEAN
    /\ pc \in [Request -> Place]
    /\ req \in [Request -> Op]
    /\ DOMAIN held = Request
    /\ \A r \in Request : held[r] \in CopyFor(req[r])
    /\ restarts \in 0 .. MaxRestarts

TypeInv == Types /\ HeldInv

LEMMA TypesSplit == Types <=> AccountTyped /\ RequestsTyped
BY DEF Types, AccountTyped, RequestsTyped

LEMMA KeysByModule ==
    ASSUME NEW op \in Op
    PROVE  /\ KeyOf(op) \in Key
           /\ op \in AuthOp => KeyOf(op) \in AuthKey /\ KeyOf(op) \notin UserKey
           /\ op \notin AuthOp => KeyOf(op) \in UserKey /\ KeyOf(op) \notin AuthKey
           /\ KeyOf(op) = "profile" <=> op \in ProfileOp
BY DEF Op, UseCase, KeyOf, Key, AuthKey, UserKey, AuthOp, ProfileOp

LEMMA CopiesAreNot == None \notin UserCopy /\ None \notin AuthCopy
BY ProfilesAssumption

LEMMA ColumnsTyped ==
    ASSUME AccountTyped, NEW op \in Op
    PROVE  /\ Columns(KeyOf(op)) \in CopyFor(op)
           /\ Columns(KeyOf(op)) # None
           /\ Columns(KeyOf(op)).name = row.name
           /\ Columns(KeyOf(op)).status = row.status
           /\ op \in AuthOp => Columns(KeyOf(op)).verified = row.verified
           /\ op \notin AuthOp => Columns(KeyOf(op)).profile = row.profile
<1>1. row \in Row
  BY DEF AccountTyped
<1>2. CASE op \in AuthOp
  <2>1. Columns(KeyOf(op)) =
          [name |-> row.name, status |-> row.status, verified |-> row.verified]
    BY <1>2, KeysByModule DEF Columns
  <2>2. Columns(KeyOf(op)) \in AuthCopy
    BY <1>1, <2>1 DEF Row, AuthCopy
  <2>. QED  BY <1>2, <2>1, <2>2, CopiesAreNot DEF CopyFor
<1>3. CASE op \notin AuthOp
  <2>1. Columns(KeyOf(op)) =
          [name |-> row.name, status |-> row.status, profile |-> row.profile]
    BY <1>3, KeysByModule DEF Columns
  <2>2. Columns(KeyOf(op)) \in UserCopy
    BY <1>1, <2>1 DEF Row, UserCopy
  <2>. QED  BY <1>3, <2>1, <2>2, CopiesAreNot DEF CopyFor
<1>. QED  BY <1>2, <1>3

(* Answering drops what the request held *)
LEMMA AnswerTyped ==
    ASSUME RequestsTyped, HeldInv, NEW r \in Request, Answer(r)
    PROVE  RequestsTyped' /\ HeldInv'
BY DEF Answer, Goto, Hold, RequestsTyped, HeldInv, Place, Op, UseCase, CopyFor

(* Going on with a copy, or answering with it *)
LEMMA LoadedTyped ==
    ASSUME RequestsTyped, HeldInv, NEW r \in Request,
           NEW copy \in CopyFor(req[r]), copy # None, Loaded(r, copy)
    PROVE  RequestsTyped' /\ HeldInv'
<1>1. CASE req[r] \in {"me", "detail"}
  BY <1>1, AnswerTyped DEF Loaded
<1>2. CASE req[r] \notin {"me", "detail"}
  BY <1>2 DEF Loaded, Goto, Hold, RequestsTyped, HeldInv, Place
<1>. QED  BY <1>1, <1>2

LEMMA EntryTyped ==
    ASSUME AccountTyped, NEW op \in Op
    PROVE  cache[KeyOf(op)] \in CopyFor(op)
BY KeysByModule DEF AccountTyped, CopyFor

LEMMA FillTyped ==
    ASSUME AccountTyped, NEW op \in Op, NEW copy \in CopyFor(op),
           cache' = [cache EXCEPT ![KeyOf(op)] = copy],
           UNCHANGED <<row, pending, signedIn, recalled, restarts>>
    PROVE  AccountTyped'
BY KeysByModule DEF AccountTyped, CopyFor, Key, AuthKey, UserKey

(* What a save of the users module leaves, and when it is silent *)
LEMMA ProfileSaved ==
    ASSUME TypeInv, NEW r \in Request, SaveProfile(r)
    PROVE  /\ req[r] \in {"patch", "avatar"} /\ pc[r] = "act" /\ held[r] \in UserCopy
           /\ row'.name = held[r].name \/ (row'.name = r /\ req[r] = "patch")
           /\ row'.profile \in {held[r].profile, r}
           /\ row'.status = held[r].status /\ row'.verified = row.verified
           /\ \/ pending' = pending + 1
              \/ /\ pending' = pending
                 /\ row'.name = held[r].name /\ row'.profile = held[r].profile
           /\ row' \in Row /\ pending' \in Nat
<1>1. req[r] \in {"patch", "avatar"} /\ pc[r] = "act"
  BY DEF SaveProfile
<1>2. held[r] \in UserCopy /\ r \in Writer /\ row \in Row /\ pending \in Nat
  BY <1>1 DEF TypeInv, Types, HeldInv, CopyFor, AuthOp, Writer
<1>3. PICK name \in IF req[r] = "patch" THEN {held[r].name, r} ELSE {held[r].name},
           profile \in {held[r].profile, r} :
        /\ row' = [row EXCEPT !.name = name, !.status = held[r].status,
                              !.profile = profile]
        /\ pending' = IF name = held[r].name /\ profile = held[r].profile
                      THEN pending ELSE pending + 1
  BY DEF SaveProfile
<1>4. held[r].name \in Writer /\ held[r].profile \in Writer /\ held[r].status \in UserStatus
  BY <1>2 DEF UserCopy
<1>5. name \in Writer /\ profile \in Writer /\ pending' \in Nat
  BY <1>2, <1>3, <1>4
<1>6. /\ row' \in Row /\ row'.name = name /\ row'.profile = profile
      /\ row'.status = held[r].status /\ row'.verified = row.verified
  BY <1>2, <1>3, <1>4, <1>5 DEF Row
<1>. QED  BY <1>1, <1>2, <1>3, <1>5, <1>6

(* What a save of the auth module leaves *)
LEMMA AuthSaved ==
    ASSUME TypeInv, NEW r \in Request, SaveAuth(r)
    PROVE  /\ req[r] \in AuthOp /\ pc[r] = "act" /\ held[r] \in AuthCopy /\ Permitted(r)
           /\ row' \in Row /\ pending' = pending + 1 /\ pending' \in Nat
           /\ row'.name = held[r].name /\ row'.profile = row.profile
           /\ row'.status = IF req[r] = "verify" THEN "active" ELSE held[r].status
           /\ row'.verified = (req[r] = "verify" \/ held[r].verified)
<1>1. /\ req[r] \in AuthOp /\ pc[r] = "act" /\ held[r] \in AuthCopy
      /\ row \in Row /\ pending \in Nat
  BY DEF SaveAuth, TypeInv, Types, HeldInv, CopyFor
<1>. DEFINE status == IF req[r] = "verify" THEN "active" ELSE held[r].status
            verified == req[r] = "verify" \/ held[r].verified
<1>2. /\ row' = [row EXCEPT !.name = held[r].name, !.status = status, !.verified = verified]
      /\ pending' = pending + 1 /\ Permitted(r)
  BY DEF SaveAuth
<1>3. held[r].name \in Writer /\ status \in UserStatus /\ verified \in BOOLEAN
  BY <1>1 DEF AuthCopy, UserStatus
<1>4. row'.verified = verified
  BY <1>1, <1>2, <1>3 DEF Row
<1>. HIDE DEF status, verified
<1>5. /\ row' \in Row /\ row'.name = held[r].name /\ row'.profile = row.profile
      /\ row'.status = status
  BY <1>1, <1>2, <1>3 DEF Row
<1>. QED  BY <1>1, <1>2, <1>4, <1>5 DEF status, verified

LEMMA InitTyped == Init => TypeInv
<1>. SUFFICES ASSUME Init PROVE TypeInv
  OBVIOUS
<1>1. row \in Row /\ signedIn \in BOOLEAN
  BY DEF Init, Row, Writer, UserStatus
<1>2. AccountTyped
  <2>1. restarts \in 0 .. MaxRestarts
    BY ProfilesAssumption DEF Init
  <2>2. cache = [k \in Key |-> None] /\ AuthKey \subseteq Key /\ UserKey \subseteq Key
    BY DEF Init, Key
  <2>. QED  BY <1>1, <2>1, <2>2 DEF Init, AccountTyped
<1>3. RequestsTyped /\ HeldInv
  BY DEF Init, RequestsTyped, HeldInv, Place, Op, UseCase, CopyFor
<1>. QED  BY <1>2, <1>3, TypesSplit DEF TypeInv

LEMMA StepTyped == TypeInv /\ [Next]_vars => TypeInv'
<1>. SUFFICES ASSUME TypeInv, [Next]_vars PROVE TypeInv'
  OBVIOUS
<1>. USE ProfilesAssumption
<1>0. AccountTyped /\ RequestsTyped /\ HeldInv
  BY TypesSplit DEF TypeInv
<1>1. SUFFICES AccountTyped' /\ RequestsTyped' /\ HeldInv'
  BY TypesSplit DEF TypeInv, Types, AccountTyped, RequestsTyped
<1>2. ASSUME NEW r \in Request, Start(r)
      PROVE  AccountTyped' /\ RequestsTyped' /\ HeldInv'
  <2>1. PICK op \in Ops : MayCall(op) /\ req' = [req EXCEPT ![r] = op]
    BY <1>2 DEF Start
  <2>2. op \in Op /\ op # "avatar" /\ pc[r] = "idle" /\ held[r] = None
    BY <1>0, <1>2 DEF Start, Op, UseCase, HeldInv
  <2>3. AccountTyped'
    BY <1>0, <1>2 DEF Start, account, AccountTyped
  <2>4. RequestsTyped' /\ HeldInv'
    BY <1>0, <1>2, <2>1, <2>2 DEF Start, Goto, RequestsTyped, HeldInv, Place, CopyFor
  <2>. QED  BY <2>3, <2>4
<1>3. ASSUME NEW r \in Request, CacheGet(r)
      PROVE  AccountTyped' /\ RequestsTyped' /\ HeldInv'
  <2>1. PICK up \in BOOLEAN :
          LET copy == IF up THEN cache[KeyOf(req[r])] ELSE None
          IN  IF copy = None THEN Goto(r, "read") /\ UNCHANGED <<req, held>>
              ELSE Loaded(r, copy)
    BY <1>3 DEF CacheGet, RedisUp
  <2>2. pc[r] = "get" /\ req[r] \in Op /\ AccountTyped'
    BY <1>0, <1>3 DEF CacheGet, account, AccountTyped, RequestsTyped
  <2>3. CASE up /\ cache[KeyOf(req[r])] # None
    BY <1>0, <2>1, <2>2, <2>3, EntryTyped, LoadedTyped
  <2>4. CASE ~ (up /\ cache[KeyOf(req[r])] # None)
    BY <1>0, <2>1, <2>2, <2>4 DEF Goto, RequestsTyped, HeldInv, Place
  <2>. QED  BY <2>3, <2>4
<1>4. ASSUME NEW r \in Request, ReadRow(r)
      PROVE  AccountTyped' /\ RequestsTyped' /\ HeldInv'
  <2>. DEFINE copy == Columns(KeyOf(req[r]))
  <2>1. req[r] \in Op /\ pc[r] = "read" /\ AccountTyped'
    BY <1>0, <1>4 DEF ReadRow, account, AccountTyped, RequestsTyped
  <2>2. copy \in CopyFor(req[r]) /\ copy # None
    BY <1>0, <2>1, ColumnsTyped
  <2>3. /\ pc' = [pc EXCEPT ![r] = "fill"] /\ held' = [held EXCEPT ![r] = copy]
        /\ req' = req
    BY <1>4 DEF ReadRow, Goto, Hold
  <2>. HIDE DEF copy
  <2>4. RequestsTyped' /\ HeldInv'
    BY <1>0, <2>2, <2>3 DEF RequestsTyped, HeldInv, Place
  <2>. QED  BY <2>1, <2>4
<1>5. ASSUME NEW r \in Request, Fill(r)
      PROVE  AccountTyped' /\ RequestsTyped' /\ HeldInv'
  <2>1. pc[r] = "fill" /\ req[r] \in Op /\ held[r] # None /\ held[r] \in CopyFor(req[r])
    BY <1>0, <1>5 DEF Fill, RequestsTyped, HeldInv
  <2>2. /\ cache' = cache \/ cache' = [cache EXCEPT ![KeyOf(req[r])] = held[r]]
        /\ UNCHANGED <<row, pending, signedIn, recalled, restarts>>
    BY <1>5 DEF Fill, RedisUp
  <2>3. AccountTyped'
    BY <1>0, <2>1, <2>2, FillTyped DEF AccountTyped
  <2>4. RequestsTyped' /\ HeldInv'
    BY <1>0, <1>5, <2>1, LoadedTyped DEF Fill
  <2>. QED  BY <2>3, <2>4
<1>6. ASSUME NEW r \in Request, EndUnsaved(r)
      PROVE  AccountTyped' /\ RequestsTyped' /\ HeldInv'
  BY <1>0, <1>6, AnswerTyped DEF EndUnsaved, account, AccountTyped
<1>7. ASSUME NEW r \in Request, SaveAuth(r)
      PROVE  AccountTyped' /\ RequestsTyped' /\ HeldInv'
  <2>3. AccountTyped'
    BY <1>0, <1>7, AuthSaved DEF SaveAuth, AccountTyped
  <2>4. CASE Answer(r)
    BY <1>0, <2>3, <2>4, AnswerTyped
  <2>5. CASE /\ req' = [req EXCEPT ![r] = "avatar"]
             /\ Goto(r, "get")
             /\ Hold(r, None)
    BY <1>0, <2>3, <2>5 DEF Goto, Hold, RequestsTyped, HeldInv, Place, Op, CopyFor
  <2>. QED  BY <1>7, <2>4, <2>5 DEF SaveAuth
<1>8. ASSUME NEW r \in Request, SaveProfile(r)
      PROVE  AccountTyped' /\ RequestsTyped' /\ HeldInv'
  <2>3. AccountTyped'
    BY <1>0, <1>8, ProfileSaved DEF SaveProfile, AccountTyped
  <2>. QED  BY <1>0, <1>8, <2>3, AnswerTyped DEF SaveProfile
<1>9. ASSUME InvalidateUserCache
      PROVE  AccountTyped' /\ RequestsTyped' /\ HeldInv'
  BY <1>0, <1>9 DEF InvalidateUserCache, AccountTyped, RequestsTyped, HeldInv, Key
<1>10. ASSUME NEW k \in Key, ExpireEntry(k)
       PROVE  AccountTyped' /\ RequestsTyped' /\ HeldInv'
  BY <1>0, <1>10 DEF ExpireEntry, AccountTyped, RequestsTyped, HeldInv
<1>11. ASSUME Restart
       PROVE  AccountTyped' /\ RequestsTyped' /\ HeldInv'
  BY <1>0, <1>11
     DEF Restart, AccountTyped, RequestsTyped, HeldInv, Place, Op, UseCase, CopyFor
<1>12. ASSUME UNCHANGED vars
       PROVE  AccountTyped' /\ RequestsTyped' /\ HeldInv'
  BY <1>0, <1>12 DEF vars, AccountTyped, RequestsTyped, HeldInv
<1>. QED
  BY <1>2, <1>3, <1>4, <1>5, <1>6, <1>7, <1>8, <1>9, <1>10, <1>11, <1>12
     DEF Next, RequestStep, Quiet

-----------------------------------------------------------------------------
(* Old cache entries.  A save of either module leaves its event to the listener,
   which deletes the entries of both; a save without one is counted. *)
OldInv == missed \subseteq Key /\ OldEntriesExplained

LEMMA InitOld == Init => OldInv
BY DEF Init, OldInv, OldEntriesExplained, Old

(* A step that writes no row, stores no entry and leaves the listener what it has *)
LEMMA OldStays ==
    ASSUME OldInv, UNCHANGED <<row, cache, missed>>, pending' = pending
    PROVE  OldInv'
BY DEF OldInv, OldEntriesExplained, Old, Columns

LEMMA OldFilled ==
    ASSUME TypeInv, OldInv, NEW r \in Request, Fill(r)
    PROVE  OldInv'
<1>1. UNCHANGED <<row, pending>> /\ DOMAIN cache = Key /\ req[r] \in Op
  BY DEF Fill, TypeInv, Types
<1>2. PICK k \in Key : k = KeyOf(req[r])
  BY <1>1, KeysByModule
<1>3. \A key : Columns(key)' = Columns(key)
  BY <1>1 DEF Columns
<1>4. CASE UNCHANGED <<cache, missed>>
  BY <1>1, <1>4, OldStays
<1>5. CASE ~ UNCHANGED <<cache, missed>>
  <2>1. /\ cache' = [cache EXCEPT ![k] = held[r]]
        /\ missed' = IF held[r] = Columns(k) THEN missed \ {k} ELSE missed \cup {k}
    BY <1>2, <1>5 DEF Fill
  <2>2. missed' \subseteq Key /\ \A j \in Key \ {k} : j \in missed => j \in missed'
    BY <2>1 DEF OldInv
  <2>3. Old(k)' => k \in missed'
    BY <1>1, <1>3, <2>1 DEF Old
  <2>4. \A j \in Key \ {k} : Old(j)' = Old(j)
    BY <1>1, <1>3, <2>1 DEF Old
  <2>. QED  BY <1>1, <2>2, <2>3, <2>4 DEF OldInv, OldEntriesExplained
<1>. QED  BY <1>4, <1>5

LEMMA OldSaved ==
    ASSUME TypeInv, OldInv, NEW r \in Request, SaveAuth(r) \/ SaveProfile(r)
    PROVE  OldInv'
<1>1. UNCHANGED cache /\ pending \in Nat
  BY DEF SaveAuth, SaveProfile, TypeInv, Types
<1>2. \/ pending' = pending + 1 /\ missed' = missed
      \/ missed' = missed \cup LeftOld
  BY DEF SaveAuth, SaveProfile
<1>3. CASE pending' = pending + 1 /\ missed' = missed
  BY <1>1, <1>3 DEF OldInv, OldEntriesExplained
<1>4. CASE missed' = missed \cup LeftOld
  BY <1>1, <1>4 DEF OldInv, OldEntriesExplained, LeftOld, Old
<1>. QED  BY <1>2, <1>3, <1>4

LEMMA OldAround ==
    ASSUME TypeInv, OldInv,
           InvalidateUserCache \/ Restart \/ \E k \in Key : ExpireEntry(k)
    PROVE  OldInv'
<1>1. \A key : Columns(key)' = Columns(key)
  BY DEF InvalidateUserCache, Restart, ExpireEntry, Columns
<1>2. CASE InvalidateUserCache
  <2>1. PICK lost \in SUBSET Key :
          /\ cache' = [k \in Key |-> IF k \in lost THEN cache[k] ELSE None]
          /\ missed' = {k \in lost : k \in missed \/ Old(k)}
    BY <1>2 DEF InvalidateUserCache
  <2>. QED  BY <1>1, <2>1 DEF OldInv, OldEntriesExplained, Old
<1>3. CASE Restart
  <2>1. /\ UNCHANGED cache /\ pending \in Nat
        /\ missed' = IF pending > 0 THEN missed \cup {k \in Key : Old(k)} ELSE missed
    BY <1>3 DEF Restart, TypeInv, Types
  <2>. QED  BY <1>1, <2>1 DEF OldInv, OldEntriesExplained, Old
<1>4. ASSUME NEW k \in Key, ExpireEntry(k)
      PROVE  OldInv'
  <2>1. /\ cache' = [cache EXCEPT ![k] = None] /\ missed' = missed \ {k}
        /\ pending' = pending /\ DOMAIN cache = Key
    BY <1>4 DEF ExpireEntry, TypeInv, Types
  <2>2. ~ Old(k)' /\ \A j \in Key \ {k} : Old(j)' = Old(j)
    BY <1>1, <2>1 DEF Old
  <2>. QED  BY <2>1, <2>2 DEF OldInv, OldEntriesExplained
<1>. QED  BY <1>2, <1>3, <1>4

LEMMA OldStep == TypeInv /\ OldInv /\ [Next]_vars => OldInv'
<1>. SUFFICES ASSUME TypeInv, OldInv, [Next]_vars PROVE OldInv'
  OBVIOUS
<1>1. ASSUME NEW r \in Request, Start(r) \/ CacheGet(r) \/ ReadRow(r) \/ EndUnsaved(r)
      PROVE  OldInv'
  BY <1>1, OldStays DEF Start, CacheGet, ReadRow, EndUnsaved, account
<1>2. CASE Quiet \/ UNCHANGED vars
  BY <1>2, OldStays DEF Quiet, vars
<1>. QED  BY <1>1, <1>2, OldFilled, OldSaved, OldAround DEF Next, RequestStep

(* The states have the types they are given. *)
THEOREM ProfilesTyped == Spec => []ProfilesTypeOK
<1>1. TypeInv /\ OldInv => ProfilesTypeOK
  BY DEF TypeInv, OldInv, Types, ProfilesTypeOK
<1>. QED  BY <1>1, InitTyped, StepTyped, InitOld, OldStep, PTL DEF Spec

(* For any number of requests and restarts, an entry of either module that is old
   is one that the listener will still delete, or one whose fill was overtaken,
   whose deletion Redis lost or died with the process, or that a save without an
   event has left behind. *)
THEOREM OldEntriesAreExplained == Spec => []OldEntriesExplained
<1>1. OldInv => OldEntriesExplained
  BY DEF OldInv
<1>. QED  BY <1>1, InitTyped, StepTyped, InitOld, OldStep, PTL DEF Spec

-----------------------------------------------------------------------------
(* Verified accounts are active and active ones verified, in every copy that
   auth has; and the users module reads accounts only once they are active,
   so what it writes back is not the status of before. *)
Agrees(u) == u.verified <=> u.status = "active"

CopyAgrees(op, copy) ==
    IF op \in AuthOp THEN Agrees(copy)
    ELSE op \in ProfileOp => copy.status = "active"

CacheAgrees ==
    /\ \A k \in AuthKey : cache[k] # None => Agrees(cache[k])
    /\ cache["profile"] # None => cache["profile"].status = "active"

StatusInv ==
    /\ Agrees(row)
    /\ CacheAgrees
    /\ signedIn => row.status = "active"
    /\ \A r \in Request : pc[r] \in Underway /\ req[r] \in ProfileOp \cup {"logout"} =>
         row.status = "active"
    /\ \A r \in Request : held[r] # None => CopyAgrees(req[r], held[r])

(* It is lost with a logout that writes back a copy from before the
   verification, and for good. *)
IInv == TypeInv /\ (recalled \/ StatusInv)

LEMMA EntryAgrees ==
    ASSUME TypeInv, StatusInv, NEW op \in Op, cache[KeyOf(op)] # None
    PROVE  CopyAgrees(op, cache[KeyOf(op)])
BY KeysByModule DEF StatusInv, CacheAgrees, CopyAgrees

LEMMA AnswerAgrees ==
    ASSUME TypeInv, StatusInv, NEW r \in Request, Answer(r),
           row'.status = "active" \/ row' = row,
           Agrees(row'), signedIn' => row'.status = "active", CacheAgrees'
    PROVE  StatusInv'
BY DEF Answer, Goto, Hold, StatusInv, TypeInv, Types, Underway, ProfileOp, AuthOp,
       CopyAgrees

LEMMA LoadedAgrees ==
    ASSUME TypeInv, StatusInv, NEW r \in Request, NEW copy, CopyAgrees(req[r], copy),
           pc[r] \in Underway, Loaded(r, copy), CacheAgrees', UNCHANGED <<row, signedIn>>
    PROVE  StatusInv'
<1>1. CASE req[r] \in {"me", "detail"}
  BY <1>1, AnswerAgrees DEF Loaded, StatusInv
<1>2. CASE req[r] \notin {"me", "detail"}
  BY <1>2 DEF Loaded, Goto, Hold, StatusInv, TypeInv, Types, Underway
<1>. QED  BY <1>1, <1>2

LEMMA InitAgrees == Init => StatusInv
BY DEF Init, StatusInv, Agrees, CacheAgrees, AuthKey, Key, UserKey, Underway

LEMMA StatusStep ==
    ASSUME TypeInv, StatusInv, [Next]_vars, ~ recalled'
    PROVE  StatusInv'
<1>1. ASSUME NEW r \in Request, Start(r)
      PROVE  StatusInv'
  <2>1. PICK op \in Ops : MayCall(op) /\ req' = [req EXCEPT ![r] = op]
    BY <1>1 DEF Start
  <2>2. op # "avatar" /\ pc[r] = "idle" /\ held[r] = None
    BY <1>1, ProfilesAssumption DEF Start, UseCase, TypeInv, HeldInv
  <2>. QED
    BY <1>1, <2>1, <2>2
       DEF Start, MayCall, Goto, account, TypeInv, Types, StatusInv, CacheAgrees,
           ProfileOp, Underway
<1>2. ASSUME NEW r \in Request, CacheGet(r)
      PROVE  StatusInv'
  <2>1. PICK up \in BOOLEAN :
          LET copy == IF up THEN cache[KeyOf(req[r])] ELSE None
          IN  IF copy = None THEN Goto(r, "read") /\ UNCHANGED <<req, held>>
              ELSE Loaded(r, copy)
    BY <1>2, ProfilesAssumption DEF CacheGet, RedisUp
  <2>2. UNCHANGED <<account, restarts>> /\ pc[r] = "get" /\ req[r] \in Op /\ CacheAgrees'
    BY <1>2 DEF CacheGet, account, TypeInv, Types, StatusInv, CacheAgrees
  <2>3. CASE up /\ cache[KeyOf(req[r])] # None
    BY <2>1, <2>2, <2>3, EntryAgrees, LoadedAgrees DEF account, Underway
  <2>4. CASE ~ (up /\ cache[KeyOf(req[r])] # None)
    BY <2>1, <2>2, <2>4 DEF account, Goto, TypeInv, Types, StatusInv, Underway
  <2>. QED  BY <2>3, <2>4
<1>3. ASSUME NEW r \in Request, ReadRow(r)
      PROVE  StatusInv'
  <2>. DEFINE copy == Columns(KeyOf(req[r]))
  <2>1. req[r] \in Op /\ pc[r] = "read" /\ CacheAgrees'
    BY <1>3 DEF ReadRow, account, TypeInv, Types, StatusInv, CacheAgrees
  <2>2. CopyAgrees(req[r], copy)
    BY <2>1, ColumnsTyped, TypesSplit DEF TypeInv, StatusInv, CopyAgrees, Agrees, Underway
  <2>3. pc' = [pc EXCEPT ![r] = "fill"] /\ held' = [held EXCEPT ![r] = copy]
        /\ UNCHANGED <<account, req, restarts>>
    BY <1>3 DEF ReadRow, Goto, Hold
  <2>. HIDE DEF copy
  <2>. QED
    BY <2>1, <2>2, <2>3 DEF account, TypeInv, Types, StatusInv, Underway
<1>4. ASSUME NEW r \in Request, Fill(r)
      PROVE  StatusInv'
  <2>1. pc[r] = "fill" /\ req[r] \in Op /\ CopyAgrees(req[r], held[r])
    BY <1>4 DEF Fill, TypeInv, Types, HeldInv, StatusInv
  <2>2. cache' = cache \/ cache' = [cache EXCEPT ![KeyOf(req[r])] = held[r]]
    BY <1>4 DEF Fill, RedisUp
  <2>3. /\ req[r] \in AuthOp => KeyOf(req[r]) # "profile"
        /\ req[r] \notin AuthOp => KeyOf(req[r]) \notin AuthKey
        /\ KeyOf(req[r]) = "profile" => req[r] \in ProfileOp /\ req[r] \notin AuthOp
    BY <2>1, KeysByModule DEF UserKey, ProfileOp, AuthOp
  <2>4. DOMAIN cache = AuthKey \cup UserKey /\ "profile" \in UserKey
    BY DEF TypeInv, Types, Key, UserKey
  <2>5. CacheAgrees'
    BY <2>1, <2>2, <2>3, <2>4 DEF StatusInv, CacheAgrees, CopyAgrees, Agrees
  <2>. QED  BY <1>4, <2>1, <2>5, LoadedAgrees DEF Fill, Underway
<1>5. ASSUME NEW r \in Request, EndUnsaved(r)
      PROVE  StatusInv'
  BY <1>5, AnswerAgrees DEF EndUnsaved, account, StatusInv, CacheAgrees
<1>6. ASSUME NEW r \in Request, SaveAuth(r)
      PROVE  StatusInv'
  <2>1. Agrees(held[r]) /\ req[r] \in AuthOp /\ pc[r] = "act" /\ held[r] \in AuthCopy
    BY <1>6, AuthSaved, CopiesAreNot DEF StatusInv, CopyAgrees
  <2>2. held[r].verified \/ req[r] = "verify"
    BY <1>6, <2>1 DEF SaveAuth, Permitted, Agrees, AuthOp
  <2>3. row'.status = "active" /\ row'.verified
    BY <1>6, <2>1, <2>2, AuthSaved DEF Agrees
  <2>4. Agrees(row') /\ CacheAgrees' /\ (signedIn' => row'.status = "active")
    BY <1>6, <2>3 DEF SaveAuth, Agrees, StatusInv, CacheAgrees
  <2>5. CASE Answer(r)
    BY <2>3, <2>4, <2>5, AnswerAgrees
  <2>6. CASE /\ req' = [req EXCEPT ![r] = "avatar"]
             /\ Goto(r, "get")
             /\ Hold(r, None)
    BY <2>3, <2>4, <2>6 DEF Goto, Hold, StatusInv, TypeInv, Types, Underway
  <2>. QED  BY <1>6, <2>5, <2>6 DEF SaveAuth
<1>7. ASSUME NEW r \in Request, SaveProfile(r)
      PROVE  StatusInv'
  <2>1. held[r].status = "active" /\ row.status = "active" /\ row \in Row
    BY <1>7, ProfileSaved, CopiesAreNot
       DEF TypeInv, Types, StatusInv, CopyAgrees, ProfileOp, AuthOp, Underway
  <2>2. row'.status = "active" /\ Agrees(row')
    BY <1>7, <2>1, ProfileSaved DEF StatusInv, Row, Agrees
  <2>. QED
    BY <1>7, <2>2, AnswerAgrees DEF SaveProfile, StatusInv, CacheAgrees
<1>8. ASSUME UNCHANGED <<row, signedIn, pc, req, held>>,
             \A k \in Key : cache'[k] \in {cache[k], None}
      PROVE  StatusInv'
  <2>1. CacheAgrees'
    BY <1>8 DEF StatusInv, CacheAgrees, Key, UserKey
  <2>. QED  BY <1>8, <2>1 DEF StatusInv
<1>9. CASE InvalidateUserCache \/ \E k \in Key : ExpireEntry(k)
  BY <1>8, <1>9 DEF InvalidateUserCache, ExpireEntry, TypeInv, Types
<1>10. CASE Restart
  BY <1>10 DEF Restart, StatusInv, CacheAgrees, Underway
<1>11. CASE UNCHANGED vars
  BY <1>8, <1>11 DEF vars
<1>. QED
  BY <1>1, <1>2, <1>3, <1>4, <1>5, <1>6, <1>7, <1>9, <1>10, <1>11
     DEF Next, RequestStep, Quiet

LEMMA RecalledStays ==
    ASSUME [Next]_vars, recalled
    PROVE  recalled'
BY DEF Next, RequestStep, Start, CacheGet, ReadRow, Fill, EndUnsaved, SaveAuth, SaveProfile,
       InvalidateUserCache, ExpireEntry, Restart, Quiet, account, vars

LEMMA InitSound == Init => IInv
BY InitTyped, InitAgrees DEF IInv

LEMMA StepSound == IInv /\ [Next]_vars => IInv'
<1>. SUFFICES ASSUME IInv, [Next]_vars PROVE IInv'
  OBVIOUS
<1>1. TypeInv'
  BY StepTyped DEF IInv
<1>2. recalled' \/ StatusInv'
  BY StatusStep, RecalledStays DEF IInv
<1>. QED  BY <1>1, <1>2 DEF IInv

(* Unless a logout has written back a copy from before the verification, the
   account loads, whatever the two modules save over each other.  (After such a
   logout it need not: VerifiedIsActive is broken.) *)
THEOREM AccountsLoad == Spec => []AccountLoads
<1>1. IInv => AccountLoads
  BY DEF IInv, StatusInv, CacheAgrees, Agrees, AccountLoads, AuthLoads
<1>. QED  BY <1>1, InitSound, StepSound, PTL DEF Spec

(* Only such a logout takes a verification back. *)
THEOREM VerificationsStand == Spec => VerificationStands
<1>. DEFINE A == row.verified /\ ~ recalled' => row'.verified /\ row'.status = "active"
<1>1. IInv /\ [Next]_vars => A
  <2>. SUFFICES ASSUME IInv, [Next]_vars, row.verified, ~ recalled'
                PROVE  row'.verified /\ row'.status = "active"
    OBVIOUS
  <2>1. StatusInv /\ StatusInv' /\ TypeInv
    BY StatusStep, RecalledStays DEF IInv
  <2>2. row.status = "active" /\ row \in Row
    BY <2>1 DEF StatusInv, Agrees, TypeInv, Types
  <2>3. ASSUME NEW r \in Request, SaveAuth(r)
        PROVE  row'.verified
    <3>1. Agrees(held[r]) /\ req[r] \in AuthOp
      BY <2>1, <2>3, AuthSaved, CopiesAreNot DEF StatusInv, CopyAgrees
    <3>. QED  BY <2>1, <2>3, <3>1, AuthSaved DEF SaveAuth, Permitted, Agrees, AuthOp
  <2>4. ASSUME NEW r \in Request, SaveProfile(r)
        PROVE  row'.verified
    BY <2>1, <2>2, <2>4, ProfileSaved DEF Row
  <2>5. row'.verified
    BY <2>3, <2>4 DEF Next, RequestStep, Start, CacheGet, ReadRow, Fill, EndUnsaved,
                      InvalidateUserCache, ExpireEntry, Restart, Quiet, account, vars
  <2>. QED  BY <2>1, <2>5 DEF StatusInv, Agrees
<1>. QED  BY <1>1, InitSound, StepSound, PTL DEF Spec, VerificationStands

-----------------------------------------------------------------------------
(* Calls that do not overlap: a request starts only when the one before it is
   answered and the listener has dealt with every save, and the process is
   not restarted while the listener has not.  The code does nothing to bring
   this about; it is what its documents take for granted. *)

Served(r) == pc[r] \notin {"idle", "done"}

OneAtATime == \A r, q \in Request : Served(r) /\ Served(q) => r = q

Orderly ==
    /\ OneAtATime'
    /\ \A r \in Request : pc[r] = "idle" /\ pc'[r] # "idle" => pending = 0
    /\ restarts' # restarts => pending = 0

CacheCurrent == \A k \in Key : cache[k] \in {None, Columns(k)}

(* Then no copy is ever old when it is used *)
CopiesCurrent ==
    /\ OneAtATime
    /\ CacheCurrent \/ (pending > 0 /\ \A r \in Request : ~ Served(r))
    /\ \A r \in Request : held[r] # None => held[r] = Columns(KeyOf(req[r]))

OrderlyInv == TypeInv /\ StatusInv /\ ~ recalled /\ CopiesCurrent

(* A name is one that the request which just patched it has chosen, the
   profile likewise; nobody takes back a status or a verification. *)
UpdatesKept ==
    [][/\ row'.name # row.name =>
            /\ row'.name \in Request
            /\ req[row'.name] = "patch" /\ pc[row'.name] = "act"
       /\ row'.profile # row.profile =>
            /\ row'.profile \in Request
            /\ req[row'.profile] \in {"patch", "avatar"} /\ pc[row'.profile] = "act"
       /\ row.status = "active" => row'.status = "active"
       /\ row.verified => row'.verified]_vars

LEMMA SameColumns ==
    ASSUME row' = row, NEW key
    PROVE  Columns(key)' = Columns(key)
BY DEF Columns

LEMMA InitCurrent == Init => ~ recalled /\ CopiesCurrent
BY DEF Init, CopiesCurrent, OneAtATime, Served, CacheCurrent

(* A save by the one request that is served, from a copy of the row as it is *)
LEMMA SaveFromCurrent ==
    ASSUME TypeInv, CopiesCurrent, NEW r \in Request, pc[r] = "act"
    PROVE  /\ \A q \in Request : q # r => ~ Served(q) /\ held[q] = None
           /\ CacheCurrent
           /\ held[r] = Columns(KeyOf(req[r])) /\ req[r] \in Op
           /\ held[r].name = row.name /\ held[r].status = row.status
           /\ req[r] \in AuthOp => held[r].verified = row.verified
           /\ req[r] \notin AuthOp => held[r].profile = row.profile
<1>1. req[r] \in Op /\ held[r] = Columns(KeyOf(req[r]))
  BY DEF TypeInv, Types, HeldInv, CopiesCurrent
<1>2. \A q \in Request : q # r => ~ Served(q) /\ held[q] = None
  BY DEF TypeInv, HeldInv, CopiesCurrent, OneAtATime, Served
<1>3. CacheCurrent
  BY DEF CopiesCurrent, Served
<1>. QED  BY <1>1, <1>2, <1>3, ColumnsTyped, TypesSplit DEF TypeInv

(* What each save does to the row when its copy is current *)
LEMMA AuthSavedCurrent ==
    ASSUME OrderlyInv, NEW r \in Request, SaveAuth(r)
    PROVE  /\ ~ recalled'
           /\ row'.name = row.name /\ row'.profile = row.profile
           /\ row.status = "active" => row'.status = "active"
           /\ row.verified => row'.verified
           /\ req[r] # "verify" => row' = row
<1>1. /\ TypeInv /\ StatusInv /\ CopiesCurrent /\ pc[r] = "act" /\ req[r] \in AuthOp
      /\ held[r] \in AuthCopy /\ held[r] # None /\ row \in Row /\ row' \in Row
  BY AuthSaved, CopiesAreNot DEF OrderlyInv, TypeInv, Types
<1>2. /\ held[r].name = row.name /\ held[r].status = row.status
      /\ held[r].verified = row.verified
  BY <1>1, SaveFromCurrent
<1>3. req[r] = "logout" => row.status = "active" /\ row.verified
  BY <1>1 DEF StatusInv, Underway, Agrees
<1>4. ~ recalled'
  BY <1>2, <1>3 DEF SaveAuth, OrderlyInv
<1>5. /\ row'.name = row.name /\ row'.profile = row.profile
      /\ row'.status = IF req[r] = "verify" THEN "active" ELSE row.status
      /\ row'.verified = (req[r] = "verify" \/ row.verified)
  BY <1>2, AuthSaved DEF OrderlyInv
<1>6. ASSUME req[r] # "verify"
      PROVE  row' = row
  <2>1. row'.verified = row.verified
    BY <1>1, <1>5, <1>6 DEF Row
  <2>. QED  BY <1>1, <1>5, <1>6, <2>1 DEF Row
<1>. QED  BY <1>4, <1>5, <1>6

LEMMA ProfileSavedCurrent ==
    ASSUME OrderlyInv, NEW r \in Request, SaveProfile(r)
    PROVE  /\ row'.status = row.status /\ row'.verified = row.verified
           /\ row'.name = row.name \/ (row'.name = r /\ req[r] = "patch")
           /\ row'.profile \in {row.profile, r}
           /\ pending' = pending + 1 \/ (pending' = pending /\ row' = row)
<1>1. /\ TypeInv /\ CopiesCurrent /\ pc[r] = "act" /\ req[r] \notin AuthOp
      /\ row \in Row /\ row' \in Row
  BY ProfileSaved DEF OrderlyInv, TypeInv, Types, AuthOp
<1>2. /\ held[r].name = row.name /\ held[r].status = row.status
      /\ held[r].profile = row.profile
  BY <1>1, SaveFromCurrent
<1>3. /\ row'.status = row.status /\ row'.verified = row.verified
      /\ row'.name = row.name \/ (row'.name = r /\ req[r] = "patch")
      /\ row'.profile \in {row.profile, r}
      /\ \/ pending' = pending + 1
         \/ pending' = pending /\ row'.name = row.name /\ row'.profile = row.profile
  BY <1>1, <1>2, ProfileSaved
<1>4. row'.name = row.name /\ row'.profile = row.profile => row' = row
  BY <1>1, <1>3 DEF Row
<1>. QED  BY <1>3, <1>4

LEMMA NotRecalled ==
    ASSUME OrderlyInv, [Next]_vars
    PROVE  ~ recalled'
BY AuthSavedCurrent
   DEF OrderlyInv, Next, RequestStep, Start, CacheGet, ReadRow, Fill, EndUnsaved, SaveProfile,
       InvalidateUserCache, ExpireEntry, Restart, Quiet, account, vars

(* An answer that leaves the row as it is *)
LEMMA AnswerCurrent ==
    ASSUME TypeInv, CopiesCurrent, CacheCurrent', OneAtATime', NEW r \in Request,
           Answer(r), row' = row
    PROVE  CopiesCurrent'
<1>1. \A q \in Request : held'[q] # None =>
        held'[q] = held[q] /\ req'[q] = req[q] /\ held[q] # None
  BY DEF Answer, Hold, TypeInv, Types
<1>. QED  BY <1>1, SameColumns DEF CopiesCurrent

(* So far only the row, the cache and what the request holds have moved *)
LEMMA LoadedCurrent ==
    ASSUME TypeInv, CopiesCurrent, CacheCurrent', OneAtATime', NEW r \in Request,
           NEW copy, copy = Columns(KeyOf(req[r])), Loaded(r, copy), row' = row
    PROVE  CopiesCurrent'
<1>1. CASE req[r] \in {"me", "detail"}
  BY <1>1, AnswerCurrent DEF Loaded
<1>2. CASE req[r] \notin {"me", "detail"}
  <2>1. req' = req /\ held' = [held EXCEPT ![r] = copy]
    BY <1>2 DEF Loaded, Hold
  <2>2. \A q \in Request : held'[q] # None => held'[q] = Columns(KeyOf(req[q]))
    BY <2>1 DEF CopiesCurrent, TypeInv, Types
  <2>. QED  BY <2>1, <2>2, SameColumns DEF CopiesCurrent
<1>. QED  BY <1>1, <1>2

LEMMA CacheStays ==
    ASSUME CacheCurrent, row' = row, \A k \in Key : cache'[k] \in {cache[k], None}
    PROVE  CacheCurrent'
BY SameColumns DEF CacheCurrent

LEMMA CurrentStep ==
    ASSUME RedisFaults = FALSE, OrderlyInv, [Next]_vars, Orderly
    PROVE  CopiesCurrent'
<1>. USE DEF OrderlyInv
<1>0. OneAtATime' /\ RedisUp = {TRUE}
  BY DEF Orderly, RedisUp
<1>1. ASSUME NEW r \in Request, Start(r)
      PROVE  CopiesCurrent'
  <2>1. pending = 0 /\ pc[r] = "idle" /\ held[r] = None
    BY <1>1 DEF Orderly, Start, Goto, TypeInv, Types, HeldInv
  <2>2. CacheCurrent'
    BY <1>1, <2>1, CacheStays DEF Start, account, CopiesCurrent
  <2>3. \A q \in Request : held'[q] # None =>
          held'[q] = held[q] /\ req'[q] = req[q] /\ held[q] # None
    BY <1>1, <2>1 DEF Start, TypeInv, Types
  <2>. QED
    BY <1>0, <1>1, <2>2, <2>3, SameColumns DEF Start, account, CopiesCurrent
<1>2. ASSUME NEW r \in Request, CacheGet(r)
      PROVE  CopiesCurrent'
  <2>1. row' = row /\ cache' = cache /\ CacheCurrent /\ req[r] \in Op
    BY <1>2 DEF CacheGet, account, CopiesCurrent, Served, TypeInv, Types
  <2>2. CacheCurrent'
    BY <2>1, CacheStays
  <2>3. CASE cache[KeyOf(req[r])] = None
    <3>1. UNCHANGED <<req, held>>
      BY <1>0, <1>2, <2>3 DEF CacheGet
    <3>. QED  BY <1>0, <2>1, <2>2, <3>1, SameColumns DEF CopiesCurrent
  <2>4. CASE cache[KeyOf(req[r])] # None
    <3>1. Loaded(r, cache[KeyOf(req[r])])
      BY <1>0, <1>2, <2>4 DEF CacheGet
    <3>2. cache[KeyOf(req[r])] = Columns(KeyOf(req[r]))
      BY <2>1, <2>4, KeysByModule DEF CacheCurrent
    <3>. QED  BY <1>0, <2>1, <2>2, <3>1, <3>2, LoadedCurrent
  <2>. QED  BY <2>3, <2>4
<1>3. ASSUME NEW r \in Request, ReadRow(r)
      PROVE  CopiesCurrent'
  <2>1. row' = row /\ cache' = cache /\ CacheCurrent /\ req' = req
    BY <1>3 DEF ReadRow, account, CopiesCurrent, Served
  <2>2. CacheCurrent'
    BY <2>1, CacheStays
  <2>3. \A q \in Request : held'[q] # None => held'[q] = Columns(KeyOf(req[q]))
    BY <1>3 DEF ReadRow, Hold, CopiesCurrent, TypeInv, Types
  <2>. QED  BY <1>0, <2>1, <2>2, <2>3, SameColumns DEF CopiesCurrent
<1>4. ASSUME NEW r \in Request, Fill(r)
      PROVE  CopiesCurrent'
  <2>1. /\ row' = row /\ CacheCurrent /\ req[r] \in Op /\ DOMAIN cache = Key
        /\ cache' = [cache EXCEPT ![KeyOf(req[r])] = held[r]]
        /\ Loaded(r, held[r])
    BY <1>0, <1>4 DEF Fill, CopiesCurrent, Served, TypeInv, Types
  <2>2. held[r] = Columns(KeyOf(req[r]))
    BY <1>4 DEF Fill, TypeInv, HeldInv, CopiesCurrent
  <2>3. CacheCurrent'
    BY <2>1, <2>2, SameColumns DEF CacheCurrent
  <2>. QED  BY <1>0, <2>1, <2>2, <2>3, LoadedCurrent
<1>5. ASSUME NEW r \in Request, EndUnsaved(r)
      PROVE  CopiesCurrent'
  <2>1. row' = row /\ cache' = cache /\ CacheCurrent /\ Answer(r)
    BY <1>5 DEF EndUnsaved, account, CopiesCurrent, Served
  <2>2. CacheCurrent'
    BY <2>1, CacheStays
  <2>. QED  BY <1>0, <2>1, <2>2, AnswerCurrent
<1>6. ASSUME NEW r \in Request, SaveAuth(r) \/ SaveProfile(r)
      PROVE  CopiesCurrent'
  <2>1. /\ pc[r] = "act" /\ CacheCurrent /\ cache' = cache
        /\ \A q \in Request : q # r => ~ Served(q) /\ held[q] = None
    BY <1>6, SaveFromCurrent DEF SaveAuth, SaveProfile
  <2>2. CASE Answer(r)
    <3>1. /\ \A q \in Request : held'[q] = None
          /\ \A q \in Request : ~ Served(q)'
      BY <2>1, <2>2 DEF Answer, Goto, Hold, Served, TypeInv, Types
    <3>2. pending' > 0 \/ row' = row
      BY <1>6, ProfileSavedCurrent DEF SaveAuth, TypeInv, Types
    <3>. QED  BY <1>0, <2>1, <3>1, <3>2, CacheStays DEF CopiesCurrent
  <2>3. CASE ~ Answer(r)
    <3>1. SaveAuth(r) /\ req[r] = "google" /\ Hold(r, None)
      BY <1>6, <2>3 DEF SaveAuth, SaveProfile
    <3>2. row' = row
      BY <3>1, AuthSavedCurrent
    <3>3. \A q \in Request : held'[q] = None
      BY <2>1, <3>1 DEF Hold, TypeInv, Types
    <3>. QED  BY <1>0, <2>1, <3>2, <3>3, CacheStays DEF CopiesCurrent
  <2>. QED  BY <2>2, <2>3
<1>7. ASSUME InvalidateUserCache
      PROVE  CopiesCurrent'
  <2>1. row' = row /\ UNCHANGED <<req, held>> /\ \A k \in Key : cache'[k] = None
    BY <1>7 DEF InvalidateUserCache
  <2>2. CacheCurrent'
    BY <2>1 DEF CacheCurrent
  <2>. QED  BY <1>0, <2>1, <2>2, SameColumns DEF CopiesCurrent
<1>8. ASSUME NEW k \in Key, ExpireEntry(k)
      PROVE  CopiesCurrent'
  <2>1. /\ UNCHANGED <<row, pending, pc, req, held>>
        /\ \A j \in Key : cache'[j] \in {cache[j], None}
    BY <1>8 DEF ExpireEntry, TypeInv, Types
  <2>. QED  BY <1>0, <2>1, CacheStays, SameColumns DEF CopiesCurrent, Served
<1>9. ASSUME Restart
      PROVE  CopiesCurrent'
  <2>1. pending = 0 /\ row' = row /\ cache' = cache /\ \A q \in Request : held'[q] = None
    BY <1>9 DEF Restart, Orderly, TypeInv, Types
  <2>. QED  BY <1>0, <2>1, CacheStays DEF CopiesCurrent
<1>10. ASSUME UNCHANGED vars
       PROVE  CopiesCurrent'
  BY <1>0, <1>10, CacheStays, SameColumns DEF vars, CopiesCurrent, Served
<1>. QED
  BY <1>1, <1>2, <1>3, <1>4, <1>5, <1>6, <1>7, <1>8, <1>9, <1>10
     DEF Next, RequestStep, Quiet

LEMMA InitOrderly == Init => OrderlyInv
BY InitTyped, InitAgrees, InitCurrent DEF OrderlyInv

LEMMA OrderlyStep ==
    ASSUME RedisFaults = FALSE, OrderlyInv, [Next]_vars, Orderly
    PROVE  OrderlyInv'
<1>1. TypeInv' /\ ~ recalled'
  BY StepTyped, NotRecalled DEF OrderlyInv
<1>2. StatusInv'
  BY <1>1, StatusStep DEF OrderlyInv
<1>. QED  BY <1>1, <1>2, CurrentStep DEF OrderlyInv

(* Where calls do not overlap and Redis answers, no sequence of them leaves an
   account that AuthUser refuses to load, logouts included. *)
THEOREM OrderlyAccountsLoad ==
    ASSUME RedisFaults = FALSE
    PROVE  Spec /\ [][Orderly]_vars => []VerifiedIsActive
<1>1. OrderlyInv => VerifiedIsActive
  BY DEF OrderlyInv, StatusInv, Agrees, VerifiedIsActive, AuthLoads
<1>2. OrderlyInv /\ [Next]_vars /\ [Orderly]_vars => OrderlyInv'
  <2>1. OrderlyInv /\ UNCHANGED vars => OrderlyInv'
    BY DEF vars, OrderlyInv, TypeInv, Types, HeldInv, StatusInv, CacheAgrees,
           CopiesCurrent, OneAtATime, Served, CacheCurrent, Columns, Agrees
  <2>. QED  BY <2>1, OrderlyStep
<1>. QED  BY <1>1, <1>2, InitOrderly, PTL DEF Spec

(* And then neither module takes back what the other has saved. *)
THEOREM OrderlyUpdatesKept ==
    ASSUME RedisFaults = FALSE
    PROVE  Spec /\ [][Orderly]_vars => UpdatesKept
<1>. DEFINE A == /\ row'.name # row.name =>
                      /\ row'.name \in Request
                      /\ req[row'.name] = "patch" /\ pc[row'.name] = "act"
                 /\ row'.profile # row.profile =>
                      /\ row'.profile \in Request
                      /\ req[row'.profile] \in {"patch", "avatar"}
                      /\ pc[row'.profile] = "act"
                 /\ row.status = "active" => row'.status = "active"
                 /\ row.verified => row'.verified
<1>1. ASSUME OrderlyInv, [Next]_vars
      PROVE  A
  <2>1. ASSUME NEW r \in Request, SaveAuth(r)
        PROVE  A
    BY <1>1, <2>1, AuthSavedCurrent
  <2>2. ASSUME NEW r \in Request, SaveProfile(r)
        PROVE  A
    BY <1>1, <2>2, ProfileSavedCurrent, ProfileSaved DEF OrderlyInv
  <2>3. CASE row' = row
    BY <2>3
  <2>. QED
    BY <1>1, <2>1, <2>2, <2>3
       DEF Next, RequestStep, Start, CacheGet, ReadRow, Fill, EndUnsaved,
           InvalidateUserCache, ExpireEntry, Restart, Quiet, account, vars
<1>2. OrderlyInv /\ [Next]_vars => A
  BY <1>1
<1>3. OrderlyInv /\ [Next]_vars /\ [Orderly]_vars => OrderlyInv'
  <2>1. OrderlyInv /\ UNCHANGED vars => OrderlyInv'
    BY DEF vars, OrderlyInv, TypeInv, Types, HeldInv, StatusInv, CacheAgrees,
           CopiesCurrent, OneAtATime, Served, CacheCurrent, Columns, Agrees
  <2>. QED  BY <2>1, OrderlyStep
<1>. QED  BY <1>2, <1>3, InitOrderly, PTL DEF Spec, UpdatesKept

-----------------------------------------------------------------------------
(* How many steps of its own a request has ahead of it at most: nine, for a
   Google login, whose listener looks the account up once more *)
Ahead(place) ==
    CASE place = "done" -> 0
      [] place = "act" -> 1
      [] place = "fill" -> 2
      [] place = "read" -> 3
      [] place = "get" -> 4
      [] place = "idle" -> 9

Remaining(r) ==
    IF req[r] = "google" /\ pc[r] \notin {"idle", "done"}
    THEN Ahead(pc[r]) + 4 ELSE Ahead(pc[r])

LEMMA RequestMoves ==
    ASSUME Types, NEW r \in Request, Start(r) \/ RequestStep(r)
    PROVE  Remaining(r)' < Remaining(r)
<1>1. \/ pc[r] = "idle" /\ pc'[r] = "get"
      \/ /\ pc[r] \in {"get", "read", "fill", "act"}
         /\ pc'[r] = "done"
      \/ /\ req'[r] = req[r]
         /\ \/ pc[r] = "get" /\ pc'[r] \in {"read", "act"}
            \/ pc[r] = "read" /\ pc'[r] = "fill"
            \/ pc[r] = "fill" /\ pc'[r] = "act"
      \/ /\ req[r] = "google" /\ pc[r] = "act"
         /\ req'[r] = "avatar" /\ pc'[r] = "get"
  <2>1. CASE Start(r)
    BY <2>1 DEF Start, Goto, Types
  <2>2. CASE CacheGet(r) \/ ReadRow(r) \/ Fill(r)
    BY <2>2 DEF CacheGet, ReadRow, Fill, Loaded, Answer, Goto, Types
  <2>3. CASE EndUnsaved(r) \/ SaveProfile(r)
    BY <2>3 DEF EndUnsaved, SaveProfile, Answer, Goto, Types
  <2>4. CASE SaveAuth(r)
    BY <2>4 DEF SaveAuth, Answer, Goto, Types
  <2>. QED  BY <2>1, <2>2, <2>3, <2>4 DEF RequestStep
<1>. QED  BY <1>1 DEF Remaining, Ahead

(* No request on the account goes round in circles, the listener of a Google
   login included: every step of it brings it nearer to its end, and nothing
   else takes it further away.  With the fairness of FairSpec that is why
   everything settles. *)
THEOREM RequestsMoveOn ==
    Spec => [][\A r \in Request :
                 /\ Remaining(r)' <= Remaining(r)
                 /\ Start(r) \/ RequestStep(r) => Remaining(r)' < Remaining(r)]_vars
<1>. DEFINE A == \A r \in Request :
                   /\ Remaining(r)' <= Remaining(r)
                   /\ Start(r) \/ RequestStep(r) => Remaining(r)' < Remaining(r)
<1>1. ASSUME TypeInv, [Next]_vars, NEW r \in Request
      PROVE  Remaining(r)' <= Remaining(r)
  <2>1. Remaining(r) \in Nat
    BY <1>1 DEF Remaining, Ahead, Place, TypeInv, Types
  <2>2. Remaining(r)' \in Nat
    BY <1>1, StepTyped DEF Remaining, Ahead, Place, TypeInv, Types
  <2>3. CASE UNCHANGED <<pc[r], req[r]>>
    BY <2>1, <2>3 DEF Remaining
  <2>4. CASE Restart
    <3>1. pc'[r] = IF pc[r] = "idle" THEN "idle" ELSE "done"
      BY <2>4 DEF Restart
    <3>2. CASE pc[r] # "idle"
      <4>1. Remaining(r)' = 0
        BY <3>1, <3>2 DEF Remaining, Ahead
      <4>. QED  BY <2>1, <4>1
    <3>3. CASE pc[r] = "idle"
      <4>1. Remaining(r)' = 9 /\ Remaining(r) = 9
        BY <3>1, <3>3 DEF Remaining, Ahead
      <4>. QED  BY <4>1
    <3>. QED  BY <3>2, <3>3
  <2>5. ASSUME NEW q \in Request, q # r, Start(q) \/ RequestStep(q)
        PROVE  UNCHANGED <<pc[r], req[r]>>
    BY <1>1, <2>5 DEF Start, RequestStep, CacheGet, ReadRow, Fill, Loaded, EndUnsaved, SaveAuth,
       SaveProfile, Answer, Goto, TypeInv, Types
  <2>6. CASE Start(r) \/ RequestStep(r)
    BY <1>1, <2>1, <2>2, <2>6, RequestMoves DEF TypeInv
  <2>. QED
    BY <1>1, <2>3, <2>4, <2>5, <2>6 DEF Next, InvalidateUserCache, ExpireEntry, Quiet, vars
<1>2. TypeInv /\ [Next]_vars => A
  BY <1>1, RequestMoves DEF TypeInv
<1>. QED  BY <1>2, InitTyped, StepTyped, PTL DEF Spec
=============================================================================
