------------------------------ MODULE Profiles ------------------------------
(***************************************************************************)
(* One account under the two modules that share its row: the use cases of  *)
(* src/modules/users, and of src/modules/auth those that change the status *)
(* of an account or write back whatever status they loaded.  Both          *)
(* repositories keep copies of the columns they know and upsert all of     *)
(* these, the shared ones included; one asynchronous listener empties the  *)
(* caches of both.                                                         *)
(*                                                                         *)
(*   row      the account; the name, which both modules write, and the     *)
(*            profile (phone, birthday, gender, avatar, addresses) are     *)
(*            named for the request that wrote them; of the columns that   *)
(*            auth alone writes, emailVerified is kept                     *)
(*   cache    the entries of both modules                                  *)
(*   pending  the saves whose event the listener has not dealt with        *)
(*   recalled history: a logout has saved a copy from before the           *)
(*            verification                                                 *)
(*   missed   history: cache entries that are old and that no deletion     *)
(*            still to come will remove                                    *)
(***************************************************************************)
EXTENDS Naturals

CONSTANTS
    None,         \* no cache entry
    MaxRequests,  \* bound: how many requests are made
    Ops,          \* the use cases the requests may call
    MaxRestarts,  \* bound: how often the process may restart
    RedisFaults   \* may Redis calls fail?

UseCase == {"verify", "login", "google", "logout", "patch", "me", "detail"}

VARIABLES row, cache, pending, signedIn, recalled, missed, pc, req, held, restarts

account == <<row, cache, pending, signedIn, recalled, missed>>
vars == <<row, cache, pending, signedIn, recalled, missed, pc, req, held, restarts>>

(* Requests are numbered in the order in which they start *)
Request == 1 .. MaxRequests

Prior == 0   \* who wrote the account before

Writer == Request \cup {Prior}

UserStatus == {"inactive", "active"}

Row == [name : Writer, status : UserStatus, verified : BOOLEAN, profile : Writer]

UserCopy == [name : Writer, status : UserStatus, profile : Writer]

AuthCopy == [name : Writer, status : UserStatus, verified : BOOLEAN]

ASSUME ProfilesAssumption ==
    /\ MaxRequests \in Nat
    /\ Ops \subseteq UseCase
    /\ MaxRestarts \in Nat
    /\ RedisFaults \in BOOLEAN
    /\ None \notin UserCopy \cup AuthCopy

AuthKey == {"authId", "authEmail"}

UserKey == {"profile", "detail"}

Key == AuthKey \cup UserKey

AuthOp == {"verify", "login", "google", "logout"}

(* A Google login ends in a listener, "avatar", which writes once more *)
Op == UseCase \cup {"avatar"}

(* What a request holds is of the module it runs in *)
CopyFor(op) == (IF op \in AuthOp THEN AuthCopy ELSE UserCopy) \cup {None}

Place == {"idle", "get", "read", "fill", "act", "done"}

ProfilesTypeOK ==
    /\ row \in Row
    /\ \A k \in AuthKey : cache[k] \in AuthCopy \cup {None}
    /\ \A k \in UserKey : cache[k] \in UserCopy \cup {None}
    /\ DOMAIN cache = Key
    /\ pending \in Nat
    /\ signedIn \in BOOLEAN
    /\ recalled \in BOOLEAN
    /\ missed \subseteq Key
    /\ pc \in [Request -> Place]
    /\ req \in [Request -> Op]
    /\ DOMAIN held = Request
    /\ \A r \in Request : held[r] \in CopyFor(req[r])
    /\ restarts \in 0 .. MaxRestarts

(* Registered and not yet verified, or in use *)
Init ==
    /\ \E ready \in BOOLEAN :
         /\ row = [name |-> Prior, status |-> IF ready THEN "active" ELSE "inactive",
                   verified |-> ready, profile |-> Prior]
         /\ signedIn = ready
    /\ cache = [k \in Key |-> None]
    /\ pending = 0
    /\ recalled = FALSE
    /\ missed = {}
    /\ pc = [r \in Request |-> "idle"]
    /\ req = [r \in Request |-> "detail"]
    /\ held = [r \in Request |-> None]
    /\ restarts = 0

-----------------------------------------------------------------------------
(* A Redis call succeeds (TRUE), or fails as CacheService lets it: the error
   is logged, a get answers a miss, a set and a del do nothing. *)
RedisUp == IF RedisFaults THEN BOOLEAN ELSE {TRUE}

Goto(r, place) == pc' = [pc EXCEPT ![r] = place]

Hold(r, copy) == held' = [held EXCEPT ![r] = copy]

(* The request is answered, with what it asked for or an error, and forgotten *)
Answer(r) ==
    /\ Goto(r, "done")
    /\ Hold(r, None)
    /\ req' = [req EXCEPT ![r] = "detail"]

KeyOf(op) ==
    CASE op \in {"verify", "logout"} -> "authId"
      [] op \in {"login", "google"} -> "authEmail"
      [] op \in {"patch", "me", "avatar"} -> "profile"
      [] op = "detail" -> "detail"

(* The columns a lookup selects *)
Columns(key) ==
    IF key \in AuthKey
    THEN [name |-> row.name, status |-> row.status, verified |-> row.verified]
    ELSE [name |-> row.name, status |-> row.status, profile |-> row.profile]

Old(k) == cache[k] \notin {None, Columns(k)}

(* Mutant of MayCall: the users controller has no JwtAuthGuard *)
AnyoneMayCall(op) == TRUE

(* A client calls "me" and logs out with the access token of a login, which
   stays good whatever becomes of the account's status; looking at an account
   by its id takes an administrator's. *)
MayCall(op) == op \in {"patch", "me", "logout"} => signedIn

Start(r) ==
    /\ pc[r] = "idle"
    /\ \A q \in Request : q < r => pc[q] # "idle"
    /\ \E op \in Ops :
         /\ MayCall(op)
         /\ req' = [req EXCEPT ![r] = op]
    /\ Goto(r, "get")
    /\ UNCHANGED <<account, held, restarts>>

-----------------------------------------------------------------------------
(* cache.wrap around the account: findById and findByEmail of auth, findById
   of users, getUserDetailById *)

(* "me" and "detail" are answered with the copy, the others go on with it *)
Loaded(r, copy) ==
    IF req[r] \in {"me", "detail"} THEN Answer(r)
    ELSE Goto(r, "act") /\ Hold(r, copy) /\ UNCHANGED req

CacheGet(r) ==
    /\ pc[r] = "get"
    /\ \E up \in RedisUp :
         LET copy == IF up THEN cache[KeyOf(req[r])] ELSE None
         IN  IF copy = None THEN Goto(r, "read") /\ UNCHANGED <<req, held>>
             ELSE Loaded(r, copy)
    /\ UNCHANGED <<account, restarts>>

ReadRow(r) ==
    /\ pc[r] = "read"
    /\ Hold(r, Columns(KeyOf(req[r])))
    /\ Goto(r, "fill")
    /\ UNCHANGED <<account, req, restarts>>

(* Mutant of Fill: what was stored is read back *)
FillAndGet(r) ==
    /\ pc[r] = "fill"
    /\ \E up \in RedisUp :
         cache' = IF up THEN [cache EXCEPT ![KeyOf(req[r])] = held[r]] ELSE cache
    /\ Goto(r, "get")
    /\ Hold(r, None)
    /\ UNCHANGED <<row, pending, signedIn, recalled, missed, req, restarts>>

Fill(r) ==
    /\ pc[r] = "fill"
    /\ \E up \in RedisUp :
         LET k == KeyOf(req[r])
         IN  /\ cache' = IF up THEN [cache EXCEPT ![k] = held[r]] ELSE cache
             /\ missed' = CASE ~ up -> missed
                            [] up /\ held[r] = Columns(k) -> missed \ {k}
                            [] up /\ held[r] # Columns(k) -> missed \cup {k}
    /\ Loaded(r, held[r])
    /\ UNCHANGED <<row, pending, signedIn, recalled, restarts>>

-----------------------------------------------------------------------------
(* The use case on the copy it holds.  The audit record and the answer, which
   touch nothing of this, belong to the step of the save. *)

(* Mutant of Permitted: a Google login does not ask for the status *)
GoogleAlwaysPermitted(r) ==
    CASE req[r] = "verify" -> held[r].status = "inactive" /\ ~ held[r].verified
      [] req[r] = "login" -> held[r].status = "active" /\ held[r].verified
      [] OTHER -> TRUE

(* verifyEmail, ensureCanLogin, and addRefreshToken of a Google login ask for
   the status, recordLogout does not; ensureCanBeModified refuses accounts
   that are not here. *)
Permitted(r) ==
    CASE req[r] = "verify" -> held[r].status = "inactive" /\ ~ held[r].verified
      [] req[r] = "login" -> held[r].status = "active" /\ held[r].verified
      [] req[r] = "google" -> held[r].status = "active"
      [] OTHER -> TRUE

(* Refused, or a listener told of a Google login without an avatar *)
EndUnsaved(r) ==
    /\ pc[r] = "act"
    /\ ~ Permitted(r) \/ req[r] = "avatar"
    /\ Answer(r)
    /\ UNCHANGED <<account, restarts>>

(* PrismaAuthUserRepository.save, the name and the status among its columns *)
SaveAuth(r) ==
    /\ pc[r] = "act"
    /\ req[r] \in AuthOp
    /\ Permitted(r)
    /\ row' = [row EXCEPT !.name = held[r].name,
                          !.status = IF req[r] = "verify" THEN "active"
                                     ELSE held[r].status,
                          !.verified = req[r] = "verify" \/ held[r].verified]
    /\ pending' = pending + 1
    /\ signedIn' = (signedIn \/ req[r] \in {"login", "google"})
    /\ recalled' = (recalled \/ (req[r] = "logout" /\ ~ held[r].verified))
    /\ IF req[r] = "google"
       THEN /\ req' = [req EXCEPT ![r] = "avatar"]
            /\ Goto(r, "get")
            /\ Hold(r, None)
       ELSE Answer(r)
    /\ UNCHANGED <<cache, missed, restarts>>

(* The entries that a save has just made old, or has left so *)
LeftOld == {k \in Key : cache[k] \notin {None, Columns(k)'}}

(* Mutant of SaveProfile: the event that a name has changed is not raised *)
SaveRenamedInSilence(r) ==
    /\ pc[r] = "act"
    /\ req[r] \in {"patch", "avatar"}
    /\ \E name \in IF req[r] = "patch" THEN {held[r].name, r} ELSE {held[r].name},
          profile \in {held[r].profile, r} :
         /\ row' = [row EXCEPT !.name = name, !.status = held[r].status,
                               !.profile = profile]
         /\ pending' = IF profile = held[r].profile THEN pending ELSE pending + 1
         /\ missed' = IF name = held[r].name /\ profile = held[r].profile
                      THEN missed \cup LeftOld ELSE missed
    /\ Answer(r)
    /\ UNCHANGED <<cache, signedIn, recalled, restarts>>

(* PrismaUserRepository.save.  It is called when nothing has changed, too,
   and then without an event: an old copy is written back in silence. *)
SaveProfile(r) ==
    /\ pc[r] = "act"
    /\ req[r] \in {"patch", "avatar"}
    /\ \E name \in IF req[r] = "patch" THEN {held[r].name, r} ELSE {held[r].name},
          profile \in {held[r].profile, r} :
         /\ row' = [row EXCEPT !.name = name, !.status = held[r].status,
                               !.profile = profile]
         /\ IF name = held[r].name /\ profile = held[r].profile
            THEN pending' = pending /\ missed' = missed \cup LeftOld
            ELSE pending' = pending + 1 /\ missed' = missed
    /\ Answer(r)
    /\ UNCHANGED <<cache, signedIn, recalled, restarts>>

-----------------------------------------------------------------------------
(* Mutant of InvalidateUserCache: the listener is called again for an event
   it has dealt with *)
InvalidateAgain ==
    /\ cache' = [k \in Key |-> None]
    /\ pending' = pending - 1
    /\ missed' = {}
    /\ UNCHANGED <<row, signedIn, recalled, pc, req, held, restarts>>

(* The listener, some time after a save.  All entries are deleted at once,
   for the calls are made before anything is awaited; any of them may fail. *)
InvalidateUserCache ==
    /\ pending > 0
    /\ \E lost \in IF RedisFaults THEN SUBSET {k \in Key : cache[k] # None} ELSE {{}} :
         /\ cache' = [k \in Key |-> IF k \in lost THEN cache[k] ELSE None]
         /\ missed' = {k \in lost : k \in missed \/ Old(k)}
    /\ pending' = pending - 1
    /\ UNCHANGED <<row, signedIn, recalled, pc, req, held, restarts>>

ExpireEntry(k) ==
    /\ cache[k] # None
    /\ cache' = [cache EXCEPT ![k] = None]
    /\ missed' = missed \ {k}
    /\ UNCHANGED <<row, pending, signedIn, recalled, pc, req, held, restarts>>

AtRest == pending = 0 /\ \A r \in Request : pc[r] \in {"idle", "done"}

(* The process dies with its requests and listeners; at rest it takes nothing
   with it. *)
Restart ==
    /\ restarts < MaxRestarts
    /\ ~ AtRest
    /\ restarts' = restarts + 1
    /\ pending' = 0
    /\ missed' = IF pending > 0 THEN missed \cup {k \in Key : Old(k)} ELSE missed
    /\ pc' = [r \in Request |-> IF pc[r] = "idle" THEN "idle" ELSE "done"]
    /\ req' = [r \in Request |-> "detail"]
    /\ held' = [r \in Request |-> None]
    /\ UNCHANGED <<row, cache, signedIn, recalled>>

Quiet ==
    /\ AtRest
    /\ UNCHANGED vars

RequestStep(r) ==
    \/ CacheGet(r) \/ ReadRow(r) \/ Fill(r)
    \/ EndUnsaved(r) \/ SaveAuth(r) \/ SaveProfile(r)

Next ==
    \/ \E r \in Request : Start(r) \/ RequestStep(r)
    \/ InvalidateUserCache
    \/ \E k \in Key : ExpireEntry(k)
    \/ Restart
    \/ Quiet

Spec == Init /\ [][Next]_vars

(* The event loop runs requests and listeners that are ready. *)
FairSpec ==
    /\ Spec
    /\ WF_vars(\E r \in Request : RequestStep(r))
    /\ WF_vars(InvalidateUserCache)

-----------------------------------------------------------------------------
(* Properties *)

AuthLoads(u) == u.verified => u.status = "active"

(* Each module writes the status back from copies of its own age, and only
   auth knows that a verified account must be active: as long as no logout
   has written back a copy from before the verification, no mixture of the
   two leaves an account that AuthUser refuses to load. *)
AccountLoads ==
    recalled \/ /\ AuthLoads(row)
                /\ \A k \in AuthKey : cache[k] # None => AuthLoads(cache[k])

(* Nothing but such a logout takes a verification back, however old the
   copies are that the two modules save. *)
VerificationStands ==
    [][row.verified /\ ~ recalled' => row'.verified /\ row'.status = "active"]_vars

(* AuthUser.validate: "Ensure email verified is false if User is not Active".
   Both modules save rows that satisfy it, and what is left of two saves
   need not. *)
VerifiedIsActive == AuthLoads(row)

(* Requests and listeners come to an end, a Google login's second write and
   what it sets off included. *)
ProfilesSettle == <>[]AtRest

(* An entry of either module is old for one of five reasons only: the listener
   has a save still to deal with, a save of either module overtook the fill that
   stored it, Redis failed its deletion, the process died before it, or the users
   module wrote an old copy back without an event.  A save that changes something
   leaves no entry of the other module behind. *)
OldEntriesExplained == \A k \in Key : Old(k) => k \in missed \/ pending > 0
=============================================================================
