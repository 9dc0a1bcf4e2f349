---------------------------- MODULE AuthSessions ----------------------------
(***************************************************************************)
(* The use cases of src/modules/auth/application as concurrent requests on *)
(* one account.  What a request can be overtaken in is a step: each await  *)
(* on Postgres or Redis.  The shared state is                              *)
(*                                                                         *)
(*   row      the account in Postgres, None before it exists               *)
(*   cache    the copies PrismaAuthUserRepository keeps by id and by email *)
(*   pending  the cache deletions that saves have asked for and that the   *)
(*            asynchronous listener has not done yet                       *)
(*   store    the tokens Redis knows: links that can still be redeemed and *)
(*            access tokens that are blacklisted                           *)
(*   known    what clients and mailboxes hold: issued sessions and links   *)
(*   missed   history: cache entries that are old and that no deletion     *)
(*            still to come will remove                                    *)
(*                                                                         *)
(* and each request has its place (pc), its command (req) and the          *)
(* aggregate it has loaded (held).  A token, whether a session (access and *)
(* refresh token issued together) or a mailed link, is named for the       *)
(* request that issues it.                                                 *)
(***************************************************************************)
EXTENDS AuthUser, FiniteSets

CONSTANTS
    Request,      \* the requests that may be made
    Prior,        \* the session or link the account starts with
    Ops,          \* the use cases the requests may call
    MaxRestarts,  \* bound: how often the process may restart
    RedisFaults,  \* may Redis calls and the mail queue fail?
    DbFaults      \* may statements on Postgres fail?

UseCase == {"register", "verify", "resend", "login", "google", "refresh",
            "logout", "logoutAll", "change", "forgot", "reset"}

ASSUME AuthSessionsAssumption ==
    /\ Request \cup {Prior} \subseteq Token
    /\ Prior \notin Request
    /\ None \notin Token
    /\ None \notin UserRecord
    /\ Ops \subseteq UseCase
    /\ MaxRestarts \in Nat
    /\ RedisFaults \in BOOLEAN
    /\ DbFaults \in BOOLEAN

VARIABLES row, cache, pending, store, known, missed, pc, req, held, wrote, restarts

shared == <<row, cache, pending, store, known, missed>>
vars == <<row, cache, pending, store, known, missed, pc, req, held, wrote, restarts>>

Key == {"id", "email"}

(* "refresh" is two lookups: JwtRefreshGuard validates the token first *)
Op == UseCase \cup {"validate"}

Place == {"idle", "exists", "redeem", "guard", "blacklist", "get", "read",
          "fill", "act", "audit", "consume", "store", "mail", "done", "failed"}

Answered == {"done", "failed"}

Command == [op : Op, token : Token \cup {None},
            cur : Password \cup {None}, new : Password \cup {None}]

NoCommand == [op |-> "login", token |-> None, cur |-> None, new |-> None]

Copy == UserRecord \cup {None}

TypeOK ==
    /\ row \in Copy
    /\ cache \in [Key -> Copy]
    /\ pending \subseteq Request \X Key
    /\ store \in [{"verify", "reset", "blacklist"} -> SUBSET Token]
    /\ known \in [{"session", "verify", "reset"} -> SUBSET Token]
    /\ missed \subseteq Key
    /\ pc \in [Request -> Place]
    /\ req \in [Request -> Command]
    /\ held \in [Request -> Copy]
    /\ wrote \subseteq Request
    /\ restarts \in 0 .. MaxRestarts

(* The accounts a run may start from, each built by the commands that make
   it: registered and not verified, in a session, with Google linked, created
   by Google. *)
InitialRows ==
    LET active(p) == RecordLogin(VerifyEmail(Registered(p)), Prior)
    IN  {None, RecordOAuthLogin(CreatedFromOAuth, Prior)}
        \cup {Registered(p) : p \in Password}
        \cup {active(p) : p \in Password}
        \cup {LinkOAuth(active(p)) : p \in Password}

PriorIf(test) == IF test THEN {Prior} ELSE {}

Init ==
    /\ row \in InitialRows
    /\ cache = [k \in Key |-> None]
    /\ pending = {}
    /\ known = [session |-> PriorIf(row # None /\ IsActive(row)),
                verify  |-> PriorIf(row # None /\ ~ IsActive(row)),
                reset   |-> {}]
    /\ store = [verify |-> known.verify, reset |-> {}, blacklist |-> {}]
    /\ missed = {}
    /\ pc = [r \in Request |-> "idle"]
    /\ req = [r \in Request |-> NoCommand]
    /\ held = [r \in Request |-> None]
    /\ wrote = {}
    /\ restarts = 0

-----------------------------------------------------------------------------
(* A Redis call succeeds (TRUE), or fails as CacheService lets it: it logs
   the error and answers a miss to a get, nothing to a set or a del. *)
RedisUp == IF RedisFaults THEN BOOLEAN ELSE {TRUE}

Goto(r, place) == pc' = [pc EXCEPT ![r] = place]

Drop(r) == held' = [held EXCEPT ![r] = None]

Old(k) == cache[k] \notin {None, row}

(* findByEmail or findById, each with a cache entry of its own *)
LookupKey(op) ==
    IF op \in {"login", "google", "resend", "forgot"} THEN "email" ELSE "id"

(* The kind of link a use case redeems or mails *)
LinkOf(op) == IF op \in {"reset", "forgot"} THEN "reset" ELSE "verify"

Entry(op) ==
    CASE op = "register" -> "exists"
      [] op \in {"verify", "reset"} -> "redeem"
      [] op \in {"logout", "logoutAll", "change"} -> "guard"
      [] OTHER -> "get"

(* What a client can put in a command: links and tokens it was given, any
   password. *)
Presentable(op) ==
    CASE op \in {"verify", "reset"} -> known[LinkOf(op)]
      [] op \in {"refresh", "logout", "logoutAll", "change"} -> known.session
      [] OTHER -> {None}

Start(r) ==
    /\ pc[r] = "idle"
    /\ \E op \in Ops :
         /\ \E t \in Presentable(op),
               c \in IF op \in {"register", "login", "change"} THEN Password ELSE {None},
               n \in IF op \in {"change", "reset"} THEN Password ELSE {None} :
              req' = [req EXCEPT ![r] =
                        [op |-> IF op = "refresh" THEN "validate" ELSE op,
                         token |-> t, cur |-> c, new |-> n]]
         /\ Goto(r, Entry(op))
    /\ UNCHANGED <<shared, held, wrote, restarts>>

(* register: isEmailExisting, a count that goes past the cache *)
CheckEmail(r) ==
    /\ pc[r] = "exists"
    /\ Goto(r, IF row = None THEN "act" ELSE "failed")
    /\ UNCHANGED <<shared, req, held, wrote, restarts>>

(* verify-email, reset-password: is the hashed link in Redis? *)
Redeem(r) ==
    /\ pc[r] = "redeem"
    /\ \E up \in RedisUp :
         Goto(r, IF up /\ req[r].token \in store[LinkOf(req[r].op)]
                 THEN "get" ELSE "failed")
    /\ UNCHANGED <<shared, req, held, wrote, restarts>>

(* JwtAuthGuard through validate-access-token: the blacklist is asked, and
   an unreachable blacklist answers that the token is not on it.  Then the
   account is looked up, and found: no use case deletes a row. *)
Authenticate(r) ==
    /\ pc[r] = "guard"
    /\ \E up \in RedisUp :
         Goto(r, CASE up /\ req[r].token \in store.blacklist -> "failed"
                   [] OTHER -> IF req[r].op = "change" THEN "get" ELSE "blacklist")
    /\ UNCHANGED <<shared, req, held, wrote, restarts>>

(* Mutant of Blacklist: logout only drops the refresh token *)
LeaveAccessToken(r) ==
    /\ pc[r] = "blacklist"
    /\ Goto(r, "get")
    /\ UNCHANGED <<shared, req, held, wrote, restarts>>

Blacklist(r) ==
    /\ pc[r] = "blacklist"
    /\ \E up \in RedisUp :
         store' = IF up THEN [store EXCEPT !.blacklist = @ \cup {req[r].token}]
                  ELSE store
    /\ Goto(r, "get")
    /\ UNCHANGED <<row, cache, missed, pending, known, req, held, wrote, restarts>>

-----------------------------------------------------------------------------
(* cache.wrap: a get, and after a miss the query and a set, three awaits *)

CacheGet(r) ==
    /\ pc[r] = "get"
    /\ \E up \in RedisUp :
         LET copy == IF up THEN cache[LookupKey(req[r].op)] ELSE None
         IN  /\ held' = [held EXCEPT ![r] = copy]
             /\ Goto(r, IF copy = None THEN "read" ELSE "act")
    /\ UNCHANGED <<shared, req, wrote, restarts>>

(* Mutant of WithoutUser: the lookup is repeated until the user is there *)
AwaitUser(op) == "get"

(* What a use case does when there is no such user: google-auth-callback
   goes on to create one, logout and forgot-password answer as if all were
   well, the others throw.  A null result is not cached. *)
WithoutUser(op) ==
    CASE op = "google" -> "act"
      [] op \in {"logout", "logoutAll", "forgot"} -> "done"
      [] OTHER -> "failed"

ReadRow(r) ==
    /\ pc[r] = "read"
    /\ held' = [held EXCEPT ![r] = row]
    /\ Goto(r, IF row = None THEN WithoutUser(req[r].op) ELSE "fill")
    /\ UNCHANGED <<shared, req, wrote, restarts>>

Fill(r) ==
    /\ pc[r] = "fill"
    /\ \E up \in RedisUp :
         LET k == LookupKey(req[r].op)
         IN  /\ cache' = IF up THEN [cache EXCEPT ![k] = held[r]] ELSE cache
             /\ missed' = CASE ~ up -> missed
                            [] up /\ held[r] = row -> missed \ {k}
                            [] up /\ held[r] # row -> missed \cup {k}
    /\ Goto(r, "act")
    /\ UNCHANGED <<row, pending, store, known, req, held, wrote, restarts>>

-----------------------------------------------------------------------------
(* The use case itself, on the aggregate the request holds.  Between the
   load and the upsert it only computes (hashes, tokens), so the checks, the
   command and the upsert are one step. *)

(* Mutant of IsFresh: register upserts by email address *)
IsFreshFromGoogle(r) == req[r].op = "google" /\ held[r] = None

(* register and a first Google login write an aggregate of their own making,
   the others the one they loaded *)
IsFresh(r) == req[r].op = "register" \/ held[r] = None

(* google-auth-callback links the provider to an account that lacks it *)
GoogleUser(u) ==
    IF u = None THEN CreatedFromOAuth ELSE IF u.google THEN u ELSE LinkOAuth(u)

(* What each use case asks of the account before it goes on *)
MayLogin(u, c) == EnsureCanLogin(u) /\ u.password = c.cur

MayChangePassword(u, c) ==
    CanResetPassword(u) /\ u.password = c.cur /\ u.password # c.new

MayResetPassword(u, c) == CanResetPassword(u) /\ u.password # c.new

MayRefresh(u, c, r) == CanAddRefreshToken(RemoveRefreshToken(u, c.token), r)

Permitted(r) ==
    LET u == held[r]
        c == req[r]
    IN  CASE c.op \in {"verify", "resend"} -> CanVerifyEmail(u)
          [] c.op = "login" -> MayLogin(u, c)
          [] c.op = "google" -> CanAddRefreshToken(GoogleUser(u), r)
          [] c.op = "validate" -> CanRefreshToken(u)
          [] c.op = "refresh" -> MayRefresh(u, c, r)
          [] c.op = "change" -> MayChangePassword(u, c)
          [] c.op = "forgot" -> CanResetPassword(u)
          [] c.op = "reset" -> MayResetPassword(u, c)
          [] OTHER -> TRUE

Changed(r) ==
    LET u == held[r]
        c == req[r]
    IN  CASE c.op = "register" -> Registered(c.cur)
          [] c.op = "verify" -> VerifyEmail(u)
          [] c.op = "login" -> RecordLogin(u, r)
          [] c.op = "google" -> RecordOAuthLogin(GoogleUser(u), r)
          [] c.op = "validate" -> RevokeAllRefreshTokens(u)
          [] c.op = "refresh" -> RecordTokenRefresh(u, c.token, r)
          [] c.op = "logout" -> RecordLogout(u, c.token)
          [] c.op = "logoutAll" -> RecordLogout(u, None)
          [] c.op \in {"change", "reset"} -> SetPassword(u, c.new)

Saving == Op \ {"resend", "forgot", "validate"}

(* Mutant of SaveRow: the update writes all columns but the password, which
   only the password commands pass on *)
SaveColumns(r) ==
    /\ row' = IF row = None \/ req[r].op \in {"change", "reset"} THEN Changed(r)
              ELSE [Changed(r) EXCEPT !.password = row.password]
    /\ pending' = pending \cup {r} \X Key
    /\ wrote' = wrote \cup {r}

(* Mutant of SaveRow: the event names the entry by id only *)
SaveForgettingEmail(r) ==
    /\ row' = Changed(r)
    /\ pending' = pending \cup {<<r, "id">>}
    /\ wrote' = wrote \cup {r}

(* PrismaAuthUserRepository.save: an upsert of the whole row, then one event
   whose listener is called asynchronously. *)
SaveRow(r) ==
    /\ row' = Changed(r)
    /\ pending' = pending \cup {r} \X Key
    /\ wrote' = wrote \cup {r}

(* A client has its answer and with it, after a login or a refresh, a session *)
Finish(r) ==
    /\ Goto(r, "done")
    /\ known' = IF req[r].op \in {"login", "google", "refresh"}
                THEN [known EXCEPT !.session = @ \cup {r}] ELSE known

Reject(r) ==
    /\ pc[r] = "act"
    /\ ~ Permitted(r)
    /\ Goto(r, IF req[r].op = "forgot" THEN "done" ELSE "failed")
    /\ Drop(r)
    /\ UNCHANGED <<shared, req, wrote, restarts>>

(* JwtRefreshGuard lets the request through; the use case looks the user up
   again and does not test the token a second time. *)
AcceptRefreshToken(r) ==
    /\ pc[r] = "act"
    /\ req[r].op = "validate"
    /\ Permitted(r)
    /\ HasRefreshToken(held[r], req[r].token)
    /\ req' = [req EXCEPT ![r].op = "refresh"]
    /\ Goto(r, "get")
    /\ Drop(r)
    /\ UNCHANGED <<shared, wrote, restarts>>

(* A refresh token the account does not have: every session is revoked *)
RevokeSessions(r) ==
    /\ pc[r] = "act"
    /\ req[r].op = "validate"
    /\ Permitted(r)
    /\ ~ HasRefreshToken(held[r], req[r].token)
    /\ SaveRow(r)
    /\ Goto(r, "failed")
    /\ Drop(r)
    /\ UNCHANGED <<cache, store, known, missed, req, restarts>>

(* resend-email-verification, forgot-password: nothing is saved *)
Issue(r) ==
    /\ pc[r] = "act"
    /\ req[r].op \in {"resend", "forgot"}
    /\ Permitted(r)
    /\ Goto(r, "store")
    /\ Drop(r)
    /\ UNCHANGED <<shared, req, wrote, restarts>>

(* The email column is unique: creating a second row throws *)
Save(r) ==
    /\ pc[r] = "act"
    /\ req[r].op \in Saving
    /\ Permitted(r)
    /\ IsFresh(r) => row = None
    /\ SaveRow(r)
    /\ IF req[r].op = "refresh" THEN Finish(r)
       ELSE Goto(r, "audit") /\ UNCHANGED known
    /\ Drop(r)
    /\ UNCHANGED <<cache, store, missed, req, restarts>>

(* ... and so does any save, that of RevokeSessions too, when Postgres fails *)
SaveFails(r) ==
    /\ pc[r] = "act"
    /\ Permitted(r)
    /\ \/ req[r].op \in Saving /\ (DbFaults \/ (IsFresh(r) /\ row # None))
       \/ req[r].op = "validate" /\ DbFaults /\ ~ HasRefreshToken(held[r], req[r].token)
    /\ Goto(r, "failed")
    /\ Drop(r)
    /\ UNCHANGED <<shared, req, wrote, restarts>>

-----------------------------------------------------------------------------
(* After the save *)

Audit(r) ==
    /\ pc[r] = "audit"
    /\ CASE req[r].op = "register" -> Goto(r, "store") /\ UNCHANGED known
         [] req[r].op \in {"verify", "reset"} -> Goto(r, "consume") /\ UNCHANGED known
         [] OTHER -> Finish(r)
    /\ UNCHANGED <<row, cache, missed, pending, store, req, held, wrote, restarts>>

(* A query or the insert of the audit record throws and ends the request.
   withTransaction opens a transaction that neither the repository nor the audit
   service writes in, so what was saved before stays. *)
StatementFails(r) ==
    /\ DbFaults
    /\ pc[r] \in {"exists", "guard", "read", "audit"}
    /\ Goto(r, "failed")
    /\ UNCHANGED <<shared, req, held, wrote, restarts>>

(* Mutant of Consume: the raw link is deleted where its hash is the key *)
ConsumeRawLink(r) ==
    /\ pc[r] = "consume"
    /\ Goto(r, "mail")
    /\ UNCHANGED <<shared, req, held, wrote, restarts>>

(* verify-email, reset-password: the redeemed link is deleted *)
Consume(r) ==
    /\ pc[r] = "consume"
    /\ \E up \in RedisUp :
         store' = IF up THEN [store EXCEPT ![LinkOf(req[r].op)] = @ \ {req[r].token}]
                  ELSE store
    /\ Goto(r, "mail")
    /\ UNCHANGED <<row, cache, missed, pending, known, req, held, wrote, restarts>>

(* register, resend-email-verification, forgot-password: a new link *)
StoreLink(r) ==
    /\ pc[r] = "store"
    /\ \E up \in RedisUp :
         store' = IF up THEN [store EXCEPT ![LinkOf(req[r].op)] = @ \cup {r}]
                  ELSE store
    /\ Goto(r, "mail")
    /\ UNCHANGED <<row, cache, missed, pending, known, req, held, wrote, restarts>>

(* The mail is queued; a mail that carries a link makes it known.  A queue
   that cannot be reached fails the request. *)
SendMail(r) ==
    /\ pc[r] = "mail"
    /\ Goto(r, "done")
    /\ known' = IF req[r].op \in {"register", "resend", "forgot"}
                THEN [known EXCEPT ![LinkOf(req[r].op)] = @ \cup {r}] ELSE known
    /\ UNCHANGED <<row, cache, missed, pending, store, req, held, wrote, restarts>>

MailFails(r) ==
    /\ RedisFaults
    /\ pc[r] = "mail"
    /\ Goto(r, "failed")
    /\ UNCHANGED <<shared, req, held, wrote, restarts>>

-----------------------------------------------------------------------------
(* Around the requests *)

(* UnifiedUserCacheInvalidationListener deletes both entries, in parallel *)
Invalidate(k) ==
    /\ \E r \in Request :
         /\ <<r, k>> \in pending
         /\ pending' = pending \ {<<r, k>>}
    /\ \E up \in RedisUp :
         /\ cache' = IF up THEN [cache EXCEPT ![k] = None] ELSE cache
         /\ missed' = CASE up -> missed \ {k}
                        [] ~ up /\ Old(k) -> missed \cup {k}
                        [] OTHER -> missed
    /\ UNCHANGED <<row, store, known, pc, req, held, wrote, restarts>>

(* The entries' time to live runs out *)
ExpireCache(k) ==
    /\ cache[k] # None
    /\ cache' = [cache EXCEPT ![k] = None]
    /\ missed' = missed \ {k}
    /\ UNCHANGED <<row, pending, store, known, pc, req, held, wrote, restarts>>

ExpireLink ==
    /\ \E kind \in {"verify", "reset"} : \E t \in store[kind] :
         store' = [store EXCEPT ![kind] = @ \ {t}]
    /\ UNCHANGED <<row, cache, missed, pending, known, pc, req, held, wrote, restarts>>

(* The process dies with its requests and with the listener's calls that
   were still to be made; Postgres, Redis and the clients go on. *)
Restart ==
    /\ restarts < MaxRestarts
    /\ restarts' = restarts + 1
    /\ pending' = {}
    /\ missed' = missed \cup {k \in Key : Old(k) /\ \E r \in Request : <<r, k>> \in pending}
    /\ pc' = [r \in Request |->
                IF pc[r] \in {"idle"} \cup Answered THEN pc[r] ELSE "failed"]
    /\ held' = [r \in Request |-> None]
    /\ UNCHANGED <<row, cache, store, known, req, wrote>>

(* No request is in flight, nothing is left to do, no client need ask *)
Quiet ==
    /\ \A r \in Request : pc[r] \in {"idle"} \cup Answered
    /\ pending = {}
    /\ UNCHANGED vars

RequestStep(r) ==
    \/ CheckEmail(r) \/ Redeem(r) \/ Authenticate(r) \/ Blacklist(r)
    \/ CacheGet(r) \/ ReadRow(r) \/ Fill(r)
    \/ Reject(r) \/ AcceptRefreshToken(r) \/ RevokeSessions(r) \/ Issue(r)
    \/ Save(r) \/ SaveFails(r)
    \/ Audit(r) \/ StatementFails(r) \/ Consume(r) \/ StoreLink(r)
    \/ SendMail(r) \/ MailFails(r)

Next ==
    \/ \E r \in Request : Start(r) \/ RequestStep(r)
    \/ \E k \in Key : Invalidate(k) \/ ExpireCache(k)
    \/ ExpireLink
    \/ Restart
    \/ Quiet

Spec == Init /\ [][Next]_vars

(* The event loop runs what is ready *)
Fairness == \A r \in Request : WF_vars(RequestStep(r))

FairSpec == Spec /\ Fairness
-----------------------------------------------------------------------------
(* Properties *)

(* However stale the copies that requests save over each other, each of them,
   the row, the cache entries and the aggregates in flight, is a sound
   account: the validate() of AuthUser's constructor never throws for a row
   the use cases wrote. *)
CopiesSound ==
    /\ row # None => Sound(row)
    /\ \A k \in Key : cache[k] # None => Sound(cache[k])
    /\ \A r \in Request : held[r] # None => Sound(held[r])

(* Two registrations that both found the address free: register tests it
   (isEmailExisting) long before it saves, and one of them must fail. *)
OneRegistration ==
    \A r, q \in wrote : req[r].op = "register" /\ req[q].op = "register" => r = q

(* A link whose request has been answered is gone: no later request gets past
   the test of verify-email and reset-password with it.  (While the first one
   is still in flight a second one does.) *)
RedeemedLinkStaysDead ==
    [][\A r, q \in Request :
         /\ req[q].op \in {"verify", "reset"}
         /\ pc[q] = "done"
         /\ pc[r] = "redeem" /\ pc'[r] = "get"
         => ~ (req[r].op = req[q].op /\ req[r].token = req[q].token)]_vars

(* An access token a logout has been answered for opens nothing: JwtAuthGuard
   turns away the request that presents it, whatever is in flight. *)
LogoutEndsSession ==
    [][\A r, q \in Request :
         /\ req[q].op \in {"logout", "logoutAll"}
         /\ pc[q] = "done"
         /\ pc[r] = "guard" /\ pc'[r] # "guard"
         /\ req[r].token = req[q].token
         => pc'[r] = "failed"]_vars

(* A cache entry is old for one of four reasons only: the listener has not come
   to it yet, the fill that stored it was overtaken by a save, Redis failed its
   deletion, or the process died before it.  No save, of whichever use case and
   from however old a copy, leaves an entry behind that it does not ask to delete. *)
OldEntriesExplained ==
    \A k \in Key :
        Old(k) => k \in missed \/ \E r \in Request : <<r, k>> \in pending

(* Every request is answered, whatever fails and whatever overtakes it. *)
EveryRequestAnswered == \A r \in Request : pc[r] # "idle" ~> pc[r] \in Answered

(* The snapshots of the account that the cache and the requests have *)
Snapshots ==
    ({cache[k] : k \in Key} \cup {held[r] : r \in Request}) \ {None}

(* v is u after one use case that was permitted on u *)
IsCommand(u, v) ==
    \/ CanVerifyEmail(u) /\ v = VerifyEmail(u)
    \/ EnsureCanLogin(u) /\ \E t \in Token : v = RecordLogin(u, t)
    \/ \E t \in Token : /\ CanAddRefreshToken(GoogleUser(u), t)
                        /\ v = RecordOAuthLogin(GoogleUser(u), t)
    \/ \E old \in Token \cup {None}, new \in Token :
          /\ CanAddRefreshToken(RemoveRefreshToken(u, old), new)
          /\ v = RecordTokenRefresh(u, old, new)
    \/ \E t \in Token \cup {None} : v = RecordLogout(u, t)
    \/ CanRefreshToken(u) /\ v = RevokeAllRefreshTokens(u)
    \/ CanResetPassword(u) /\ \E p \in Password \ {u.password} : v = SetPassword(u, p)

FreshRows ==
    {Registered(p) : p \in Password}
    \cup {RecordOAuthLogin(CreatedFromOAuth, t) : t \in Token}

Account == INSTANCE SnapshotStore WITH
    Slot <- {"account"},
    Initial <- [{"account"} -> InitialRows],
    Fresh <- FreshRows,
    Commands <- {c \in UserRecord \X UserRecord : IsCommand(c[1], c[2])},
    store <- [s \in {"account"} |-> row],
    copies <- {"account"} \X Snapshots

(* The repository as a store of snapshots: whatever requests, cache fills,
   invalidations and restarts overlap, a saved row is one command of one use
   case on one account that was once the row, never a mixture of two. *)
RowIsOneCommand == Account!Spec

-----------------------------------------------------------------------------
(* What the documentation says and these use cases do not do: each of these
   is checked by a run that finds a counterexample. *)

(* "User must re-login with new password" (AUTHENTICATION_FLOW.md, change
   password): only change-password and reset-password replace a password.
   Broken when a request that loaded the account before the change saves its
   whole row after it. *)
ChangedPasswordStays ==
    [][/\ row # None
       /\ row'.password # row.password
       => \E r \in Request :
            /\ req[r].op \in {"change", "reset"}
            /\ pc[r] = "act" /\ pc'[r] = "audit"]_vars

(* "Revoke old refresh token" (AUTHENTICATION_FLOW.md, refresh): a refresh
   token is exchanged once.  Broken by two refreshes that both pass the
   guard before either has saved, or by one that reads an old cache entry. *)
RefreshedOnce ==
    \A r, q \in Request :
        /\ req[r].op = "refresh" /\ pc[r] = "done"
        /\ req[q].op = "refresh" /\ pc[q] = "done"
        /\ req[r].token = req[q].token
        => r = q

(* "Persist changes in transaction" (DEVELOPMENT_PATTERNS.md): a use case
   whose audit record cannot be written leaves nothing behind. *)
SaveAndAuditAtomic ==
    [][\A r \in Request :
         pc[r] = "audit" /\ pc'[r] = "failed" => r \notin wrote']_vars
=============================================================================
