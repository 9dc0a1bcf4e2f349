------------------------- MODULE AuthSessionsProofs -------------------------
(***************************************************************************)
(* AuthSessions for any number of requests, tokens, passwords, restarts    *)
(* and faults: the types, that every copy of the account is sound, why a   *)
(* cache entry may be old, and that every step of a request brings it      *)
(* nearer to its answer.                                                   *)
(***************************************************************************)
EXTENDS AuthSessions, AuthUserProofs

(* What makes the types inductive: a command has the fields its use case
   reads, and a request that acts has something to act on. *)
CommandFits(c) ==
    /\ c.op = "register" => c.cur \in Password
    /\ c.op \in {"change", "reset"} => c.new \in Password
    /\ c.op \in {"logout", "logoutAll"} => c.token \in Token

Placed(r) ==
    /\ pc[r] = "exists" => req[r].op = "register"
    /\ pc[r] = "guard" => req[r].op \in {"logout", "logoutAll", "change"}
    /\ pc[r] = "blacklist" => req[r].op \in {"logout", "logoutAll"}
    /\ pc[r] = "fill" => held[r] # None
    /\ pc[r] = "act" /\ held[r] = None => req[r].op \in {"register", "google"}

SoundCopy == SoundUser \cup {None}

Copies ==
    /\ row \in SoundCopy
    /\ cache \in [Key -> SoundCopy]
    /\ held \in [Request -> SoundCopy]

Types ==
    /\ pending \subseteq Request \X Key
    /\ store \in [{"verify", "reset", "blacklist"} -> SUBSET Token]
    /\ known \in [{"session", "verify", "reset"} -> SUBSET Token]
    /\ pc \in [Request -> Place]
    /\ req \in [Request -> Command]
    /\ wrote \subseteq Request
    /\ restarts \in 0 .. MaxRestarts

IInv ==
    /\ Types
    /\ Copies
    /\ \A r \in Request : CommandFits(req[r]) /\ Placed(r)

-----------------------------------------------------------------------------
(* Saving *)

(* google-auth-callback: the login of an account that is new or has just been
   linked is recorded only when it is active. *)
LEMMA GoogleLoginSound ==
    ASSUME NEW u \in SoundCopy, NEW t \in Token, CanAddRefreshToken(GoogleUser(u), t)
    PROVE  RecordOAuthLogin(GoogleUser(u), t) \in SoundUser
<1>1. CASE u = None
  BY <1>1, FactoriesSound, AddRefreshTokenSound DEF GoogleUser, RecordOAuthLogin
<1>2. CASE u # None
  <2>1. u \in SoundUser
    BY <1>2 DEF SoundCopy
  <2>2. CASE u.google
    BY <1>2, <2>1, <2>2, AddRefreshTokenSound DEF GoogleUser, RecordOAuthLogin
  <2>3. CASE ~ u.google
    <3>1. GoogleUser(u) = LinkOAuth(u)
      BY <1>2, <2>3 DEF GoogleUser
    <3>2. LinkOAuth(u).tokens = u.tokens /\ LinkOAuth(u).status = u.status
      BY <2>1 DEF LinkOAuth, SoundUser, UserRecord
    <3>3. IsActive(u)
      BY <2>1, <3>1, <3>2 DEF CanAddRefreshToken, HasRefreshToken, Elements, IsActive,
         SoundUser, UserRecord, Sound, Reconstructible
    <3>. QED  BY <2>1, <3>1, <3>3, LinkOAuthSound, AddRefreshTokenSound DEF RecordOAuthLogin
  <2>. QED  BY <2>2, <2>3
<1>. QED  BY <1>1, <1>2

(* Whatever sound account a permitted request holds, the account it saves is
   sound too. *)
LEMMA ChangedSound ==
    ASSUME IInv, NEW r \in Request, pc[r] = "act", Permitted(r),
           req[r].op \in UseCase \cup {"validate"},
           req[r].op \notin {"resend", "forgot"}
    PROVE  Changed(r) \in SoundUser
<1>. DEFINE u == held[r]
            c == req[r]
<1>1. /\ r \in Token
      /\ u \in SoundCopy
      /\ c.op \notin {"register", "google"} => u \in SoundUser
      /\ CommandFits(c)
  BY AuthSessionsAssumption DEF IInv, Copies, Placed, SoundCopy
<1>2. CASE c.op = "register"
  BY <1>1, <1>2, FactoriesSound DEF Changed, CommandFits
<1>3. CASE c.op = "verify"
  BY <1>1, <1>3, VerifyEmailSound DEF Changed, Permitted
<1>4. CASE c.op = "login"
  <2>1. CanAddRefreshToken(u, r)
    BY <1>4 DEF Permitted, MayLogin, EnsureCanLogin, CanAddRefreshToken
  <2>. QED  BY <1>1, <1>4, <2>1, AddRefreshTokenSound DEF Changed, RecordLogin
<1>5. CASE c.op = "google"
  BY <1>1, <1>5, GoogleLoginSound DEF Changed, Permitted
<1>6. CASE c.op = "validate"
  BY <1>1, <1>6, ClearRefreshTokensSound DEF Changed, RevokeAllRefreshTokens
<1>7. CASE c.op = "refresh"
  BY <1>1, <1>7, RecordTokenRefreshSound DEF Changed, Permitted, MayRefresh
<1>8. CASE c.op \in {"logout", "logoutAll"}
  BY <1>1, <1>8, RecordLogoutSound DEF Changed
<1>9. CASE c.op \in {"change", "reset"}
  BY <1>1, <1>9, SetPasswordSound
     DEF Changed, Permitted, MayChangePassword, MayResetPassword, CommandFits
<1>. QED
  BY <1>2, <1>3, <1>4, <1>5, <1>6, <1>7, <1>8, <1>9 DEF UseCase

-----------------------------------------------------------------------------
(* The invariant holds to begin with ... *)

LEMMA InitialRowsSound == InitialRows \subseteq SoundCopy
<1>1. Prior \in Token
  BY AuthSessionsAssumption
<1>2. RecordOAuthLogin(CreatedFromOAuth, Prior) \in SoundUser
  <2>1. CanAddRefreshToken(CreatedFromOAuth, Prior)
    BY DEF CanAddRefreshToken, CreatedFromOAuth, IsActive
  <2>. QED  BY <1>1, <2>1, FactoriesSound, AddRefreshTokenSound DEF RecordOAuthLogin
<1>3. ASSUME NEW p \in Password
      PROVE  LET a == RecordLogin(VerifyEmail(Registered(p)), Prior)
             IN  a \in SoundUser /\ LinkOAuth(a) \in SoundUser
  <2>. DEFINE v == VerifyEmail(Registered(p))
              a == RecordLogin(v, Prior)
  <2>1. Registered(p) \in SoundUser
    BY FactoriesSound
  <2>2. CanVerifyEmail(Registered(p))
    BY AuthUserAssumption
       DEF CanVerifyEmail, Registered, IsActive, IsUsingLocalProvider
  <2>3. v \in SoundUser
    BY <2>1, <2>2, VerifyEmailSound
  <2>4. IsActive(v)
    BY DEF IsActive, VerifyEmail, Registered
  <2>5. a \in SoundUser
    BY <1>1, <2>3, <2>4, AddRefreshTokenSound DEF CanAddRefreshToken, RecordLogin
  <2>6. IsActive(a)
    BY <2>4 DEF RecordLogin, AddRefreshToken, IsActive, VerifyEmail, Registered
  <2>. QED  BY <2>5, <2>6, LinkOAuthSound
<1>. QED  BY <1>2, <1>3, FactoriesSound DEF InitialRows, SoundCopy

LEMMA InitInductive == Init => IInv
<1>. SUFFICES ASSUME Init PROVE IInv
  OBVIOUS
<1>. USE AuthSessionsAssumption DEF Init
<1>1. Copies
  BY InitialRowsSound DEF Copies, SoundCopy
<1>2. known \in [{"session", "verify", "reset"} -> SUBSET Token]
  <2>. DEFINE s == PriorIf(row # None /\ IsActive(row))
              v == PriorIf(row # None /\ ~ IsActive(row))
  <2>1. s \subseteq Token /\ v \subseteq Token
    BY DEF PriorIf
  <2>2. known = [session |-> s, verify |-> v, reset |-> {}]
    OBVIOUS
  <2>. HIDE DEF s, v
  <2>. QED  BY <2>1, <2>2
<1>3. known.verify \in SUBSET Token
  BY <1>2
<1>4. store \in [{"verify", "reset", "blacklist"} -> SUBSET Token]
  BY <1>3
<1>5. NoCommand \in Command /\ CommandFits(NoCommand)
  BY DEF NoCommand, Command, Op, UseCase, CommandFits
<1>6. Types
  BY <1>2, <1>4, <1>5 DEF Types, Place
<1>. QED  BY <1>1, <1>5, <1>6 DEF IInv, Placed

(* ... and every step keeps it: one lemma for each action. *)

LEMMA StartInductive ==
    ASSUME IInv, NEW r \in Request, Start(r)
    PROVE  IInv'
<1>. USE AuthSessionsAssumption
<1>0. PICK op \in Ops :
        /\ \E t \in Presentable(op),
              c \in IF op \in {"register", "login", "change"} THEN Password ELSE {None},
              n \in IF op \in {"change", "reset"} THEN Password ELSE {None} :
             req' = [req EXCEPT ![r] = [op |-> IF op = "refresh" THEN "validate" ELSE op,
                                        token |-> t, cur |-> c, new |-> n]]
        /\ Goto(r, Entry(op))
  BY DEF Start
<1>1. PICK t \in Presentable(op),
           c \in IF op \in {"register", "login", "change"} THEN Password ELSE {None},
           n \in IF op \in {"change", "reset"} THEN Password ELSE {None} :
        req' = [req EXCEPT ![r] = [op |-> IF op = "refresh" THEN "validate" ELSE op,
                                   token |-> t, cur |-> c, new |-> n]]
  BY <1>0
<1>. DEFINE cmd == [op |-> IF op = "refresh" THEN "validate" ELSE op,
                    token |-> t, cur |-> c, new |-> n]
<1>2. t \in Token \cup {None} /\ (op \in {"logout", "logoutAll"} => t \in Token)
  BY DEF IInv, Types, Presentable, LinkOf
<1>3. cmd \in Command /\ CommandFits(cmd)
  BY <1>2 DEF Command, Op, UseCase, CommandFits
<1>4. Entry(op) \in Place \ {"blacklist", "fill", "act"}
  BY DEF Entry, Place
<1>5. /\ Entry(op) = "exists" => cmd.op = "register"
      /\ Entry(op) = "guard" => cmd.op \in {"logout", "logoutAll", "change"}
  BY DEF Entry
<1>6. req' = [req EXCEPT ![r] = cmd] /\ pc' = [pc EXCEPT ![r] = Entry(op)]
  BY <1>0, <1>1 DEF Goto
<1>. HIDE DEF cmd
<1>7. Types'
  BY <1>3, <1>4, <1>6 DEF IInv, Types, Start, shared
<1>8. Copies'
  BY DEF IInv, Copies, Start, shared
<1>9. \A q \in Request : CommandFits(req'[q])
  BY <1>3, <1>6 DEF IInv, Types
<1>10. \A q \in Request : Placed(q)'
  BY <1>4, <1>5, <1>6 DEF IInv, Types, Placed, Start
<1>. QED  BY <1>7, <1>8, <1>9, <1>10 DEF IInv

(* What the steps of a request have in common: it moves on, with a sound copy
   or none in its hands, and the other requests stay where they are. *)
LEMMA MoveInductive ==
    ASSUME IInv, NEW r \in Request, NEW place \in Place, NEW copy \in SoundCopy,
           pc' = [pc EXCEPT ![r] = place],
           held' = [held EXCEPT ![r] = copy],
           UNCHANGED <<req, restarts>>,
           row' \in SoundCopy,
           cache' \in [Key -> SoundCopy],
           pending' \subseteq Request \X Key,
           store' \in [{"verify", "reset", "blacklist"} -> SUBSET Token],
           known' \in [{"session", "verify", "reset"} -> SUBSET Token],
           wrote' \subseteq Request,
           place \notin {"exists", "guard"},
           place = "blacklist" => req[r].op \in {"logout", "logoutAll"},
           place = "fill" => copy # None,
           place = "act" /\ copy = None => req[r].op \in {"register", "google"}
    PROVE  IInv'
<1>1. Types'
  BY DEF IInv, Types
<1>2. Copies'
  BY DEF IInv, Copies
<1>3. \A q \in Request : CommandFits(req[q])'
  BY DEF IInv, CommandFits
<1>4. \A q \in Request : Placed(q)'
  BY DEF IInv, Types, Copies, Placed
<1>. QED  BY <1>1, <1>2, <1>3, <1>4 DEF IInv

(* Such a step when it touches neither the account nor what was written *)
LEMMA StayInductive ==
    ASSUME IInv, NEW r \in Request, NEW place \in Place,
           pc' = [pc EXCEPT ![r] = place],
           held' = held \/ held' = [held EXCEPT ![r] = None],
           UNCHANGED <<row, cache, pending, req, wrote, restarts>>,
           store' \in [{"verify", "reset", "blacklist"} -> SUBSET Token],
           known' \in [{"session", "verify", "reset"} -> SUBSET Token],
           place \notin {"exists", "guard", "fill", "act"},
           place = "blacklist" => req[r].op \in {"logout", "logoutAll"}
    PROVE  IInv'
<1>1. PICK copy \in SoundCopy : held' = [held EXCEPT ![r] = copy]
  BY DEF IInv, Copies, SoundCopy
<1>. QED  BY <1>1, MoveInductive DEF IInv, Types, Copies

LEMMA CheckEmailInductive ==
    ASSUME IInv, NEW r \in Request, CheckEmail(r)
    PROVE  IInv'
<1>1. PICK place \in {"act", "failed"} : Goto(r, place)
  BY DEF CheckEmail
<1>2. held' = [held EXCEPT ![r] = held[r]] /\ held[r] \in SoundCopy
  BY DEF CheckEmail, IInv, Copies
<1>3. req[r].op = "register"
  BY DEF CheckEmail, IInv, Placed
<1>. QED
  BY <1>1, <1>2, <1>3, MoveInductive
     DEF Goto, Place, CheckEmail, shared, IInv, Types, Copies

LEMMA LookupInductive ==
    ASSUME IInv, NEW r \in Request, CacheGet(r) \/ ReadRow(r) \/ Fill(r)
    PROVE  IInv'
<1>. DEFINE key == LookupKey(req[r].op)
<1>1. key \in Key
  BY DEF LookupKey, Key
<1>2. CASE CacheGet(r)
  <2>1. PICK up \in RedisUp :
          LET copy == IF up THEN cache[key] ELSE None
          IN  /\ held' = [held EXCEPT ![r] = copy]
              /\ Goto(r, IF copy = None THEN "read" ELSE "act")
    BY <1>2 DEF CacheGet
  <2>. DEFINE copy == IF up THEN cache[key] ELSE None
              place == IF copy = None THEN "read" ELSE "act"
  <2>2. copy \in SoundCopy /\ place \in Place /\ (place = "act" => copy # None)
    BY <1>1 DEF IInv, Copies, SoundCopy, Place
  <2>3. place \notin {"exists", "guard", "blacklist", "fill"}
    OBVIOUS
  <2>4. held' = [held EXCEPT ![r] = copy] /\ pc' = [pc EXCEPT ![r] = place]
    BY <2>1 DEF Goto
  <2>5. UNCHANGED <<row, cache, pending, store, known, req, wrote, restarts>>
    BY <1>2 DEF CacheGet, shared
  <2>. HIDE DEF copy, place
  <2>. QED  BY <2>2, <2>3, <2>4, <2>5, MoveInductive DEF IInv, Types, Copies
<1>3. CASE ReadRow(r)
  <2>. DEFINE place == IF row = None THEN WithoutUser(req[r].op) ELSE "fill"
  <2>1. /\ place \in Place
        /\ place \notin {"exists", "guard", "blacklist"}
        /\ place = "fill" => row # None
        /\ place = "act" => req[r].op = "google"
    BY DEF WithoutUser, Place
  <2>2. held' = [held EXCEPT ![r] = row] /\ pc' = [pc EXCEPT ![r] = place]
    BY <1>3 DEF ReadRow, Goto
  <2>3. UNCHANGED <<row, cache, pending, store, known, req, wrote, restarts>>
    BY <1>3 DEF ReadRow, shared
  <2>. HIDE DEF place
  <2>. QED  BY <2>1, <2>2, <2>3, MoveInductive DEF IInv, Types, Copies
<1>4. CASE Fill(r)
  <2>1. held[r] \in SoundCopy /\ held[r] # None
    BY <1>4 DEF Fill, IInv, Copies, Placed
  <2>2. cache' \in [Key -> SoundCopy]
    BY <1>1, <1>4, <2>1 DEF Fill, IInv, Copies
  <2>3. held' = [held EXCEPT ![r] = held[r]] /\ pc' = [pc EXCEPT ![r] = "act"]
    BY <1>4 DEF Fill, Goto, IInv, Copies
  <2>4. UNCHANGED <<row, pending, store, known, req, wrote, restarts>>
    BY <1>4 DEF Fill
  <2>5. "act" \in Place
    BY DEF Place
  <2>. QED  BY <2>1, <2>2, <2>3, <2>4, <2>5, MoveInductive DEF IInv, Types, Copies
<1>. QED  BY <1>2, <1>3, <1>4

(* The steps that leave the account alone *)
LEMMA QuietStepsInductive ==
    ASSUME IInv, NEW r \in Request,
           \/ Redeem(r) \/ Authenticate(r) \/ Blacklist(r) \/ Reject(r) \/ Issue(r)
           \/ SaveFails(r) \/ Audit(r) \/ StatementFails(r) \/ Consume(r)
           \/ StoreLink(r) \/ SendMail(r) \/ MailFails(r)
    PROVE  IInv'
<1>1. r \in Token
  BY AuthSessionsAssumption
<1>2. CASE Redeem(r)
  <2>1. PICK place \in {"get", "failed"} : Goto(r, place)
    BY <1>2 DEF Redeem
  <2>. QED  BY <1>2, <2>1, StayInductive DEF Redeem, shared, Goto, Place, IInv, Types
<1>3. CASE Authenticate(r)
  <2>1. PICK place \in {"failed", "get", "blacklist"} :
          /\ Goto(r, place)
          /\ place = "blacklist" => req[r].op # "change"
    BY <1>3 DEF Authenticate
  <2>2. req[r].op \in {"logout", "logoutAll", "change"}
    BY <1>3 DEF Authenticate, IInv, Placed
  <2>. QED
    BY <1>3, <2>1, <2>2, StayInductive DEF Authenticate, shared, Goto, Place, IInv, Types
<1>4. CASE Blacklist(r)
  <2>1. req[r].token \in Token
    BY <1>4 DEF Blacklist, IInv, Placed, CommandFits
  <2>2. store' \in [{"verify", "reset", "blacklist"} -> SUBSET Token]
    BY <1>4, <2>1 DEF Blacklist, IInv, Types
  <2>. QED  BY <1>4, <2>2, StayInductive DEF Blacklist, Goto, Place, IInv, Types
<1>5. CASE Reject(r) \/ Issue(r) \/ SaveFails(r)
  <2>1. PICK place \in {"done", "failed", "store"} : Goto(r, place)
    BY <1>5 DEF Reject, Issue, SaveFails
  <2>2. held' = [held EXCEPT ![r] = None] /\ UNCHANGED <<shared, req, wrote, restarts>>
    BY <1>5 DEF Reject, Issue, SaveFails, Drop
  <2>. QED  BY <2>1, <2>2, StayInductive DEF shared, Goto, Place, IInv, Types
<1>6. CASE Audit(r)
  <2>1. known' \in [{"session", "verify", "reset"} -> SUBSET Token]
    BY <1>1, <1>6 DEF Audit, Finish, IInv, Types
  <2>2. PICK place \in {"store", "consume", "done"} : Goto(r, place)
    BY <1>6 DEF Audit, Finish
  <2>. QED  BY <1>6, <2>1, <2>2, StayInductive DEF Audit, Goto, Place, IInv, Types
<1>7. CASE StatementFails(r) \/ MailFails(r)
  BY <1>7, StayInductive DEF StatementFails, MailFails, shared, Goto, Place, IInv, Types
<1>8. CASE Consume(r) \/ StoreLink(r)
  <2>1. LinkOf(req[r].op) \in {"verify", "reset"}
    BY DEF LinkOf
  <2>2. store' \in [{"verify", "reset", "blacklist"} -> SUBSET Token]
    BY <1>1, <1>8, <2>1 DEF Consume, StoreLink, IInv, Types
  <2>. QED
    BY <1>8, <2>2, StayInductive DEF Consume, StoreLink, Goto, Place, IInv, Types
<1>9. CASE SendMail(r)
  <2>1. known' \in [{"session", "verify", "reset"} -> SUBSET Token]
    BY <1>1, <1>9 DEF SendMail, LinkOf, IInv, Types
  <2>. QED  BY <1>9, <2>1, StayInductive DEF SendMail, Goto, Place, IInv, Types
<1>. QED  BY <1>2, <1>3, <1>4, <1>5, <1>6, <1>7, <1>8, <1>9

(* The use case changes its command here and nowhere else *)
LEMMA AcceptRefreshTokenInductive ==
    ASSUME IInv, NEW r \in Request, AcceptRefreshToken(r)
    PROVE  IInv'
<1>1. req'[r] \in Command /\ CommandFits(req'[r])
  BY DEF AcceptRefreshToken, IInv, Types, Command, Op, UseCase, CommandFits
<1>2. Types'
  <2>1. req' \in [Request -> Command]
    BY <1>1 DEF AcceptRefreshToken, IInv, Types
  <2>2. pc' \in [Request -> Place]
    BY DEF AcceptRefreshToken, Goto, Place, IInv, Types
  <2>. QED  BY <2>1, <2>2 DEF AcceptRefreshToken, shared, IInv, Types
<1>3. Copies'
  BY DEF AcceptRefreshToken, shared, Drop, IInv, Copies, SoundCopy
<1>4. \A q \in Request : CommandFits(req'[q])
  BY <1>1 DEF AcceptRefreshToken, IInv, Types
<1>5. \A q \in Request : Placed(q)'
  BY DEF AcceptRefreshToken, Goto, Drop, IInv, Types, Copies, Placed
<1>. QED  BY <1>2, <1>3, <1>4, <1>5 DEF IInv

(* The steps that write the row *)
LEMMA SaveInductive ==
    ASSUME IInv, NEW r \in Request, Save(r) \/ RevokeSessions(r)
    PROVE  IInv'
<1>1. Changed(r) \in SoundUser
  <2>1. req[r].op \in UseCase \cup {"validate"} /\ req[r].op \notin {"resend", "forgot"}
    BY DEF Save, Saving, RevokeSessions, Op, UseCase
  <2>. QED  BY <2>1, ChangedSound DEF Save, RevokeSessions
<1>2. /\ row' \in SoundCopy
      /\ pending' \subseteq Request \X Key
      /\ wrote' \subseteq Request
  BY <1>1 DEF Save, RevokeSessions, SaveRow, SoundCopy, IInv, Types
<1>3. known' \in [{"session", "verify", "reset"} -> SUBSET Token]
  BY AuthSessionsAssumption DEF Save, RevokeSessions, Finish, IInv, Types
<1>4. PICK place \in {"done", "audit", "failed"} : Goto(r, place)
  BY DEF Save, RevokeSessions, Finish
<1>5. held' = [held EXCEPT ![r] = None] /\ UNCHANGED <<cache, store, req, restarts>>
  BY DEF Save, RevokeSessions, Drop
<1>6. None \in SoundCopy
  BY DEF SoundCopy
<1>. QED
  BY <1>2, <1>3, <1>4, <1>5, <1>6, MoveInductive DEF Goto, Place, IInv, Types, Copies

(* What happens around the requests *)
LEMMA AroundInductive ==
    ASSUME IInv,
           \/ \E k \in Key : Invalidate(k) \/ ExpireCache(k)
           \/ ExpireLink \/ Restart \/ Quiet
    PROVE  IInv'
<1>1. ASSUME NEW k \in Key, Invalidate(k) \/ ExpireCache(k)
      PROVE  IInv'
  <2>1. cache' \in [Key -> SoundCopy] /\ pending' \subseteq Request \X Key
    BY <1>1 DEF Invalidate, ExpireCache, IInv, Types, Copies, SoundCopy
  <2>. QED
    BY <1>1, <2>1 DEF Invalidate, ExpireCache, IInv, Types, Copies, Placed
<1>2. CASE ExpireLink
  <2>1. store' \in [{"verify", "reset", "blacklist"} -> SUBSET Token]
    BY <1>2 DEF ExpireLink, IInv, Types
  <2>. QED  BY <1>2, <2>1 DEF ExpireLink, IInv, Types, Copies, Placed
<1>3. CASE Restart
  <2>1. Types'
    BY <1>3, AuthSessionsAssumption DEF Restart, Answered, Place, IInv, Types
  <2>2. Copies'
    BY <1>3 DEF Restart, IInv, Copies, SoundCopy
  <2>3. \A q \in Request : Placed(q)'
    BY <1>3 DEF Restart, Answered, Placed, IInv, Types
  <2>. QED  BY <1>3, <2>1, <2>2, <2>3 DEF Restart, IInv
<1>4. CASE Quiet
  BY <1>4 DEF Quiet, vars, IInv, Types, Copies, Placed
<1>. QED  BY <1>1, <1>2, <1>3, <1>4

LEMMA StepInductive == IInv /\ [Next]_vars => IInv'
<1>. SUFFICES ASSUME IInv, [Next]_vars PROVE IInv'
  OBVIOUS
<1>1. ASSUME NEW r \in Request, Start(r) \/ RequestStep(r)
      PROVE  IInv'
  BY <1>1, StartInductive, CheckEmailInductive, LookupInductive, QuietStepsInductive,
     AcceptRefreshTokenInductive, SaveInductive DEF RequestStep
<1>2. CASE UNCHANGED vars
  BY <1>2 DEF vars, IInv, Types, Copies, Placed
<1>. QED  BY <1>1, <1>2, AroundInductive DEF Next

-----------------------------------------------------------------------------
(* Old cache entries.  A save asks for the deletion of both entries, so the steps
   that can leave one unexplained are those the history counts. *)
OldInv == missed \subseteq Key /\ OldEntriesExplained

LEMMA InitOld == Init => OldInv
BY DEF Init, OldInv, OldEntriesExplained, Old

LEMMA CacheStepExplained ==
    ASSUME IInv, OldInv,
           \/ \E r \in Request : Fill(r) \/ Save(r) \/ RevokeSessions(r)
           \/ \E k \in Key : Invalidate(k) \/ ExpireCache(k)
           \/ Restart
    PROVE  OldInv'
<1>. USE DEF OldInv, OldEntriesExplained, Old
<1>0. cache \in [Key -> SoundCopy] /\ held \in [Request -> SoundCopy]
  BY DEF IInv, Copies
<1>1. ASSUME NEW r \in Request, Fill(r)
      PROVE  OldInv'
  <2>. DEFINE k == LookupKey(req[r].op)
  <2>1. k \in Key
    BY DEF LookupKey, Key
  <2>2. UNCHANGED <<row, pending>>
    BY <1>1 DEF Fill
  <2>3. \/ cache' = [cache EXCEPT ![k] = held[r]]
           /\ missed' = IF held[r] = row THEN missed \ {k} ELSE missed \cup {k}
        \/ UNCHANGED <<cache, missed>>
    BY <1>1 DEF Fill
  <2>. HIDE DEF k
  <2>4. CASE UNCHANGED <<cache, missed>>
    BY <2>2, <2>4
  <2>5. CASE /\ cache' = [cache EXCEPT ![k] = held[r]]
             /\ missed' = IF held[r] = row THEN missed \ {k} ELSE missed \cup {k}
    <3>1. missed' \subseteq Key /\ \A j \in Key \ {k} : j \in missed => j \in missed'
      BY <2>1, <2>5
    <3>2. cache'[k] = held[r] /\ \A j \in Key \ {k} : cache'[j] = cache[j]
      BY <1>0, <2>1, <2>5
    <3>3. held[r] # row => k \in missed'
      BY <2>5
    <3>. QED  BY <2>2, <3>1, <3>2, <3>3
  <2>. QED  BY <2>3, <2>4, <2>5
<1>2. ASSUME NEW r \in Request, Save(r) \/ RevokeSessions(r)
      PROVE  OldInv'
  <2>1. pending' = pending \cup {r} \X Key /\ UNCHANGED missed
    BY <1>2 DEF Save, RevokeSessions, SaveRow
  <2>2. \A k \in Key : <<r, k>> \in pending'
    BY <2>1
  <2>. QED  BY <2>1, <2>2
<1>3. ASSUME NEW k \in Key, Invalidate(k)
      PROVE  OldInv'
  <2>1. /\ UNCHANGED row
        /\ \A r \in Request, j \in Key \ {k} : <<r, j>> \in pending => <<r, j>> \in pending'
    BY <1>3 DEF Invalidate
  <2>2. \/ cache' = [cache EXCEPT ![k] = None] /\ missed' = missed \ {k}
        \/ UNCHANGED cache /\ missed' = IF Old(k) THEN missed \cup {k} ELSE missed
    BY <1>3 DEF Invalidate
  <2>. QED  BY <1>0, <2>1, <2>2
<1>4. ASSUME NEW k \in Key, ExpireCache(k)
      PROVE  OldInv'
  BY <1>0, <1>4 DEF ExpireCache
<1>5. CASE Restart
  <2>1. /\ UNCHANGED <<row, cache>>
        /\ missed' = missed \cup {k \in Key : Old(k) /\ \E r \in Request : <<r, k>> \in pending}
    BY <1>5 DEF Restart
  <2>. QED  BY <2>1
<1>. QED  BY <1>1, <1>2, <1>3, <1>4, <1>5

LEMMA OldStep == IInv /\ OldInv /\ [Next]_vars => OldInv'
<1>. SUFFICES ASSUME IInv, OldInv, [Next]_vars PROVE OldInv'
  OBVIOUS
<1>1. CASE UNCHANGED <<row, cache, pending, missed>>
  BY <1>1 DEF OldInv, OldEntriesExplained, Old
<1>2. ASSUME NEW r \in Request, Start(r) \/ RequestStep(r),
             ~ (Fill(r) \/ Save(r) \/ RevokeSessions(r))
      PROVE  UNCHANGED <<row, cache, pending, missed>>
  BY <1>2 DEF Start, RequestStep, CheckEmail, Redeem, Authenticate, Blacklist, CacheGet, ReadRow,
     Reject, AcceptRefreshToken, Issue, SaveFails, Audit, StatementFails, Consume, StoreLink,
     SendMail, MailFails, shared
<1>3. ExpireLink \/ Quiet \/ UNCHANGED vars => UNCHANGED <<row, cache, pending, missed>>
  BY DEF ExpireLink, Quiet, vars
<1>. QED  BY <1>1, <1>2, <1>3, CacheStepExplained DEF Next

(* For any number of requests, a cache entry that is old is one that the listener
   will still delete, or one whose fill was overtaken, whose deletion Redis lost
   or whose deletion died with the process. *)
THEOREM OldEntriesAreExplained == Spec => []OldEntriesExplained
<1>1. OldInv => OldEntriesExplained
  BY DEF OldInv
<1>. QED  BY <1>1, InitOld, OldStep, InitInductive, StepInductive, PTL DEF Spec

(* No request, however it is interleaved with others, cut off by a restart or
   let down by Postgres or Redis, leaves a state outside TypeOK. *)
THEOREM TypesHold == Spec => []TypeOK
<1>1. IInv /\ OldInv => TypeOK
  BY DEF IInv, OldInv, Types, Copies, TypeOK, SoundCopy, SoundUser, Copy
<1>. QED  BY <1>1, InitOld, OldStep, InitInductive, StepInductive, PTL DEF Spec

(* Every copy of the account, in Postgres, in the cache and in the hands of a
   request, is sound, for any number of concurrent requests and any limit on
   the refresh tokens: no row is ever written that cannot be loaded again. *)
THEOREM CopiesStaySound == Spec => []CopiesSound
<1>1. IInv => CopiesSound
  BY DEF IInv, Copies, SoundCopy, SoundUser, CopiesSound
<1>. QED  BY <1>1, InitInductive, StepInductive, PTL DEF Spec

-----------------------------------------------------------------------------
(* How many steps of its own a request has ahead of it at most: eleven, for a
   refresh, which is two lookups *)
Ahead(place) ==
    CASE place \in Answered -> 0
      [] place = "mail" -> 1
      [] place \in {"consume", "store"} -> 2
      [] place = "audit" -> 3
      [] place = "act" -> 4
      [] place = "fill" -> 5
      [] place = "read" -> 6
      [] place = "get" -> 7
      [] place \in {"exists", "redeem", "blacklist"} -> 8
      [] place = "guard" -> 9
      [] place = "idle" -> 12

Remaining(r) ==
    IF req[r].op = "validate" /\ pc[r] \notin {"idle"} \cup Answered
    THEN Ahead(pc[r]) + 4 ELSE Ahead(pc[r])

(* A request that moves on under the same command *)
LEMMA MovesDown ==
    ASSUME IInv, NEW r \in Request, NEW place \in Place,
           pc' = [pc EXCEPT ![r] = place],
           req' = req,
           pc[r] \notin {"idle"} \cup Answered,
           place # "idle",
           Ahead(place) < Ahead(pc[r])
    PROVE  Remaining(r)' < Remaining(r)
<1>1. pc'[r] = place /\ req'[r] = req[r]
  BY DEF IInv, Types
<1>2. Ahead(place) \in Nat /\ Ahead(pc[r]) \in Nat /\ (place \in Answered => Ahead(place) = 0)
  BY DEF Ahead, Answered, Place, IInv, Types
<1>. QED  BY <1>1, <1>2 DEF Remaining

LEMMA RequestMoves ==
    ASSUME IInv, NEW r \in Request, Start(r) \/ RequestStep(r)
    PROVE  Remaining(r)' < Remaining(r)
<1>1. CASE Start(r)
  <2>1. /\ pc[r] = "idle" /\ pc'[r] \in {"exists", "redeem", "guard", "get"}
        /\ req'[r].op = "validate" => pc'[r] = "get"
    <3>1. PICK op \in Ops :
            /\ \E t \in Presentable(op),
                  c \in IF op \in {"register", "login", "change"} THEN Password ELSE {None},
                  n \in IF op \in {"change", "reset"} THEN Password ELSE {None} :
                 req' = [req EXCEPT ![r] = [op |-> IF op = "refresh" THEN "validate" ELSE op,
                                            token |-> t, cur |-> c, new |-> n]]
            /\ Goto(r, Entry(op))
      BY <1>1 DEF Start
    <3>2. req'[r].op = IF op = "refresh" THEN "validate" ELSE op
      BY <3>1 DEF IInv, Types
    <3>3. pc[r] = "idle" /\ pc'[r] = Entry(op) /\ op \in UseCase
      BY <1>1, <3>1, AuthSessionsAssumption DEF Start, Goto, IInv, Types
    <3>. QED  BY <3>2, <3>3 DEF Entry, UseCase
  <2>. QED  BY <2>1 DEF Remaining, Ahead, Answered
<1>2. CASE AcceptRefreshToken(r)
  <2>1. /\ req[r].op = "validate" /\ pc[r] = "act"
        /\ req'[r].op = "refresh" /\ pc'[r] = "get"
    BY <1>2 DEF AcceptRefreshToken, Goto, IInv, Types, Command
  <2>. QED  BY <2>1 DEF Remaining, Ahead, Answered
<1>3. CASE ~ Start(r) /\ ~ AcceptRefreshToken(r)
  <2>1. req' = req
    BY <1>3 DEF RequestStep, CheckEmail, Redeem, Authenticate, Blacklist, CacheGet, ReadRow,
       Fill, Reject, RevokeSessions, Issue, Save, SaveFails, Audit, StatementFails, Consume,
       StoreLink, SendMail, MailFails
  <2>2. PICK place \in Place :
          /\ pc' = [pc EXCEPT ![r] = place]
          /\ place # "idle" /\ pc[r] # "idle"
          /\ \/ pc[r] \in {"exists", "redeem"} /\ place \in {"act", "get", "failed"}
             \/ pc[r] = "guard" /\ place \in {"blacklist", "get", "failed"}
             \/ pc[r] = "blacklist" /\ place = "get"
             \/ pc[r] = "get" /\ place \in {"read", "act"}
             \/ pc[r] = "read" /\ place \in {"fill", "act", "done", "failed"}
             \/ pc[r] = "fill" /\ place = "act"
             \/ pc[r] = "act" /\ place \in {"audit", "store", "done", "failed"}
             \/ pc[r] = "audit" /\ place \in {"store", "consume", "done", "failed"}
             \/ pc[r] \in {"consume", "store"} /\ place = "mail"
             \/ pc[r] = "mail" /\ place \in {"done", "failed"}
    BY <1>3 DEF RequestStep, CheckEmail, Redeem, Authenticate, Blacklist, CacheGet, ReadRow,
       Fill, Reject, RevokeSessions, Issue, Save, SaveFails, Audit, StatementFails, Consume,
       StoreLink, SendMail, MailFails, Finish, WithoutUser, Goto, Place
  <2>3. Ahead(place) < Ahead(pc[r]) /\ pc[r] \notin {"idle"} \cup Answered
    BY <2>2 DEF Ahead, Answered
  <2>. QED  BY <2>1, <2>2, <2>3, MovesDown
<1>. QED  BY <1>1, <1>2, <1>3

(* No use case goes round in circles, whatever it meets: no step of a request
   but brings it nearer to its answer, and nothing else takes it further
   away.  With the fairness of FairSpec that is why every request is
   answered. *)
THEOREM RequestsMoveOn ==
    Spec => [][\A r \in Request :
                 /\ Remaining(r)' <= Remaining(r)
                 /\ Start(r) \/ RequestStep(r) => Remaining(r)' < Remaining(r)]_vars
<1>. DEFINE A == \A r \in Request :
                   /\ Remaining(r)' <= Remaining(r)
                   /\ Start(r) \/ RequestStep(r) => Remaining(r)' < Remaining(r)
<1>1. ASSUME IInv, [Next]_vars, NEW r \in Request
      PROVE  Remaining(r)' <= Remaining(r)
  <2>1. Remaining(r) \in Nat
    BY <1>1 DEF Remaining, Ahead, Answered, Place, IInv, Types
  <2>2. Remaining(r)' \in Nat
    BY <1>1, StepInductive DEF Remaining, Ahead, Answered, Place, IInv, Types
  <2>3. CASE UNCHANGED <<pc[r], req[r]>>
    BY <2>1, <2>3 DEF Remaining
  <2>4. CASE Restart
    <3>1. /\ req'[r] = req[r]
          /\ pc'[r] = IF pc[r] \in {"idle"} \cup Answered THEN pc[r] ELSE "failed"
      BY <2>4 DEF Restart
    <3>2. CASE pc[r] \in {"idle"} \cup Answered
      BY <2>3, <3>1, <3>2
    <3>3. CASE pc[r] \notin {"idle"} \cup Answered
      <4>1. Remaining(r)' = 0
        BY <3>1, <3>3 DEF Remaining, Ahead, Answered
      <4>. QED  BY <2>1, <4>1
    <3>. QED  BY <3>2, <3>3
  <2>5. ASSUME NEW q \in Request, q # r, Start(q) \/ RequestStep(q)
        PROVE  UNCHANGED <<pc[r], req[r]>>
    BY <1>1, <2>5 DEF Start, RequestStep, CheckEmail, Redeem, Authenticate, Blacklist, CacheGet,
       ReadRow, Fill, Reject, AcceptRefreshToken, RevokeSessions, Issue, Save, SaveFails,
       Audit, StatementFails, Consume, StoreLink, SendMail, MailFails, Finish, Goto, IInv, Types
  <2>6. CASE Start(r) \/ RequestStep(r)
    BY <1>1, <2>1, <2>2, <2>6, RequestMoves
  <2>. QED
    BY <1>1, <2>3, <2>4, <2>5, <2>6
       DEF Next, Invalidate, ExpireCache, ExpireLink, Quiet, vars
<1>2. IInv /\ [Next]_vars => A
  BY <1>1, RequestMoves
<1>. QED  BY <1>2, InitInductive, StepInductive, PTL DEF Spec
=============================================================================
