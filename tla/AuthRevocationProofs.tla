------------------------ MODULE AuthRevocationProofs ------------------------
(***************************************************************************)
(* What ends for good in AuthSessions: the freedom of an address once it   *)
(* is registered, a link once it is redeemed, a session once it is logged  *)
(* out.  The last two are theorems for a Redis that answers; a blacklist   *)
(* that cannot be asked turns nobody away.                                 *)
(***************************************************************************)
EXTENDS AuthSessionsProofs

(* A row that is there stays there, so what a registration has written is
   seen by the upsert of the next one. *)
RegistrationInv ==
    /\ \A r \in wrote : pc[r] # "idle" /\ (req[r].op = "register" => row # None)
    /\ OneRegistration

LEMMA RegistrationStep ==
    ASSUME IInv, RegistrationInv, [Next]_vars
    PROVE  RegistrationInv'
<1>. USE DEF RegistrationInv, OneRegistration
<1>1. ASSUME NEW r \in Request, Start(r)
      PROVE  RegistrationInv'
  <2>1. /\ r \notin wrote
        /\ \A q \in Request \ {r} : req'[q] = req[q] /\ pc'[q] = pc[q]
        /\ UNCHANGED <<row, wrote>>
    BY <1>1 DEF Start, Goto, shared, IInv, Types
  <2>. QED  BY <2>1 DEF IInv, Types
<1>2. ASSUME NEW r \in Request, AcceptRefreshToken(r)
      PROVE  RegistrationInv'
  <2>1. /\ req'[r].op = "refresh"
        /\ pc'[r] = "get"
        /\ \A q \in Request \ {r} : req'[q] = req[q] /\ pc'[q] = pc[q]
        /\ UNCHANGED <<row, wrote>>
    BY <1>2 DEF AcceptRefreshToken, Goto, shared, IInv, Types, Command
  <2>. QED  BY <2>1 DEF IInv, Types
<1>3. ASSUME NEW r \in Request, Save(r) \/ RevokeSessions(r)
      PROVE  RegistrationInv'
  <2>1. row' # None
    <3>1. req[r].op \in UseCase \cup {"validate"} /\ req[r].op \notin {"resend", "forgot"}
      BY <1>3 DEF Save, Saving, RevokeSessions, Op, UseCase
    <3>2. Changed(r) \in SoundUser
      BY <1>3, <3>1, ChangedSound DEF Save, RevokeSessions
    <3>. QED
      BY <1>3, <3>2, AuthSessionsAssumption DEF Save, RevokeSessions, SaveRow, SoundUser
  <2>2. /\ req' = req
        /\ wrote' = wrote \cup {r}
        /\ pc'[r] # "idle"
        /\ \A q \in Request \ {r} : pc'[q] = pc[q]
    BY <1>3 DEF Save, RevokeSessions, SaveRow, Finish, Goto, IInv, Types
  <2>3. req[r].op = "register" => row = None
    BY <1>3 DEF Save, RevokeSessions, IsFresh
  <2>. QED  BY <2>1, <2>2, <2>3 DEF IInv, Types
<1>4. ASSUME NEW r \in Request,
             \/ CheckEmail(r) \/ Redeem(r) \/ Authenticate(r) \/ Blacklist(r)
             \/ CacheGet(r) \/ ReadRow(r) \/ Fill(r) \/ Reject(r) \/ Issue(r)
             \/ SaveFails(r) \/ Audit(r) \/ StatementFails(r) \/ Consume(r)
             \/ StoreLink(r) \/ SendMail(r) \/ MailFails(r)
      PROVE  RegistrationInv'
  <2>1. UNCHANGED <<row, req, wrote>>
    BY <1>4 DEF CheckEmail, Redeem, Authenticate, Blacklist, CacheGet, ReadRow, Fill, Reject,
       Issue, SaveFails, Audit, StatementFails, Consume, StoreLink, SendMail, MailFails, shared
  <2>2. PICK place \in Place \ {"idle"} : Goto(r, place)
    BY <1>4 DEF CheckEmail, Redeem, Authenticate, Blacklist, CacheGet, ReadRow, Fill, Reject,
       Issue, SaveFails, Audit, StatementFails, Consume, StoreLink, SendMail, MailFails,
       WithoutUser, Finish, Place
  <2>. QED  BY <2>1, <2>2 DEF Goto, IInv, Types
<1>5. CASE \/ \E k \in Key : Invalidate(k) \/ ExpireCache(k)
           \/ ExpireLink \/ Restart \/ Quiet
  <2>1. UNCHANGED <<row, req, wrote>>
    BY <1>5 DEF Invalidate, ExpireCache, ExpireLink, Restart, Quiet, vars
  <2>2. \A q \in Request : pc[q] # "idle" => pc'[q] # "idle"
    BY <1>5 DEF Invalidate, ExpireCache, ExpireLink, Restart, Quiet, vars, Answered,
       IInv, Types
  <2>. QED  BY <2>1, <2>2 DEF IInv, Types
<1>6. CASE UNCHANGED vars
  BY <1>6 DEF vars
<1>. QED  BY <1>1, <1>2, <1>3, <1>4, <1>5, <1>6 DEF Next, RequestStep

(* However many registrations have found the address free before any of them
   saved, one of them succeeds: the unique email column decides. *)
THEOREM OneRegistrationOnly == Spec => []OneRegistration
<1>1. Init => RegistrationInv
  BY DEF Init, RegistrationInv, OneRegistration
<1>2. IInv /\ RegistrationInv /\ [Next]_vars => RegistrationInv'
  BY RegistrationStep
<1>3. RegistrationInv => OneRegistration
  BY DEF RegistrationInv
<1>. QED  BY <1>1, <1>2, <1>3, InitInductive, StepInductive, PTL DEF Spec

-----------------------------------------------------------------------------
(* A link becomes known only when the request that stored it is done, so what
   is stored later is never the link that was redeemed. *)

Redeeming == {"verify", "reset"}

Leaving == {"logout", "logoutAll"}

Underway(r) ==
    /\ pc[r] \in {"redeem", "consume"} => req[r].op \in Redeeming
    /\ pc[r] = "store" => req[r].op \in {"register", "resend", "forgot"}
    /\ pc[r] = "mail" => req[r].op \notin Leaving

RevocationInv ==
    /\ \A r \in Request : Underway(r)
    /\ \A r \in Request : req[r].op \in Redeeming =>
         req[r].token \in known[LinkOf(req[r].op)]
    /\ \A r \in Request, kind \in Redeeming : r \in known[kind] => pc[r] = "done"
    /\ \A r \in Request : req[r].op \in Redeeming /\ pc[r] \in {"mail", "done"} =>
         req[r].token \notin store[LinkOf(req[r].op)]
    /\ \A r \in Request :
         /\ req[r].op \in Leaving
         /\ pc[r] \in {"get", "read", "fill", "act", "audit", "done"}
         => req[r].token \in store.blacklist

LEMMA RevocationInit == Init => RevocationInv
<1>. SUFFICES ASSUME Init PROVE RevocationInv
  OBVIOUS
<1>1. \A r \in Request : pc[r] = "idle" /\ req[r].op = "login"
  BY DEF Init, NoCommand
<1>2. \A kind \in Redeeming : known[kind] \subseteq {Prior}
  BY DEF Init, PriorIf, Redeeming
<1>. QED
  BY <1>1, <1>2, AuthSessionsAssumption DEF RevocationInv, Underway, Redeeming, Leaving

(* Starting: the link is one that was mailed *)
LEMMA RevocationStart ==
    ASSUME IInv, RevocationInv, NEW r \in Request, Start(r)
    PROVE  RevocationInv'
<1>0. PICK op \in Ops :
        /\ \E t \in Presentable(op),
              c \in IF op \in {"register", "login", "change"} THEN Password ELSE {None},
              n \in IF op \in {"change", "reset"} THEN Password ELSE {None} :
             req' = [req EXCEPT ![r] = [op |-> IF op = "refresh" THEN "validate" ELSE op,
                                        token |-> t, cur |-> c, new |-> n]]
        /\ Goto(r, Entry(op))
  BY DEF Start
<1>1. /\ op \in UseCase
      /\ req'[r].op = (IF op = "refresh" THEN "validate" ELSE op)
      /\ req'[r].token \in Presentable(op)
      /\ pc' = [pc EXCEPT ![r] = Entry(op)]
      /\ \A q \in Request \ {r} : req'[q] = req[q]
  <2>1. PICK t \in Presentable(op),
             c \in IF op \in {"register", "login", "change"} THEN Password ELSE {None},
             n \in IF op \in {"change", "reset"} THEN Password ELSE {None} :
          req' = [req EXCEPT ![r] = [op |-> IF op = "refresh" THEN "validate" ELSE op,
                                     token |-> t, cur |-> c, new |-> n]]
    BY <1>0
  <2>. QED  BY <1>0, <2>1, AuthSessionsAssumption DEF Goto, IInv, Types
<1>2. /\ req'[r].op \in Redeeming => req'[r].token \in known[LinkOf(req'[r].op)]
      /\ Entry(op) = "redeem" => req'[r].op \in Redeeming
  BY <1>1 DEF Presentable, Redeeming, Entry, LinkOf
<1>3. /\ Entry(op) \in {"exists", "redeem", "guard", "get"}
      /\ Entry(op) = "get" => req'[r].op \notin Leaving
  BY <1>1 DEF Entry, Leaving
<1>4. /\ \A q \in Request \ {r} : req'[q] = req[q] /\ pc'[q] = pc[q]
      /\ UNCHANGED <<store, known>>
      /\ pc[r] = "idle"
  BY <1>1 DEF Start, shared, IInv, Types
<1>5. pc'[r] = Entry(op)
  BY <1>1 DEF IInv, Types
<1>. QED  BY <1>2, <1>3, <1>4, <1>5 DEF RevocationInv, Underway, Redeeming

(* What every later step of a request does to links and blacklist: it may
   store a link of its own, which nobody knows before the request is done. *)
LEMMA RevocationMove ==
    ASSUME IInv, RevocationInv, NEW r \in Request, NEW place \in Place,
           pc[r] # "done",
           pc' = [pc EXCEPT ![r] = place],
           req' = req,
           \A kind \in Redeeming :
               /\ known[kind] \subseteq known'[kind]
               /\ known'[kind] \subseteq known[kind] \cup (IF place = "done" THEN {r} ELSE {})
               /\ store'[kind] \subseteq store[kind] \cup {r},
           store.blacklist \subseteq store'.blacklist,
           place # "redeem",
           place = "consume" => req[r].op \in Redeeming,
           place = "store" => req[r].op \in {"register", "resend", "forgot"},
           place = "mail" => req[r].op \notin Leaving,
           req[r].op \in Redeeming /\ place \in {"mail", "done"} =>
               req[r].token \notin store'[LinkOf(req[r].op)],
           req[r].op \in Leaving /\ place \in {"get", "read", "fill", "act", "audit", "done"}
               => req[r].token \in store'.blacklist
    PROVE  RevocationInv'
<1>1. pc'[r] = place /\ \A q \in Request \ {r} : pc'[q] = pc[q]
  BY DEF IInv, Types
<1>2. \A q \in Request : Underway(q)'
  BY <1>1 DEF RevocationInv, Underway
<1>3. \A q \in Request : req[q].op \in Redeeming => LinkOf(req[q].op) \in Redeeming
  BY DEF LinkOf, Redeeming
<1>4. \A q \in Request : req[q].op \in Redeeming =>
        req[q].token \in known'[LinkOf(req[q].op)]
  BY <1>3 DEF RevocationInv
<1>5. \A q \in Request, kind \in Redeeming : q \in known'[kind] => pc'[q] = "done"
  BY <1>1 DEF RevocationInv
<1>6. \A q \in Request : req[q].op \in Redeeming => req[q].token # r
  BY <1>3 DEF RevocationInv
<1>7. \A q \in Request : req[q].op \in Redeeming /\ pc'[q] \in {"mail", "done"} =>
        req[q].token \notin store'[LinkOf(req[q].op)]
  BY <1>1, <1>3, <1>6 DEF RevocationInv
<1>8. \A q \in Request :
        /\ req[q].op \in Leaving
        /\ pc'[q] \in {"get", "read", "fill", "act", "audit", "done"}
        => req[q].token \in store'.blacklist
  BY <1>1 DEF RevocationInv
<1>. QED  BY <1>2, <1>4, <1>5, <1>7, <1>8 DEF RevocationInv

LEMMA RevocationRequestStep ==
    ASSUME RedisFaults = FALSE, IInv, RevocationInv, NEW r \in Request,
           RequestStep(r), ~ AcceptRefreshToken(r)
    PROVE  RevocationInv'
<1>1. RedisUp = {TRUE}
  BY DEF RedisUp
<1>2. CASE \/ CheckEmail(r) \/ Redeem(r) \/ Authenticate(r) \/ StatementFails(r) \/ MailFails(r)
  BY <1>2, RevocationMove DEF CheckEmail, Redeem, Authenticate, StatementFails, MailFails, shared,
     Goto, Place, RevocationInv, Underway, IInv, Placed, Redeeming, Leaving
<1>3. CASE Blacklist(r)
  <2>1. /\ store.blacklist \subseteq store'.blacklist
        /\ req[r].token \in store'.blacklist
        /\ \A kind \in Redeeming : store'[kind] = store[kind]
    BY <1>1, <1>3 DEF Blacklist, IInv, Types, Redeeming
  <2>. QED
    BY <1>3, <2>1, RevocationMove DEF Blacklist, Goto, Place, IInv, Placed, Redeeming
<1>4. CASE CacheGet(r) \/ ReadRow(r) \/ Fill(r)
  <2>1. PICK place \in Place :
          /\ pc' = [pc EXCEPT ![r] = place]
          /\ place \in {"read", "fill", "act", "done", "failed"}
          /\ place = "done" => req[r].op \notin Redeeming
    BY <1>4 DEF CacheGet, ReadRow, Fill, Goto, WithoutUser, Place, Redeeming
  <2>2. UNCHANGED <<store, known, req>> /\ pc[r] \in {"get", "read", "fill"}
    BY <1>4 DEF CacheGet, ReadRow, Fill, shared
  <2>3. req[r].op \in Leaving => req[r].token \in store.blacklist
    BY <2>2 DEF RevocationInv
  <2>. QED  BY <2>1, <2>2, <2>3, RevocationMove
<1>5. CASE Reject(r) \/ RevokeSessions(r) \/ Issue(r) \/ SaveFails(r)
  <2>1. PICK place \in {"done", "failed", "store"} :
          /\ pc' = [pc EXCEPT ![r] = place]
          /\ place = "done" => req[r].op = "forgot"
          /\ place = "store" => req[r].op \in {"resend", "forgot"}
    BY <1>5 DEF Reject, RevokeSessions, Issue, SaveFails, Goto
  <2>2. UNCHANGED <<store, known, req>> /\ pc[r] = "act"
    BY <1>5 DEF Reject, RevokeSessions, Issue, SaveFails, shared
  <2>. QED  BY <2>1, <2>2, RevocationMove DEF Place, Redeeming, Leaving
<1>6. CASE Save(r)
  <2>1. PICK place \in {"done", "audit"} :
          /\ pc' = [pc EXCEPT ![r] = place]
          /\ place = "done" => req[r].op = "refresh"
    BY <1>6 DEF Save, Finish, Goto
  <2>2. UNCHANGED <<store, req>> /\ pc[r] = "act"
    BY <1>6 DEF Save
  <2>3. \A kind \in Redeeming : known'[kind] = known[kind]
    BY <1>6 DEF Save, Finish, IInv, Types, Redeeming
  <2>4. req[r].op \in Leaving => req[r].token \in store.blacklist
    BY <2>2 DEF RevocationInv
  <2>. QED
    BY <2>1, <2>2, <2>3, <2>4, RevocationMove DEF Place, Redeeming, Leaving
<1>7. CASE Audit(r)
  <2>1. PICK place \in {"store", "consume", "done"} :
          /\ pc' = [pc EXCEPT ![r] = place]
          /\ place = "store" => req[r].op = "register"
          /\ place = "consume" => req[r].op \in Redeeming
          /\ place = "done" => req[r].op \notin Redeeming
    BY <1>7 DEF Audit, Finish, Goto, Redeeming
  <2>2. UNCHANGED <<store, req>> /\ pc[r] = "audit"
    BY <1>7 DEF Audit
  <2>3. \A kind \in Redeeming : known'[kind] = known[kind]
    BY <1>7 DEF Audit, Finish, IInv, Types, Redeeming
  <2>4. req[r].op \in Leaving => req[r].token \in store.blacklist
    BY <2>2 DEF RevocationInv
  <2>. QED
    BY <2>1, <2>2, <2>3, <2>4, RevocationMove DEF Place
<1>8. CASE Consume(r)
  <2>1. req[r].op \in Redeeming /\ LinkOf(req[r].op) \in Redeeming
    BY <1>8 DEF Consume, RevocationInv, Underway, Redeeming, LinkOf
  <2>2. store' = [store EXCEPT ![LinkOf(req[r].op)] = @ \ {req[r].token}]
    BY <1>1, <1>8 DEF Consume
  <2>3. /\ \A kind \in Redeeming : store'[kind] \subseteq store[kind]
        /\ store'.blacklist = store.blacklist
        /\ req[r].token \notin store'[LinkOf(req[r].op)]
    BY <2>1, <2>2 DEF IInv, Types, Redeeming
  <2>. QED
    BY <1>8, <2>1, <2>3, RevocationMove DEF Consume, Goto, Place, Redeeming, Leaving
<1>9. CASE StoreLink(r)
  <2>1. req[r].op \in {"register", "resend", "forgot"}
    BY <1>9 DEF StoreLink, RevocationInv, Underway
  <2>2. /\ \A kind \in Redeeming : store'[kind] \subseteq store[kind] \cup {r}
        /\ store'.blacklist = store.blacklist
    BY <1>9, <2>1 DEF StoreLink, LinkOf, IInv, Types, Redeeming
  <2>. QED
    BY <1>9, <2>1, <2>2, RevocationMove DEF StoreLink, Goto, Place, Redeeming, Leaving
<1>10. CASE SendMail(r)
  <2>1. \A kind \in Redeeming : /\ known[kind] \subseteq known'[kind]
                                /\ known'[kind] \subseteq known[kind] \cup {r}
    BY <1>10 DEF SendMail, LinkOf, IInv, Types, Redeeming
  <2>2. req[r].op \notin Leaving
    BY <1>10 DEF SendMail, RevocationInv, Underway
  <2>3. req[r].op \in Redeeming => req[r].token \notin store[LinkOf(req[r].op)]
    BY <1>10 DEF SendMail, RevocationInv
  <2>. QED
    BY <1>10, <2>1, <2>2, <2>3, RevocationMove DEF SendMail, Goto, Place
<1>. QED
  BY <1>2, <1>3, <1>4, <1>5, <1>6, <1>7, <1>8, <1>9, <1>10 DEF RequestStep

LEMMA RevocationAccept ==
    ASSUME IInv, RevocationInv, NEW r \in Request, AcceptRefreshToken(r)
    PROVE  RevocationInv'
<1>1. /\ req'[r].op = "refresh" /\ pc'[r] = "get" /\ pc[r] = "act"
      /\ \A q \in Request \ {r} : req'[q] = req[q] /\ pc'[q] = pc[q]
      /\ UNCHANGED <<store, known>>
  BY DEF AcceptRefreshToken, Goto, shared, IInv, Types, Command
<1>. QED  BY <1>1 DEF RevocationInv, Underway, Redeeming, Leaving

(* Nothing around the requests adds a link or takes a token off the blacklist *)
LEMMA RevocationAround ==
    ASSUME IInv, RevocationInv,
           \/ \E k \in Key : Invalidate(k) \/ ExpireCache(k)
           \/ ExpireLink \/ Restart \/ Quiet \/ UNCHANGED vars
    PROVE  RevocationInv'
<1>1. UNCHANGED <<req, known>>
  BY DEF Invalidate, ExpireCache, ExpireLink, Restart, Quiet, vars
<1>2. \A q \in Request : pc'[q] = pc[q] \/ (pc'[q] = "failed" /\ pc[q] # "done")
  BY DEF Invalidate, ExpireCache, ExpireLink, Restart, Quiet, vars, Answered, IInv, Types
<1>3. /\ \A kind \in Redeeming : store'[kind] \subseteq store[kind]
      /\ store'.blacklist = store.blacklist
  BY DEF Invalidate, ExpireCache, ExpireLink, Restart, Quiet, vars, Redeeming, IInv, Types
<1>4. \A q \in Request : req[q].op \in Redeeming => LinkOf(req[q].op) \in Redeeming
  BY DEF LinkOf, Redeeming
<1>. QED  BY <1>1, <1>2, <1>3, <1>4 DEF RevocationInv, Underway

LEMMA RevocationStep ==
    ASSUME RedisFaults = FALSE, IInv, RevocationInv, [Next]_vars
    PROVE  RevocationInv'
BY RevocationStart, RevocationRequestStep, RevocationAccept, RevocationAround DEF Next

(* Which action takes a request out of a test *)
LEMMA OutOfRedeem ==
    ASSUME IInv, [Next]_vars, NEW r \in Request, pc[r] = "redeem", pc'[r] = "get"
    PROVE  Redeem(r)
<1>1. ASSUME NEW q \in Request, q # r, Start(q) \/ RequestStep(q)
      PROVE  pc'[r] = pc[r]
  BY <1>1 DEF Start, RequestStep, CheckEmail, Redeem, Authenticate, Blacklist, CacheGet,
     ReadRow, Fill, Reject, AcceptRefreshToken, RevokeSessions, Issue, Save, SaveFails, Audit,
     StatementFails, Consume, StoreLink, SendMail, MailFails, Finish, Goto, IInv, Types
<1>2. ASSUME Start(r) \/ RequestStep(r)
      PROVE  Redeem(r)
  BY <1>2 DEF Start, RequestStep, CheckEmail, Authenticate, Blacklist, CacheGet,
     ReadRow, Fill, Reject, AcceptRefreshToken, RevokeSessions, Issue, Save, SaveFails, Audit,
     StatementFails, Consume, StoreLink, SendMail, MailFails
<1>3. ASSUME \/ \E k \in Key : Invalidate(k) \/ ExpireCache(k)
             \/ ExpireLink \/ Restart \/ Quiet \/ UNCHANGED vars
      PROVE  pc'[r] # "get"
  BY <1>3 DEF Invalidate, ExpireCache, ExpireLink, Restart, Quiet, vars, Answered, IInv, Types
<1>. QED  BY <1>1, <1>2, <1>3 DEF Next

LEMMA OutOfGuard ==
    ASSUME IInv, [Next]_vars, NEW r \in Request, pc[r] = "guard", pc'[r] # "guard"
    PROVE  Authenticate(r) \/ pc'[r] = "failed"
<1>1. ASSUME NEW q \in Request, q # r, Start(q) \/ RequestStep(q)
      PROVE  pc'[r] = pc[r]
  BY <1>1 DEF Start, RequestStep, CheckEmail, Redeem, Authenticate, Blacklist, CacheGet,
     ReadRow, Fill, Reject, AcceptRefreshToken, RevokeSessions, Issue, Save, SaveFails, Audit,
     StatementFails, Consume, StoreLink, SendMail, MailFails, Finish, Goto, IInv, Types
<1>2. ASSUME Start(r) \/ RequestStep(r)
      PROVE  Authenticate(r) \/ pc'[r] = "failed"
  <2>1. Authenticate(r) \/ StatementFails(r)
    BY <1>2 DEF Start, RequestStep, CheckEmail, Redeem, Blacklist, CacheGet,
       ReadRow, Fill, Reject, AcceptRefreshToken, RevokeSessions, Issue, Save, SaveFails, Audit,
       Consume, StoreLink, SendMail, MailFails
  <2>. QED  BY <2>1 DEF StatementFails, Goto, IInv, Types
<1>3. ASSUME \/ \E k \in Key : Invalidate(k) \/ ExpireCache(k)
             \/ ExpireLink \/ Restart \/ Quiet \/ UNCHANGED vars
      PROVE  pc'[r] \in {"guard", "failed"}
  BY <1>3 DEF Invalidate, ExpireCache, ExpireLink, Restart, Quiet, vars, Answered, IInv, Types
<1>. QED  BY <1>1, <1>2, <1>3 DEF Next

(* A redeemed link is dead once its request is answered, for any number of
   requests that race for it and across restarts, as long as Redis answers. *)
THEOREM RedeemedLinksStayDead ==
    ASSUME RedisFaults = FALSE
    PROVE  Spec => RedeemedLinkStaysDead
<1>. DEFINE A == \A r, q \in Request :
                   /\ req[q].op \in {"verify", "reset"}
                   /\ pc[q] = "done"
                   /\ pc[r] = "redeem" /\ pc'[r] = "get"
                   => ~ (req[r].op = req[q].op /\ req[r].token = req[q].token)
<1>1. IInv /\ RevocationInv /\ [Next]_vars => A
  <2>. SUFFICES ASSUME IInv, RevocationInv, [Next]_vars,
                       NEW r \in Request, NEW q \in Request,
                       req[q].op \in {"verify", "reset"}, pc[q] = "done",
                       pc[r] = "redeem", pc'[r] = "get",
                       req[r].op = req[q].op, req[r].token = req[q].token
                PROVE  FALSE
    OBVIOUS
  <2>1. Redeem(r)
    BY OutOfRedeem
  <2>2. req[r].token \in store[LinkOf(req[r].op)]
    BY <2>1 DEF Redeem, Goto, IInv, Types
  <2>. QED  BY <2>2 DEF RevocationInv, Redeeming
<1>2. IInv /\ RevocationInv /\ [Next]_vars => RevocationInv'
  BY RevocationStep
<1>. QED
  BY <1>1, <1>2, InitInductive, StepInductive, RevocationInit, PTL
     DEF Spec, RedeemedLinkStaysDead

(* After an answered logout the access token opens nothing, whatever else is
   in flight and across restarts, as long as the blacklist can be asked. *)
THEOREM LogoutsEndSessions ==
    ASSUME RedisFaults = FALSE
    PROVE  Spec => LogoutEndsSession
<1>. DEFINE A == \A r, q \in Request :
                   /\ req[q].op \in {"logout", "logoutAll"}
                   /\ pc[q] = "done"
                   /\ pc[r] = "guard" /\ pc'[r] # "guard"
                   /\ req[r].token = req[q].token
                   => pc'[r] = "failed"
<1>1. IInv /\ RevocationInv /\ [Next]_vars => A
  <2>. SUFFICES ASSUME IInv, RevocationInv, [Next]_vars,
                       NEW r \in Request, NEW q \in Request,
                       req[q].op \in {"logout", "logoutAll"}, pc[q] = "done",
                       pc[r] = "guard", pc'[r] # "guard",
                       req[r].token = req[q].token
                PROVE  pc'[r] = "failed"
    OBVIOUS
  <2>1. req[r].token \in store.blacklist
    BY DEF RevocationInv, Leaving
  <2>2. CASE Authenticate(r)
    BY <2>1, <2>2 DEF Authenticate, RedisUp, Goto, IInv, Types
  <2>. QED  BY <2>2, OutOfGuard
<1>2. IInv /\ RevocationInv /\ [Next]_vars => RevocationInv'
  BY RevocationStep
<1>. QED
  BY <1>1, <1>2, InitInductive, StepInductive, RevocationInit, PTL
     DEF Spec, LogoutEndsSession
=============================================================================
