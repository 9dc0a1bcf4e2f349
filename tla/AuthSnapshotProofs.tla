------------------------- MODULE AuthSnapshotProofs -------------------------
(***************************************************************************)
(* The cached, concurrently saved account implements SnapshotStore: for    *)
(* any number of requests, faults and restarts a saved row is one          *)
(* permitted command on one account that once was the row.  Where one      *)
(* request at a time is served, it is one on the row itself, no refresh    *)
(* token is exchanged twice and a changed password stays.                  *)
(***************************************************************************)
EXTENDS AuthSessionsProofs

(* What a permitted request saves over the account it loaded is a command *)
LEMMA ChangedIsCommand ==
    ASSUME IInv, NEW r \in Request, pc[r] = "act", Permitted(r), held[r] # None,
           req[r].op \in Saving \cup {"validate"}, req[r].op # "register"
    PROVE  IsCommand(held[r], Changed(r))
<1>. DEFINE u == held[r]
            c == req[r]
<1>1. r \in Token /\ c.token \in Token \cup {None} /\ CommandFits(c)
  BY AuthSessionsAssumption DEF IInv, Types, Command
<1>2. CASE c.op = "verify"
  BY <1>2 DEF Permitted, Changed, IsCommand
<1>3. CASE c.op = "login"
  BY <1>1, <1>3 DEF Permitted, MayLogin, Changed, IsCommand
<1>4. CASE c.op = "google"
  BY <1>1, <1>4 DEF Permitted, Changed, IsCommand
<1>5. CASE c.op = "validate"
  BY <1>5 DEF Permitted, Changed, IsCommand
<1>6. CASE c.op = "refresh"
  BY <1>1, <1>6 DEF Permitted, MayRefresh, Changed, IsCommand
<1>7. CASE c.op \in {"logout", "logoutAll"}
  BY <1>1, <1>7 DEF Changed, IsCommand
<1>8. CASE c.op \in {"change", "reset"}
  BY <1>1, <1>8 DEF Permitted, MayChangePassword, MayResetPassword, Changed, IsCommand,
     CommandFits
<1>. QED
  BY <1>2, <1>3, <1>4, <1>5, <1>6, <1>7, <1>8 DEF Saving, Op, UseCase

(* A first save makes one of the fresh rows *)
LEMMA ChangedIsFresh ==
    ASSUME IInv, NEW r \in Request, pc[r] = "act", Permitted(r),
           req[r].op \in Saving \cup {"validate"}, held[r] = None \/ req[r].op = "register"
    PROVE  Changed(r) \in FreshRows
<1>1. r \in Token /\ CommandFits(req[r])
  BY AuthSessionsAssumption DEF IInv
<1>2. req[r].op \in {"register", "google"}
  BY DEF IInv, Placed
<1>3. CASE req[r].op = "register"
  BY <1>1, <1>3 DEF Changed, FreshRows, CommandFits
<1>4. CASE req[r].op = "google"
  BY <1>1, <1>4 DEF Changed, GoogleUser, FreshRows
<1>. QED  BY <1>2, <1>3, <1>4

-----------------------------------------------------------------------------
(* The two kinds of step of SnapshotStore, said of the account *)

TakesSnapshots ==
    /\ row' = row
    /\ Snapshots' \subseteq Snapshots \cup ({row} \ {None})

WritesCommand ==
    /\ Snapshots' \subseteq Snapshots
    /\ row' \in SoundUser
    /\ \/ row = None /\ row' \in FreshRows
       \/ \E u \in Snapshots : u \in SoundUser /\ IsCommand(u, row')

LEMMA TakesSnapshotsCopies ==
    ASSUME TakesSnapshots  PROVE  Account!Copy
BY DEF TakesSnapshots, Account!Copy, Account!Current

LEMMA WritesCommandWrites ==
    ASSUME WritesCommand  PROVE  Account!Write("account")
<1>1. [s \in {"account"} |-> row']
        = [[s \in {"account"} |-> row] EXCEPT !["account"] = row']
  OBVIOUS
<1>2. ({"account"} \X Snapshots)' \subseteq {"account"} \X Snapshots
  BY DEF WritesCommand
<1>3. CASE row = None /\ row' \in FreshRows
  BY <1>1, <1>2, <1>3 DEF Account!Write
<1>4. ASSUME NEW u \in Snapshots, u \in SoundUser, IsCommand(u, row')
      PROVE  Account!Write("account")
  <2>1. <<u, row'>> \in {c \in UserRecord \X UserRecord : IsCommand(c[1], c[2])}
    BY <1>4 DEF WritesCommand, SoundUser
  <2>2. <<"account", u>> \in {"account"} \X Snapshots
    BY <1>4
  <2>. QED  BY <1>1, <1>2, <2>1, <2>2 DEF Account!Write
<1>. QED  BY <1>3, <1>4 DEF WritesCommand

-----------------------------------------------------------------------------
(* Every step is one of the two *)

(* Most steps touch neither the row nor what is cached or held, or drop it *)
LEMMA KeepsOrDrops ==
    ASSUME IInv, row' = row,
           \A k \in Key : cache'[k] \in {cache[k], None},
           \A r \in Request : held'[r] \in {held[r], None}
    PROVE  TakesSnapshots
BY DEF TakesSnapshots, Snapshots

LEMMA LookupTakesSnapshots ==
    ASSUME IInv, NEW r \in Request, CacheGet(r) \/ ReadRow(r) \/ Fill(r)
    PROVE  TakesSnapshots
<1>1. LookupKey(req[r].op) \in Key
  BY DEF LookupKey, Key
<1>2. CASE CacheGet(r)
  <2>1. held'[r] \in {cache[LookupKey(req[r].op)], None}
    BY <1>2 DEF CacheGet, IInv, Copies
  <2>2. /\ row' = row /\ cache' = cache
        /\ \A q \in Request \ {r} : held'[q] = held[q]
    BY <1>2 DEF CacheGet, shared, IInv, Copies
  <2>. QED  BY <1>1, <2>1, <2>2 DEF TakesSnapshots, Snapshots
<1>3. CASE ReadRow(r)
  <2>1. /\ row' = row /\ cache' = cache /\ held'[r] = row
        /\ \A q \in Request \ {r} : held'[q] = held[q]
    BY <1>3 DEF ReadRow, shared, IInv, Copies
  <2>. QED  BY <2>1 DEF TakesSnapshots, Snapshots
<1>4. CASE Fill(r)
  <2>1. /\ row' = row /\ held' = held
        /\ \A k \in Key : cache'[k] \in {cache[k], held[r]}
    BY <1>1, <1>4 DEF Fill, IInv, Copies
  <2>. QED  BY <2>1 DEF TakesSnapshots, Snapshots
<1>. QED  BY <1>2, <1>3, <1>4

LEMMA SaveWritesCommand ==
    ASSUME IInv, NEW r \in Request, Save(r) \/ RevokeSessions(r)
    PROVE  WritesCommand
<1>1. /\ req[r].op \in Saving \cup {"validate"}
      /\ req[r].op \in UseCase \cup {"validate"} /\ req[r].op \notin {"resend", "forgot"}
      /\ pc[r] = "act" /\ Permitted(r) /\ row' = Changed(r)
      /\ cache' = cache /\ held' = [held EXCEPT ![r] = None]
  BY DEF Save, Saving, RevokeSessions, SaveRow, Drop, Op, UseCase
<1>2. Snapshots' \subseteq Snapshots
  BY <1>1 DEF Snapshots, IInv, Copies
<1>3. row' \in SoundUser
  BY <1>1, ChangedSound
<1>4. CASE held[r] = None \/ req[r].op = "register"
  <2>1. Save(r)
    BY <1>4 DEF RevokeSessions, Save, IInv, Placed
  <2>2. row = None
    BY <1>4, <2>1 DEF Save, IsFresh
  <2>3. row' \in FreshRows
    BY <1>1, <1>4, ChangedIsFresh
  <2>. QED  BY <1>2, <1>3, <2>2, <2>3 DEF WritesCommand
<1>5. CASE held[r] # None /\ req[r].op # "register"
  <2>1. held[r] \in Snapshots /\ held[r] \in SoundUser
    BY <1>5 DEF Snapshots, IInv, Copies, SoundCopy
  <2>2. IsCommand(held[r], row')
    BY <1>1, <1>5, ChangedIsCommand
  <2>. QED  BY <1>2, <1>3, <2>1, <2>2 DEF WritesCommand
<1>. QED  BY <1>4, <1>5

LEMMA StepSimulates ==
    ASSUME IInv, [Next]_vars  PROVE  TakesSnapshots \/ WritesCommand
<1>1. ASSUME NEW r \in Request, Start(r) \/ RequestStep(r)
      PROVE  TakesSnapshots \/ WritesCommand
  <2>1. CASE \/ Start(r) \/ CheckEmail(r) \/ Redeem(r) \/ Authenticate(r) \/ Blacklist(r)
             \/ Audit(r) \/ StatementFails(r) \/ Consume(r) \/ StoreLink(r)
             \/ SendMail(r) \/ MailFails(r)
    <3>1. UNCHANGED <<row, cache, held>>
      BY <2>1 DEF Start, CheckEmail, Redeem, Authenticate, Blacklist, Audit, StatementFails,
         Consume, StoreLink, SendMail, MailFails, shared
    <3>. QED  BY <3>1, KeepsOrDrops
  <2>2. CASE Reject(r) \/ AcceptRefreshToken(r) \/ Issue(r) \/ SaveFails(r)
    <3>1. UNCHANGED <<row, cache>> /\ held' = [held EXCEPT ![r] = None]
      BY <2>2 DEF Reject, AcceptRefreshToken, Issue, SaveFails, Drop, shared
    <3>. QED  BY <3>1, KeepsOrDrops DEF IInv, Copies
  <2>. QED
    BY <1>1, <2>1, <2>2, LookupTakesSnapshots, SaveWritesCommand DEF RequestStep
<1>2. ASSUME NEW k \in Key, Invalidate(k) \/ ExpireCache(k)
      PROVE  TakesSnapshots
  <2>1. row' = row /\ held' = held /\ \A j \in Key : cache'[j] \in {cache[j], None}
    BY <1>2 DEF Invalidate, ExpireCache, IInv, Copies
  <2>. QED  BY <2>1, KeepsOrDrops
<1>3. CASE ExpireLink \/ Restart \/ Quiet \/ UNCHANGED vars
  <2>1. /\ row' = row /\ cache' = cache
        /\ \A r \in Request : held'[r] \in {held[r], None}
    BY <1>3 DEF ExpireLink, Restart, Quiet, vars
  <2>. QED  BY <2>1, KeepsOrDrops
<1>. QED  BY <1>1, <1>2, <1>3 DEF Next

(* The use cases implement a store of snapshots: a saved account is one
   permitted command on one account that was once the row, for any number of
   overlapping requests, lost invalidations, faults and restarts. *)
THEOREM SavesAreCommands == Spec => RowIsOneCommand
<1>1. Init => Account!Init
  <2>. SUFFICES ASSUME Init PROVE Account!Init
    OBVIOUS
  <2>1. Snapshots = {}
    BY DEF Init, Snapshots
  <2>2. [s \in {"account"} |-> row] \in [{"account"} -> InitialRows]
    BY DEF Init
  <2>. QED  BY <2>1, <2>2 DEF Account!Init
<1>2. IInv /\ [Next]_vars
        => [Account!Next]_<<[s \in {"account"} |-> row], {"account"} \X Snapshots>>
  <2>. SUFFICES ASSUME IInv, [Next]_vars PROVE Account!Next
    OBVIOUS
  <2>. QED
    BY StepSimulates, TakesSnapshotsCopies, WritesCommandWrites DEF Account!Next
<1>. QED
  BY <1>1, <1>2, InitInductive, StepInductive, PTL DEF Spec, RowIsOneCommand, Account!Spec

-----------------------------------------------------------------------------
(* Orderly use.  SnapshotStore permits that an update is lost, and the runs
   that look for it find one: two calls overlap, or a call meets a cache entry
   whose deletion is still to come.  What follows shows that nothing else is
   behind it.  The hypothesis is on the callers, not on the code: one call is
   served at a time, the next one after the listener has deleted the entries,
   and a restart finds no deletion left to do. *)

Served(r) == pc[r] \notin {"idle"} \cup Answered

OneAtATime ==
    /\ \A r, q \in Request : Served(r) /\ Served(q) => r = q
    /\ \A r \in Request, p \in pending : Served(r) => p[1] = r

Orderly == OneAtATime' /\ (restarts' # restarts => pending = {})

(* The places a request can be in once it has saved *)
AfterSave == {"audit", "consume", "store", "mail", "done", "failed"}

(* Each copy is the row itself, or its deletion is still to come *)
CopiesCurrent ==
    /\ OneAtATime
    /\ \A p \in pending : pc[p[1]] \in AfterSave
    /\ \A k \in Key : cache[k] \in {None, row} \/ \E r \in Request : <<r, k>> \in pending
    /\ \A r \in Request : held[r] # None => held[r] = row /\ pc[r] \in {"fill", "act"}

WritesInOrder ==
    \/ row' = row
    \/ row = None /\ row' \in FreshRows
    \/ row # None /\ row \in UserRecord /\ row' \in UserRecord /\ IsCommand(row, row')

LEMMA NothingPending ==
    ASSUME IInv, CopiesCurrent, NEW r \in Request, pc[r] \notin AfterSave \cup {"idle"}
    PROVE  /\ pending = {}
           /\ \A k \in Key : cache[k] \in {None, row}
           /\ \A q \in Request \ {r} : ~ Served(q) /\ held[q] = None
<1>1. Served(r)
  BY DEF Served, AfterSave, Answered
<1>2. pending = {}
  BY <1>1 DEF CopiesCurrent, OneAtATime
<1>3. \A q \in Request \ {r} : ~ Served(q)
  BY <1>1 DEF CopiesCurrent, OneAtATime
<1>4. \A q \in Request : held[q] # None => Served(q)
  BY DEF CopiesCurrent, Served, Answered
<1>. QED  BY <1>2, <1>3, <1>4 DEF CopiesCurrent

(* A save writes over the row the copy it was made from *)
LEMMA SavesInOrder ==
    ASSUME IInv, CopiesCurrent, NEW r \in Request, Save(r) \/ RevokeSessions(r)
    PROVE  /\ WritesInOrder
           /\ \/ row = None /\ held[r] = None
              \/ row # None /\ held[r] = row /\ req[r].op # "register"
<1>1. /\ req[r].op \in Saving \cup {"validate"}
      /\ req[r].op \in UseCase \cup {"validate"} /\ req[r].op \notin {"resend", "forgot"}
      /\ pc[r] = "act" /\ Permitted(r) /\ row' = Changed(r)
  BY DEF Save, Saving, RevokeSessions, SaveRow, Op, UseCase
<1>2. row' \in UserRecord
  BY <1>1, ChangedSound DEF SoundUser
<1>3. held[r] # None => held[r] = row
  BY DEF CopiesCurrent
<1>4. held[r] = None \/ req[r].op = "register" => row = None
  <2>1. CASE Save(r)
    BY <2>1 DEF Save, IsFresh
  <2>2. CASE RevokeSessions(r)
    BY <2>2 DEF RevokeSessions, IInv, Placed
  <2>. QED  BY <2>1, <2>2
<1>5. CASE row = None
  BY <1>1, <1>3, <1>5, ChangedIsFresh DEF WritesInOrder
<1>6. CASE row # None
  <2>1. row \in UserRecord /\ held[r] = row /\ req[r].op # "register"
    BY <1>3, <1>4, <1>6 DEF IInv, Copies, SoundCopy, SoundUser
  <2>. QED  BY <1>1, <1>2, <1>6, <2>1, ChangedIsCommand DEF WritesInOrder
<1>. QED  BY <1>5, <1>6

LEMMA NextInOrder ==
    ASSUME IInv, CopiesCurrent, [Next]_vars
    PROVE  WritesInOrder
<1>1. ASSUME NEW r \in Request, Save(r) \/ RevokeSessions(r)
      PROVE  WritesInOrder
  BY <1>1, SavesInOrder
<1>2. CASE row' = row
  BY <1>2 DEF WritesInOrder
<1>. QED
  BY <1>1, <1>2
     DEF Next, RequestStep, Start, CheckEmail, Redeem, Authenticate, Blacklist, CacheGet,
         ReadRow, Fill, Reject, AcceptRefreshToken, Issue, SaveFails, Audit, StatementFails,
         Consume, StoreLink, SendMail, MailFails, Invalidate, ExpireCache, ExpireLink,
         Restart, Quiet, shared, vars

(* Most steps of a request only move it on and drop what it holds *)
LEMMA CurrentMove ==
    ASSUME IInv, CopiesCurrent, OneAtATime', NEW r \in Request, NEW place \in Place,
           pc[r] # "idle",
           pc' = [pc EXCEPT ![r] = place],
           UNCHANGED <<row, cache, pending>>,
           \/ held' = held /\ pc[r] \notin {"fill", "act"}
           \/ held' = [held EXCEPT ![r] = None],
           pc[r] \in AfterSave => place \in AfterSave
    PROVE  CopiesCurrent'
<1>1. pc'[r] = place /\ \A q \in Request \ {r} : pc'[q] = pc[q]
  BY DEF IInv, Types
<1>2. \A p \in pending : p[1] \in Request /\ pc'[p[1]] \in AfterSave
  BY <1>1 DEF IInv, Types, CopiesCurrent
<1>3. \A q \in Request : held'[q] # None => q # r /\ held'[q] = held[q]
  BY DEF IInv, Copies, CopiesCurrent
<1>. QED  BY <1>1, <1>2, <1>3 DEF CopiesCurrent

LEMMA CurrentLookup ==
    ASSUME RedisFaults = FALSE, IInv, CopiesCurrent, OneAtATime', NEW r \in Request,
           CacheGet(r) \/ ReadRow(r) \/ Fill(r)
    PROVE  CopiesCurrent'
<1>1. /\ pending = {} /\ pending' = {}
      /\ \A k \in Key : cache[k] \in {None, row}
      /\ \A q \in Request \ {r} : held[q] = None
      /\ row' = row
  BY NothingPending DEF AfterSave, CacheGet, ReadRow, Fill, shared
<1>2. /\ LookupKey(req[r].op) \in Key /\ RedisUp = {TRUE}
      /\ held \in [Request -> SoundCopy] /\ cache \in [Key -> SoundCopy]
      /\ pc \in [Request -> Place]
  BY DEF LookupKey, Key, RedisUp, IInv, Types, Copies
<1>3. CASE CacheGet(r)
  <2>1. /\ cache' = cache
        /\ held' = [held EXCEPT ![r] = cache[LookupKey(req[r].op)]]
        /\ cache[LookupKey(req[r].op)] # None => pc'[r] = "act"
    BY <1>2, <1>3 DEF CacheGet, Goto, shared
  <2>. QED  BY <1>1, <1>2, <2>1 DEF CopiesCurrent
<1>4. CASE ReadRow(r)
  <2>1. /\ cache' = cache
        /\ held' = [held EXCEPT ![r] = row]
        /\ row # None => pc'[r] = "fill"
    BY <1>2, <1>4 DEF ReadRow, Goto, shared
  <2>. QED  BY <1>1, <1>2, <2>1 DEF CopiesCurrent
<1>5. CASE Fill(r)
  <2>1. held[r] = row /\ held' = held /\ pc'[r] = "act"
    BY <1>2, <1>5 DEF Fill, Goto, IInv, Placed, CopiesCurrent
  <2>2. \A k \in Key : cache'[k] \in {None, row}
    BY <1>1, <1>2, <1>5, <2>1 DEF Fill
  <2>. QED  BY <1>1, <2>1, <2>2 DEF CopiesCurrent
<1>. QED  BY <1>3, <1>4, <1>5

(* A save makes every entry old and has its deletion pending *)
LEMMA CurrentSave ==
    ASSUME IInv, CopiesCurrent, OneAtATime', NEW r \in Request, Save(r) \/ RevokeSessions(r)
    PROVE  CopiesCurrent'
<1>1. /\ pending = {}
      /\ \A q \in Request \ {r} : held[q] = None
  BY NothingPending DEF AfterSave, Save, RevokeSessions
<1>2. pending' = {r} \X Key /\ pc'[r] \in AfterSave
  BY <1>1 DEF Save, RevokeSessions, SaveRow, Finish, Goto, AfterSave, IInv, Types
<1>3. \A q \in Request : held'[q] = None
  BY <1>1 DEF Save, RevokeSessions, Drop, IInv, Copies
<1>4. \A k \in Key : <<r, k>> \in pending'
  BY <1>2
<1>5. \A p \in pending' : p[1] = r
  BY <1>2
<1>. QED  BY <1>2, <1>3, <1>4, <1>5 DEF CopiesCurrent

LEMMA CurrentStep ==
    ASSUME RedisFaults = FALSE, IInv, CopiesCurrent, [Next]_vars, Orderly
    PROVE  CopiesCurrent'
<1>0. OneAtATime' /\ RedisUp = {TRUE}
  BY DEF Orderly, RedisUp
<1>1. ASSUME NEW r \in Request, Start(r)
      PROVE  CopiesCurrent'
  <2>1. /\ pc[r] = "idle" /\ pc' = [pc EXCEPT ![r] = pc'[r]]
        /\ pc'[r] \in {"exists", "redeem", "guard", "get"}
        /\ UNCHANGED <<row, cache, pending, held>>
    BY <1>1 DEF Start, Goto, Entry, shared, IInv, Types
  <2>2. held[r] = None /\ \A p \in pending : p[1] # r
    BY <2>1 DEF CopiesCurrent, AfterSave
  <2>3. \A q \in Request \ {r} : pc'[q] = pc[q]
    BY <2>1 DEF IInv, Types
  <2>4. \A p \in pending : p[1] \in Request /\ pc'[p[1]] \in AfterSave
    BY <2>2, <2>3 DEF CopiesCurrent, IInv, Types
  <2>. QED  BY <1>0, <2>1, <2>2, <2>3, <2>4 DEF CopiesCurrent
<1>2. ASSUME NEW r \in Request,
             \/ CheckEmail(r) \/ Redeem(r) \/ Authenticate(r) \/ Blacklist(r)
             \/ Audit(r) \/ StatementFails(r) \/ Consume(r) \/ StoreLink(r)
             \/ SendMail(r) \/ MailFails(r)
      PROVE  CopiesCurrent'
  <2>1. /\ UNCHANGED <<row, cache, pending, held>>
        /\ pc[r] \in {"exists", "redeem", "guard", "blacklist", "read", "audit", "consume",
                      "store", "mail"}
    BY <1>2 DEF CheckEmail, Redeem, Authenticate, Blacklist, Audit, StatementFails, Consume,
       StoreLink, SendMail, MailFails, shared
  <2>2. PICK place \in Place :
          /\ pc' = [pc EXCEPT ![r] = place]
          /\ pc[r] \in AfterSave => place \in AfterSave
    BY <1>2 DEF CheckEmail, Redeem, Authenticate, Blacklist, Audit, StatementFails, Consume,
       StoreLink, SendMail, MailFails, Finish, Goto, Place, AfterSave
  <2>. QED  BY <1>0, <2>1, <2>2, CurrentMove
<1>3. ASSUME NEW r \in Request,
             Reject(r) \/ AcceptRefreshToken(r) \/ Issue(r) \/ SaveFails(r)
      PROVE  CopiesCurrent'
  <2>1. /\ UNCHANGED <<row, cache, pending>> /\ pc[r] = "act"
        /\ held' = [held EXCEPT ![r] = None]
    BY <1>3 DEF Reject, AcceptRefreshToken, Issue, SaveFails, Drop, shared
  <2>2. PICK place \in Place : pc' = [pc EXCEPT ![r] = place]
    BY <1>3 DEF Reject, AcceptRefreshToken, Issue, SaveFails, Goto, Place
  <2>. QED  BY <1>0, <2>1, <2>2, CurrentMove DEF AfterSave
<1>4. ASSUME NEW k \in Key, Invalidate(k)
      PROVE  CopiesCurrent'
  <2>1. PICK r \in Request : pending' = pending \ {<<r, k>>}
    BY <1>4 DEF Invalidate
  <2>2. UNCHANGED <<row, pc, held>> /\ cache' = [cache EXCEPT ![k] = None]
    BY <1>0, <1>4 DEF Invalidate
  <2>3. \A j \in Key : j # k => cache'[j] = cache[j] /\ \A q \in Request :
          <<q, j>> \in pending => <<q, j>> \in pending'
    BY <2>1, <2>2
  <2>4. cache'[k] = None
    BY <2>2 DEF IInv, Copies
  <2>5. \A j \in Key : cache'[j] \in {None, row} \/ \E q \in Request : <<q, j>> \in pending'
    BY <2>3, <2>4 DEF CopiesCurrent
  <2>. QED  BY <1>0, <2>1, <2>2, <2>5 DEF CopiesCurrent
<1>5. ASSUME NEW k \in Key, ExpireCache(k)
      PROVE  CopiesCurrent'
  <2>1. /\ UNCHANGED <<row, pending, pc, held>>
        /\ \A j \in Key : cache'[j] \in {cache[j], None}
    BY <1>5 DEF ExpireCache, IInv, Copies
  <2>. QED  BY <1>0, <2>1 DEF CopiesCurrent
<1>6. ASSUME Restart
      PROVE  CopiesCurrent'
  <2>1. pending = {} /\ pending' = {} /\ UNCHANGED <<row, cache>>
    BY <1>6 DEF Restart, Orderly, IInv, Types
  <2>2. \A r \in Request : held'[r] = None
    BY <1>6 DEF Restart
  <2>. QED  BY <1>0, <2>1, <2>2 DEF CopiesCurrent
<1>7. ASSUME ExpireLink \/ Quiet \/ UNCHANGED vars
      PROVE  CopiesCurrent'
  BY <1>0, <1>7 DEF ExpireLink, Quiet, vars, CopiesCurrent
<1>. QED
  BY <1>0, <1>1, <1>2, <1>3, <1>4, <1>5, <1>6, <1>7, CurrentLookup, CurrentSave
     DEF Next, RequestStep

-----------------------------------------------------------------------------
(* Refresh tokens.  A refresh that is under way has its token in the row, one
   that is done has taken it out. *)

Exchanging == {"get", "read", "fill", "act"}

SpentInv ==
    /\ \A r \in Request : r \in known.session => pc[r] = "done"
    /\ \A r \in Request :
         req[r].op \in {"validate", "refresh"} => req[r].token \in known.session
    /\ \A r \in Request : req[r].op = "refresh" => pc[r] \in Exchanging \cup Answered
    /\ \A r \in Request : req[r].op = "refresh" /\ pc[r] \in Exchanging =>
         row # None /\ req[r].token \in Elements(row.tokens)
    /\ \A r \in Request : req[r].op = "refresh" /\ pc[r] = "done" /\ row # None =>
         req[r].token \notin Elements(row.tokens)
    /\ RefreshedOnce

(* What a saved account knows of tokens *)
LEMMA SavedTokens ==
    ASSUME IInv, NEW r \in Request, pc[r] = "act", Permitted(r),
           req[r].op \in Saving \cup {"validate"}
    PROVE  /\ \A t \in Elements(Changed(r).tokens) :
                t = r \/ (held[r] # None /\ t \in Elements(held[r].tokens))
           /\ req[r].op = "refresh" /\ req[r].token # r =>
                req[r].token \notin Elements(Changed(r).tokens)
<1>. DEFINE u == held[r]
            c == req[r]
<1>1. /\ r \in Token /\ c.token \in Token \cup {None}
      /\ u = None \/ (u \in UserRecord /\ u.tokens \in Seq(Token) /\ NoDuplicates(u.tokens))
      /\ u = None => c.op \in {"register", "google"}
  BY AuthSessionsAssumption
     DEF IInv, Types, Command, Copies, Placed, SoundCopy, SoundUser, Sound, UserRecord
<1>2. CASE c.op \in {"register", "validate", "logoutAll", "change", "reset"}
  <2>0. << >> \in Seq(Token)
    OBVIOUS
  <2>1. u # None => ClearRefreshTokens(u) \in UserRecord /\ ClearRefreshTokens(u).tokens = << >>
    BY <1>1, <2>0 DEF ClearRefreshTokens, UserRecord
  <2>2. Changed(r).tokens = << >>
    BY <1>1, <1>2, <2>1 DEF Changed, Registered, RevokeAllRefreshTokens, RecordLogout,
       SetPassword, UserRecord
  <2>3. Elements(<< >>) = {}
    BY DEF Elements
  <2>. QED  BY <1>2, <2>2, <2>3
<1>3. CASE c.op = "verify"
  BY <1>1, <1>3 DEF Changed, VerifyEmail, UserRecord
<1>4. CASE c.op = "login"
  BY <1>1, <1>4, PushedElements DEF Changed, RecordLogin, AddRefreshToken, UserRecord
<1>5. CASE c.op = "google"
  <2>1. GoogleUser(u) \in UserRecord
    <3>1. CreatedFromOAuth \in UserRecord
      BY DEF CreatedFromOAuth, UserRecord, Status
    <3>2. u # None => LinkOAuth(u) \in UserRecord
      BY <1>1 DEF LinkOAuth, UserRecord
    <3>. QED  BY <1>1, <3>1, <3>2 DEF GoogleUser
  <2>2. GoogleUser(u).tokens = IF u = None THEN << >> ELSE u.tokens
    BY <1>1 DEF GoogleUser, CreatedFromOAuth, LinkOAuth, UserRecord
  <2>3. Elements(<< >>) = {}
    BY DEF Elements
  <2>4. Changed(r).tokens = Pushed(GoogleUser(u).tokens, r)
    BY <1>5, <2>1 DEF Changed, RecordOAuthLogin, AddRefreshToken, UserRecord
  <2>5. GoogleUser(u).tokens \in Seq(Token)
    BY <2>1 DEF UserRecord
  <2>6. Elements(Changed(r).tokens) \subseteq Elements(GoogleUser(u).tokens) \cup {r}
    BY <1>1, <2>4, <2>5, PushedElements
  <2>. QED  BY <1>5, <2>2, <2>3, <2>6
<1>6. CASE c.op = "refresh"
  <2>1. u \in UserRecord /\ u # None
    BY <1>1, <1>6
  <2>. DEFINE w == Without(u.tokens, c.token)
  <2>2. w \in Seq(Token) /\ Elements(w) \subseteq Elements(u.tokens) /\ c.token \notin Elements(w)
    BY <1>1, <2>1, WithoutList, WithoutElements
  <2>3. Changed(r).tokens = Pushed(w, r)
    BY <1>6, <2>1 DEF Changed, RecordTokenRefresh, RemoveRefreshToken, AddRefreshToken, UserRecord
  <2>. HIDE DEF w
  <2>4. Elements(Changed(r).tokens) \subseteq Elements(w) \cup {r}
    BY <1>1, <2>2, <2>3, PushedElements
  <2>. QED  BY <2>1, <2>2, <2>4
<1>7. CASE c.op = "logout"
  <2>1. u \in UserRecord /\ u # None
    BY <1>1, <1>7
  <2>2. c.token \in Token /\ c.token # None
    BY <1>7, AuthSessionsAssumption DEF IInv, CommandFits
  <2>3. Changed(r).tokens = Without(u.tokens, c.token)
    BY <1>7, <2>1, <2>2 DEF Changed, RecordLogout, RemoveRefreshToken, UserRecord
  <2>. QED  BY <1>1, <1>7, <2>1, <2>3, WithoutElements
<1>. QED
  BY <1>1, <1>2, <1>3, <1>4, <1>5, <1>6, <1>7 DEF Saving, Op, UseCase

LEMMA SpentInit == Init => SpentInv
<1>. SUFFICES ASSUME Init PROVE SpentInv
  OBVIOUS
<1>1. \A r \in Request : pc[r] = "idle" /\ req[r].op = "login"
  BY DEF Init, NoCommand
<1>2. known.session \subseteq {Prior}
  BY DEF Init, PriorIf
<1>. QED  BY <1>1, <1>2, AuthSessionsAssumption DEF SpentInv, RefreshedOnce

(* A step of a request that leaves the row alone *)
LEMMA SpentMove ==
    ASSUME IInv, SpentInv, NEW r \in Request, NEW place \in Place,
           pc[r] \notin Answered,
           pc' = [pc EXCEPT ![r] = place],
           UNCHANGED <<row, req>>,
           known.session \subseteq known'.session,
           known'.session \subseteq known.session \cup (IF place = "done" THEN {r} ELSE {}),
           req[r].op = "refresh" => place \in {"read", "fill", "act", "failed"}
    PROVE  SpentInv'
<1>1. pc'[r] = place /\ \A q \in Request \ {r} : pc'[q] = pc[q]
  BY DEF IInv, Types
<1>2. req[r].op = "refresh" => pc[r] \in Exchanging /\ place \in (Exchanging \cup Answered) \ {"done"}
  BY DEF SpentInv, Exchanging, Answered
<1>3. \A q \in Request : q \in known'.session => pc'[q] = "done"
  BY <1>1 DEF SpentInv, Answered
<1>4. \A q \in Request : req[q].op = "refresh" =>
        /\ pc'[q] \in Exchanging \cup Answered
        /\ pc'[q] \in Exchanging => pc[q] \in Exchanging
        /\ pc'[q] = "done" => pc[q] = "done"
  BY <1>1, <1>2 DEF SpentInv
<1>. QED  BY <1>3, <1>4 DEF SpentInv, RefreshedOnce

LEMMA SpentStart ==
    ASSUME IInv, SpentInv, NEW r \in Request, Start(r)
    PROVE  SpentInv'
<1>1. PICK op \in Ops :
        /\ \E t \in Presentable(op),
              c \in IF op \in {"register", "login", "change"} THEN Password ELSE {None},
              n \in IF op \in {"change", "reset"} THEN Password ELSE {None} :
             req' = [req EXCEPT ![r] = [op |-> IF op = "refresh" THEN "validate" ELSE op,
                                        token |-> t, cur |-> c, new |-> n]]
        /\ Goto(r, Entry(op))
  BY DEF Start
<1>2. PICK t \in Presentable(op),
           c \in IF op \in {"register", "login", "change"} THEN Password ELSE {None},
           n \in IF op \in {"change", "reset"} THEN Password ELSE {None} :
        req' = [req EXCEPT ![r] = [op |-> IF op = "refresh" THEN "validate" ELSE op,
                                   token |-> t, cur |-> c, new |-> n]]
  BY <1>1
<1>3. /\ req'[r].op = (IF op = "refresh" THEN "validate" ELSE op)
      /\ req'[r].token = t
      /\ \A q \in Request \ {r} : req'[q] = req[q] /\ pc'[q] = pc[q]
      /\ pc[r] = "idle" /\ UNCHANGED <<row, known>>
  BY <1>1, <1>2 DEF Start, Goto, shared, IInv, Types
<1>4. /\ op \in UseCase /\ req'[r].op # "refresh"
      /\ req'[r].op = "validate" => req'[r].token \in known.session
  BY <1>2, <1>3, AuthSessionsAssumption DEF Presentable, UseCase
<1>. QED  BY <1>3, <1>4 DEF SpentInv, RefreshedOnce

(* JwtRefreshGuard has looked at the row itself *)
LEMMA SpentAccept ==
    ASSUME IInv, CopiesCurrent, SpentInv, NEW r \in Request, AcceptRefreshToken(r)
    PROVE  SpentInv'
<1>1. /\ req'[r].op = "refresh" /\ req'[r].token = req[r].token
      /\ req[r].op = "validate" /\ pc'[r] = "get" /\ pc[r] = "act"
      /\ \A q \in Request \ {r} : req'[q] = req[q] /\ pc'[q] = pc[q]
      /\ UNCHANGED <<row, known>>
  BY DEF AcceptRefreshToken, Goto, shared, IInv, Types, Command
<1>2. row # None /\ req[r].token \in Elements(row.tokens)
  <2>1. held[r] # None
    BY <1>1 DEF IInv, Placed
  <2>. QED  BY <2>1 DEF AcceptRefreshToken, HasRefreshToken, CopiesCurrent
<1>. QED  BY <1>1, <1>2 DEF SpentInv, RefreshedOnce, Exchanging, Answered

(* A save of any use case: the token a refresh presents leaves the row, and
   no save brings back one that has left it. *)
LEMMA SpentSave ==
    ASSUME IInv, CopiesCurrent, SpentInv, NEW r \in Request, Save(r) \/ RevokeSessions(r)
    PROVE  SpentInv'
<1>1. /\ req[r].op \in Saving \cup {"validate"}
      /\ pc[r] = "act" /\ Permitted(r) /\ row' = Changed(r) /\ req' = req
      /\ pc'[r] \in {"audit", "done", "failed"}
      /\ req[r].op = "refresh" <=> pc'[r] = "done"
      /\ \A q \in Request \ {r} : pc'[q] = pc[q]
  BY DEF Save, Saving, RevokeSessions, SaveRow, Finish, Goto, IInv, Types
<1>2. /\ known.session \subseteq known'.session
      /\ known'.session \subseteq known.session \cup (IF pc'[r] = "done" THEN {r} ELSE {})
  BY <1>1 DEF Save, RevokeSessions, Finish, Goto, IInv, Types
<1>3. \A q \in Request \ {r} : pc[q] \notin Exchanging
  BY <1>1, NothingPending DEF AfterSave, Served, Answered, Exchanging
<1>4. \A q \in Request : req[q].op = "refresh" => req[q].token # r
  BY <1>1 DEF SpentInv
<1>5. \A t \in Elements(row'.tokens) : t = r \/ (row # None /\ t \in Elements(row.tokens))
  BY <1>1, SavedTokens, SavesInOrder
<1>6. req[r].op = "refresh" => req[r].token \notin Elements(row'.tokens)
  BY <1>1, <1>4, SavedTokens
<1>7. \A q \in Request \ {r} : req[q].op = "refresh" /\ pc[q] = "done" =>
        /\ req[q].token \notin Elements(row'.tokens)
        /\ row # None => req[q].token \notin Elements(row.tokens)
  BY <1>4, <1>5 DEF SpentInv
<1>8. \A q \in Request \ {r} :
        req[r].op = "refresh" /\ req[q].op = "refresh" /\ pc[q] = "done"
        => req[q].token # req[r].token
  BY <1>1, <1>7 DEF SpentInv, Exchanging
<1>9. RefreshedOnce'
  BY <1>1, <1>8 DEF SpentInv, RefreshedOnce
<1>10. \A q \in Request : q \in known'.session => pc'[q] = "done"
  BY <1>1, <1>2 DEF SpentInv
<1>11. \A q \in Request : req[q].op = "refresh" => pc'[q] \in Answered
  BY <1>1, <1>3 DEF SpentInv, Answered
<1>12. \A q \in Request : req[q].op = "refresh" /\ pc'[q] = "done" =>
         req[q].token \notin Elements(row'.tokens)
  BY <1>1, <1>6, <1>7
<1>. QED
  BY <1>1, <1>2, <1>9, <1>10, <1>11, <1>12
     DEF SpentInv, Exchanging, Answered

LEMMA SpentStep ==
    ASSUME IInv, CopiesCurrent, SpentInv, [Next]_vars
    PROVE  SpentInv'
<1>1. ASSUME NEW r \in Request,
             \/ CheckEmail(r) \/ Redeem(r) \/ Authenticate(r) \/ Blacklist(r)
             \/ CacheGet(r) \/ ReadRow(r) \/ Fill(r) \/ Reject(r) \/ Issue(r)
             \/ SaveFails(r) \/ Audit(r) \/ StatementFails(r) \/ Consume(r)
             \/ StoreLink(r) \/ SendMail(r) \/ MailFails(r)
      PROVE  SpentInv'
  <2>1. UNCHANGED <<row, req>> /\ pc[r] \notin Answered
    BY <1>1 DEF CheckEmail, Redeem, Authenticate, Blacklist, CacheGet, ReadRow, Fill, Reject,
       Issue, SaveFails, Audit, StatementFails, Consume, StoreLink, SendMail, MailFails, shared,
       Answered
  <2>2. PICK place \in Place :
          /\ Goto(r, place)
          /\ known.session \subseteq known'.session
          /\ known'.session \subseteq known.session \cup (IF place = "done" THEN {r} ELSE {})
    BY <1>1 DEF CheckEmail, Redeem, Authenticate, Blacklist, CacheGet, ReadRow, Fill, Reject,
       Issue, SaveFails, Audit, StatementFails, Consume, StoreLink, SendMail, MailFails, shared,
       WithoutUser, Finish, LinkOf, Place, IInv, Types
  <2>3. req[r].op = "refresh" => place \in {"read", "fill", "act", "failed"}
    <3>1. pc'[r] = place
      BY <2>2 DEF Goto, IInv, Types
    <3>2. req[r].op = "refresh" => pc[r] \in Exchanging
      BY <2>1 DEF SpentInv
    <3>. QED
      BY <1>1, <3>1, <3>2 DEF CheckEmail, Redeem, Authenticate, Blacklist, CacheGet, ReadRow,
         Fill, Reject, Issue, SaveFails, Audit, StatementFails, Consume, StoreLink, SendMail,
         MailFails, WithoutUser, Goto, Exchanging, IInv, Types
  <2>. QED  BY <2>1, <2>2, <2>3, SpentMove DEF Goto
<1>2. ASSUME \/ \E k \in Key : Invalidate(k) \/ ExpireCache(k)
             \/ ExpireLink \/ Quiet \/ UNCHANGED vars
      PROVE  SpentInv'
  BY <1>2 DEF Invalidate, ExpireCache, ExpireLink, Quiet, vars, SpentInv, RefreshedOnce
<1>3. ASSUME Restart
      PROVE  SpentInv'
  <2>1. UNCHANGED <<row, known, req>>
    BY <1>3 DEF Restart
  <2>2. \A q \in Request : /\ pc[q] = "done" <=> pc'[q] = "done"
                           /\ pc'[q] \in Exchanging => pc[q] \in Exchanging
                           /\ pc[q] \in Exchanging \cup Answered => pc'[q] \in Answered
    BY <1>3 DEF Restart, Exchanging, Answered, IInv, Types
  <2>. QED  BY <2>1, <2>2 DEF SpentInv, RefreshedOnce
<1>. QED
  BY <1>1, <1>2, <1>3, SpentStart, SpentAccept, SpentSave DEF Next, RequestStep

-----------------------------------------------------------------------------
OrderlyInv == IInv /\ CopiesCurrent /\ SpentInv

LEMMA InitOrderly == Init => OrderlyInv
<1>1. Init => CopiesCurrent
  BY DEF Init, CopiesCurrent, OneAtATime, Served
<1>. QED  BY <1>1, InitInductive, SpentInit DEF OrderlyInv

LEMMA OrderlyStep ==
    ASSUME RedisFaults = FALSE
    PROVE  OrderlyInv /\ [Next]_vars /\ [Orderly]_vars => OrderlyInv'
<1>1. OrderlyInv /\ UNCHANGED vars => OrderlyInv'
  <2>1. OrderlyInv /\ UNCHANGED vars => CopiesCurrent'
    BY DEF vars, OrderlyInv, CopiesCurrent, OneAtATime, Served
  <2>. QED  BY <2>1, StepInductive, SpentStep DEF OrderlyInv
<1>. QED  BY <1>1, StepInductive, CurrentStep, SpentStep DEF OrderlyInv

(* Where calls do not overlap and Redis answers, no update is lost: each save
   is one permitted command made of the row that is there. *)
THEOREM OrderlySavesAtomic ==
    ASSUME RedisFaults = FALSE
    PROVE  Spec /\ [][Orderly]_vars => Account!AtomicSpec
<1>. DEFINE rows == [s \in {"account"} |-> row]
<1>1. Init => rows \in [{"account"} -> InitialRows]
  BY DEF Init
<1>2. OrderlyInv /\ [Next]_vars => [Account!AtomicNext]_rows
  <2>. SUFFICES ASSUME WritesInOrder PROVE [Account!AtomicNext]_rows
    BY NextInOrder DEF OrderlyInv
  <2>1. CASE row' = row
    BY <2>1
  <2>2. rows' = [rows EXCEPT !["account"] = rows'["account"]]
    OBVIOUS
  <2>3. CASE row = None /\ row' \in FreshRows
    BY <2>2, <2>3 DEF Account!AtomicNext, Account!AtomicWrite
  <2>4. CASE row # None /\ row \in UserRecord /\ row' \in UserRecord /\ IsCommand(row, row')
    <3>1. <<row, row'>> \in {c \in UserRecord \X UserRecord : IsCommand(c[1], c[2])}
      BY <2>4
    <3>. QED  BY <2>2, <2>4, <3>1 DEF Account!AtomicNext, Account!AtomicWrite
  <2>. QED  BY <2>1, <2>3, <2>4 DEF WritesInOrder
<1>. QED  BY <1>1, <1>2, InitOrderly, OrderlyStep, PTL DEF Spec, Account!AtomicSpec

(* Then a refresh token is exchanged once ... *)
THEOREM OrderlyRefreshedOnce ==
    ASSUME RedisFaults = FALSE
    PROVE  Spec /\ [][Orderly]_vars => []RefreshedOnce
<1>1. OrderlyInv => RefreshedOnce
  BY DEF OrderlyInv, SpentInv
<1>. QED  BY <1>1, InitOrderly, OrderlyStep, PTL DEF Spec

(* ... and only change-password and reset-password replace a password. *)
THEOREM OrderlyPasswordsStay ==
    ASSUME RedisFaults = FALSE
    PROVE  Spec /\ [][Orderly]_vars => ChangedPasswordStays
<1>. DEFINE A == /\ row # None
                 /\ row'.password # row.password
                 => \E r \in Request :
                      /\ req[r].op \in {"change", "reset"}
                      /\ pc[r] = "act" /\ pc'[r] = "audit"
<1>1. ASSUME OrderlyInv, NEW r \in Request, Save(r) \/ RevokeSessions(r)
      PROVE  A
  <2>. SUFFICES ASSUME row # None, row'.password # row.password
                PROVE  req[r].op \in {"change", "reset"} /\ pc[r] = "act" /\ pc'[r] = "audit"
    OBVIOUS
  <2>1. /\ row \in UserRecord /\ held[r] = row /\ req[r].op # "register"
        /\ row' = Changed(r) /\ pc[r] = "act"
        /\ req[r].op \in Saving \cup {"validate"}
    BY <1>1, SavesInOrder DEF OrderlyInv, IInv, Copies, SoundCopy, SoundUser, Save,
       RevokeSessions, SaveRow, Saving, Op
  <2>2. req[r].op \in {"change", "reset"}
    BY <2>1 DEF Changed, VerifyEmail, RecordLogin, RecordOAuthLogin, RecordTokenRefresh,
       RecordLogout, RevokeAllRefreshTokens, AddRefreshToken, RemoveRefreshToken,
       ClearRefreshTokens, GoogleUser, LinkOAuth, UserRecord, Saving, Op, UseCase
  <2>3. pc'[r] = "audit"
    BY <1>1, <2>2 DEF Save, RevokeSessions, Goto, OrderlyInv, IInv, Types
  <2>. QED  BY <2>1, <2>2, <2>3
<1>2. ASSUME OrderlyInv, [Next]_vars
      PROVE  A
  <2>1. CASE row' = row
    BY <2>1
  <2>. QED
    BY <1>1, <1>2, <2>1
       DEF Next, RequestStep, Start, CheckEmail, Redeem, Authenticate, Blacklist, CacheGet,
           ReadRow, Fill, Reject, AcceptRefreshToken, Issue, SaveFails, Audit, StatementFails,
           Consume, StoreLink, SendMail, MailFails, Invalidate, ExpireCache, ExpireLink,
           Restart, Quiet, shared, vars
<1>3. OrderlyInv /\ [Next]_vars => A
  BY <1>2
<1>. QED  BY <1>3, InitOrderly, OrderlyStep, PTL DEF Spec, ChangedPasswordStays
=============================================================================
