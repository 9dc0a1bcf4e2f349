# Verification of rag-keramik-nestjs

TLA+ models of the Keramik store backend (NestJS, Prisma on Postgres, Redis,
BullMQ), the TLC runs that check them and the TLAPS proofs about them.  The
models are translated from the code under `src/`; paths below are relative to
`src/src/` unless they start with `docs/`.

## 1. Inventory

| Part | State it keeps | Operations | Works with | What is hard |
|---|---|---|---|---|
| AuthUser aggregate (`modules/auth/domain`) | status, emailVerified, password, linked providers, at most five refresh tokens, deletedAt | register, fromOAuth, verifyEmail, recordLogin, recordLogout, recordTokenRefresh, changePassword, linkOAuth, deactivate ... | loaded and saved whole by the repository | `validate()` runs in the constructor only, commands do not run it |
| Authentication use cases (`modules/auth/application`) | none of their own; links and blacklist in Redis | the twelve use cases from register to validate-access-token | repository, cache, Redis, audit, mail | many awaits between reading and writing; nothing is locked or versioned |
| Auth repositories and cache (`modules/auth/infrastructure`, `core/.../cache`) | the row in Postgres, two cached copies of it (by id, by email, 300 s) | findById, findByEmail, isEmailExisting, save; get, set, del, wrap | the listener that invalidates after save | fills race with invalidations; Redis errors are swallowed |
| Cache invalidation (`core/.../cache-invalidator`) | calls in flight | one asynchronous listener per saved event | cache, Postgres | lost on restart |
| Unit of work, audit log (`core/.../prisma`, `core/.../audit`) | audit rows | withTransaction, create | the use cases | the transaction does not contain what is written in it |
| Mail (`core/.../mail`) | BullMQ queue | one enqueue per kind of mail, the processor, `retryFailedJobs`, clean-up | the use cases, the mail server | an unreachable queue fails the request; retries after lost answers and dead workers |
| Inventory (`modules/inventory`) | stock, reserved | addStock, removeStock, setStock, reserve, release, confirmReservation | events | overselling, events that contradict each other |
| Order (`modules/order`) | status, money, items, discount | create, markAsPaid, startFulfillment, complete, cancel, applyDiscount, removeDiscount, updateNotes | events | repeated commands, exceptions half way |
| Payment (`modules/payment`) | status, last payload | the marks, processWebhook | Midtrans' notifications | duplicated, late and reordered notifications |
| Discount (`modules/discount`) | status, period, limit, usage | activate, deactivate, markAsExpired, applyToOrder, reverseUsage, updateInfo | the clock | status and period disagree, limits are lowered |
| Cart (`modules/cart`) | lines | addItem, removeItem, updateItemQuantity, clear | - | merging, the limit of a line |
| Users (`modules/users`) | the profile columns of the same users table, a cached copy, a cached detail | patch and read the own profile, detail and list for administrators; a listener on Google logins that saves an avatar; the aggregate's phone, address and status commands | the row that auth writes, auth's events, the listener that invalidates after both modules' saves | two aggregates, each with caches of its own, upsert the columns they share |
| Products (`modules/products`) | the row, its cached copies by id and by SKU, cached lists under a version | create, update, delete, detail, list; the aggregate's status commands | Postgres, Redis, the partial unique index on the SKU | stale whole-row saves, SKU races, a cached list filled around a write |
| Read side (query repositories, mappers) | the cached list and detail entries above | queries | the same cache keys as the command repositories | fills that overtake invalidations |
| Product search, outbox, HTTP layer, configuration | - | queries, formatting, wiring | - | no state of their own (the outbox service is an empty file) |

Order, payment, inventory, discount and cart are domain modules: aggregates,
value objects and repository interfaces exist, repositories and use cases do
not, and no code makes one of them act on another.  They are modelled as the
aggregates they are, under every caller a later use case could be: any public
command in any order, the payment's seven marks included.  So are the
commands of the user and product aggregates, of which the use cases call a few.

What makes each part correct:

- accounts: no mixture of stale copies produces an account that cannot be
  loaded; token lists stay bounded and without repetition; one registration of
  an address wins; a redeemed link and a logged out access token stay dead; a
  changed password stays changed; a refresh token is exchanged once; a failed
  use case leaves nothing behind; every request is answered; a cache entry that
  is old has one of four known reasons; a saved row is one command on one
  former row;
- an account under both modules: whatever each writes back from its own stale
  copy, the account can be loaded and a verification stands; an old
  cache entry of either has one of five known reasons;
- users: no sequence of commands saves a user that cannot be loaded; phone and
  addresses of somebody set aside stay what they were;
- products: one SKU is for sale once; a list is no older than the writes
  answered before it was asked for; a saved row is one command on one former
  row; a deleted product stays deleted; the cache keeps no old product beyond
  what Redis and overtaken fills account for; the events tell the status;
- mail: every queued mail comes to an end, and is sent twice only where the
  queue could not know of the first time, and no more often than it is granted
  attempts;
- inventory: what is reserved is in stock; events add up to the stock; an empty
  shelf is made known;
- order: events tell each payment, completion and cancellation once; closed
  orders are frozen; the total is the sum of its parts, for every discount that
  fits;
- payment: each event once, one ending, never ahead of the provider unless the
  shop itself calls the mark, in the provider's last status in the end but for
  the three cases of section 3;
- discount: no use beyond the limit or outside the period in force;
- cart: one line for a product.

`PROJECT.json` lists the hazards behind these, each at its line.

## 2. Modules

    AuthUser ----- AccountLifecycle ----- AccountLifecycleProofs
       |  \                                /
       |   AuthUserProofs ----------------'
       |                  \
    AuthSessions ------ AuthSessionsProofs -- AuthRevocationProofs
       |    :                         \
       |    SnapshotStore (INSTANCE)   AuthSnapshotProofs
    MCAuthSessions

    Product ---- Products ------ ProductsProofs
       |           |   :
       |           |   SnapshotStore (INSTANCE)
       |       MCProducts
       |
    ProductLifecycle  UserLifecycle  MailQueue  Inventory  Order  Payment  Discount  Cart
           \______________\____________\_______|________/_______/________/________/
                                           Commerce ---- CommerceProofs
                                               |
                                           MCCommerce

    Profiles ---- ProfilesProofs
       |
    MCProfiles

**AuthUser** has no variables.  Each command of the aggregate is an operator on
account records, and what the command tests before it changes anything is a
predicate beside it.  `Reconstructible` is `validate()`.  A provider list is
one flag (only Google is ever linked), a timestamp that follows from another
field is dropped, a hash is the password it stands for.  Dates that went
through the cache come back as strings; nothing that is modelled compares them.

**AccountLifecycle** puts one account under *all* commands, those no use case
calls yet included: load (with `validate()`), any commands, save.

**AuthSessions** is the core: `Request` concurrent requests on one account.

| Variable | In the code |
|---|---|
| `row` | the account's row in Postgres |
| `cache` | the entries `auth:user:id:*` and `auth:user:email:*` in Redis |
| `pending` | asynchronous listener calls not made yet, one per save and key |
| `store` | the verification, reset and blacklist keys in Redis |
| `known` | sessions and links that clients and mailboxes hold |
| `missed` | history: entries that are old and that no deletion still to come removes |
| `pc`, `req`, `held` | a request's place, command and loaded aggregate |
| `wrote`, `restarts` | history: who has written; bound on restarts |

A step of **AuthSessions** is what runs between two awaits on Postgres, Redis
or the queue:

| Place | Action | Code |
|---|---|---|
| `exists` | `CheckEmail` | register's `isEmailExisting` |
| `redeem` | `Redeem` | the lookup of a hashed link |
| `guard` | `Authenticate` | JwtAuthGuard and validate-access-token |
| `blacklist` | `Blacklist` | logout's first await |
| `get`, `read`, `fill` | `CacheGet`, `ReadRow`, `Fill` | `CacheService.wrap` around the query |
| `act` | `Save`, `SaveFails`, `Reject`, `AcceptRefreshToken`, `RevokeSessions`, `Issue` | the use case on its aggregate and the upsert |
| `audit` | `Audit` | the audit record |
| all with a statement | `StatementFails`, `SaveFails` | Postgres throws: the address check, the guard's query, the lookup, the audit record, any save |
| `consume`, `store`, `mail` | `Consume`, `StoreLink`, `SendMail`, `MailFails` | after the save |
| - | `Invalidate`, `ExpireCache`, `ExpireLink`, `Restart` | the listener, time to live, the process |

The checks, the command and the upsert are one step because between the load
and the upsert a request only computes (hashes, signatures) on an object of its
own.  A refresh is two lookups, one for the guard and one for the use case,
and the model keeps both.  `withTransaction` adds no step: the repository takes
its client in its constructor and the audit service falls back to the plain
one, so each statement commits by itself.  `Start` gives a request any command
its client could send: any password, and links and tokens it was given.  `Permitted`,
`Changed` and `Save` stand for the checks, the command and the save of all use
cases; the map names one use case for each.  A session is named for the request that issues it, access and refresh token
together.

**SnapshotStore** is the abstract specification of a cached repository: whole
records, snapshots of them in the hands of caches and callers, and writes that
are one command on one snapshot, possibly an old one.  It says what the code
keeps to (no record is a mixture of two) and, by what it leaves open, what it
does not (an update may be lost).  `AtomicSpec` beside it is the promise a
caller may expect, a command on the record that is there; the proofs say when
the code keeps that one too.  AuthSessions implements it with one slot,
the account (`RowIsOneCommand`), Products with one slot per product
(`RowsAreCommands`).  The refinement mapping sends `store` to the row or the
table and `copies` to everything that holds a copy: cache entries and requests.
Profiles does not implement it, since there two kinds of copy are written to
parts of one row.

**Product** has no variables: the commands of the product aggregate that
the other two modules share, as operators on records.

**Products**: `Request` concurrent requests of the five use cases on one SKU.

| Variable | In the code |
|---|---|
| `table` | the rows, by id; the partial unique index is a guard of `Save` |
| `byId`, `bySku` | the entries that the command and the query repository fill |
| `version`, `pages` | the counter in the keys of cached lists, and a list under each version |
| `missed` | history, as in AuthSessions: entries that a fill, a lost deletion or a restart left old |
| `pc`, `req`, `held`, `view` | a request's place, command, loaded product, and what it has of a list |
| `since`, `wrote`, `announced` | history: whose writes were answered when a list was asked for; who has written; who has raised the version |

A create, update or delete is lookup, save, and then the deletions of both
entries and the raise of the version, each an await that a failing Redis turns
into nothing.  `AskDelete`, `Fetch` and `Remove` are the delete use case, which
asks whether the product may be deleted, and then loads it again.  A detail
that was served from the cache ends in an error (`AfterHit`, see 4).

**ProductLifecycle** and **UserLifecycle** are the aggregates under every
sequence of commands, **MailQueue** is `MailService`, BullMQ and
`MailProcessor`: attempts with back-off, a mail server that refuses or whose
answer is lost, a worker that dies with the jobs it holds and, the second time,
a stalled job that BullMQ gives up, calls of `retryFailedJobs` that may overlap,
each with a list of its own, and clean-up.  BullMQ is
modelled from the options the code gives it.

**Profiles** is one account under the use cases of users, and those of auth
that change the status or write back whatever status they loaded: verify,
login, google, logout.  `row` has
the name and the status, which both write, `verified`, which auth alone writes,
and one value for the profile, which users alone writes; contents are named
for the request that wrote them.  `cache` has the two entries of each module,
`pending` counts events on their way to the one listener.  Requests go through
`get`, `read`, `fill`, `act` as above.  A Google login goes on as "avatar", the
asynchronous listener that loads the user from the other module and saves it
once more.  `SaveProfile` without a change saves all the same and raises no
event.  Sessions, links and passwords are AuthSessions' matter and left out;
`signedIn` only says whether somebody has a token to call "me" with.
`missed` is history, as in AuthSessions; a save without a change adds what it
leaves old.  `recalled` is history: a logout has saved a copy from before the verification,
which takes the verification back, since `recordLogout` does not ask for the
status and the upsert writes all columns.

**Inventory**, **Order**, **Payment**, **Discount**, **Cart** have one action
per command; a command that throws before it changes anything is disabled, one
that throws after it (`applyDiscount`, `processWebhook`) changes what it had
changed.  `ledger`, `announced` and `raised` are history variables: what a
subscriber of the events knows; of a shelf that is empty from the start it knows
by InventoryCreated, since `create` raises no StockDepleted.  `MarkByShop` is a
call of any of the payment's seven public marks, which need neither payload nor
a word from the provider; `byShop` is history and keeps which were made.  Payment
includes the provider, modelled from what `processWebhook` and
`mapProviderStatus` expect of it: it moves its transaction on by itself, notifies
each change, and delivers a notification again until it is accepted, in any
order, and possibly once more.  A transaction may begin with a capture, a
settlement or an ending in place of "pending", and two words stand for those that
`mapProviderStatus` does not know: the payload is kept and the call throws.
`UpdateInfo` may combine any new period with any new limit.

**Commerce** composes the eight parts that have no shared state.  Since nothing
makes them interact, a behaviour exercises one of them (`focus`), which checks
exactly what eight separate specifications would, in one run.

**MCAuthSessions**, **MCProducts**, **MCProfiles**, **MCCommerce** give the
constants their values.

## 3. Runs

Bounds are constants of the `.cfg` files.

| Run | Bounds | Shows |
|---|---|---|
| `auth_faults` | 2 requests, 2 passwords, token limit 1, all use cases, Redis and database faults, 1 restart; symmetric | types; `CopiesSound`; `OneRegistration`; `OldEntriesExplained`; `RowIsOneCommand`, the refinement of SnapshotStore |
| `auth_interleavings` | 3 requests, 1 password, limit 2, verify, login, google, refresh, logout, no faults; symmetric | `CopiesSound` where pushes overflow; `RedeemedLinkStaysDead`; `LogoutEndsSession` |
| `auth_liveness` | 2 requests, verify, login, change, Redis and database faults, 1 restart | `EveryRequestAnswered` under `FairSpec` |
| `products` | 3 requests, all use cases, Redis faults, 1 restart | types; `OneLiveProductPerSku`; `ListsFresh`; `OldEntriesExplained`; `RowsAreCommands`; `RequestsAnswered` under `FairSpec` |
| `profiles` | 3 requests, all seven use cases, Redis faults, 1 restart | types; `AccountLoads`; `VerificationStands`; `OldEntriesExplained`; `ProfilesSettle` under `FairSpec` |
| `commerce` | amounts -1..5, stock to 4, 2 limits, 3 uses, 3 days, 2 products, 3 lines of at most 2; 2 descriptions, 2 phone numbers, 2 addresses of a kind; 2 mails, 3 attempts, 2 deaths, 2 sweeps | the twenty properties of the aggregates and of the mail queue |
| `auth_password_lost`, `auth_refresh_twice`, `auth_audit_fails`, `account_loads`, `product_revived`, `profile_lockout` | small | a counterexample each, see 4 |

Why the bounds are enough.  A lost update, a double redemption and a race of
registrations each need two requests; a third adds somebody who saves between
or after them, and a login, a refresh and a logout together overflow a list of
two tokens.  The token limit is 1 or 2 in place of 5 so that it is met.  One
restart is enough to lose whatever can be lost, since it may happen anywhere.
Three requests on products are a create against a create beside a deletion, and
a list between two writes; on a shared row, a writer of each module and
somebody who fills a cache between them; the lockout takes four and has its own
run.  Two deaths are what BullMQ's limit of
one stall takes, and two sweeps under way at once let one meet a job that the
other has retried.
Account numbers, carts and vouchers are independent of each other in the code,
so one of each is enough.  Amounts go from -1 to one more than the reachable
stock, so every comparison is met from both sides.

`auth_faults` and `auth_interleavings` use symmetry in the requests and the
passwords (safety only); the runs with liveness do not.  Profiles numbers its
requests in the order they start, which saves as much.  Deadlock is checked for
the runs with requests, where `Quiet` is the only step of a system in which
every request is answered; it is switched off for the aggregates, where a
completed order or a denied payment has nothing left to do.

**Fairness.**  `FairSpec` is weak fairness of each request's next step (the
event loop runs whatever is ready, and every await on Redis or Postgres ends in
an answer or an error).  Nothing obliges a client to start a request, an entry or
a link to expire or a process to restart.  `Products` and
`Profiles` assume less: that some request which can take a step takes one
(requests are finitely many and none goes on for ever, so all come to rest),
and in `Profiles` that the listener runs.  In
`FairCommerceSpec` the provider's deliveries are fair (it repeats them until
they are accepted) and the worker's steps as a whole (BullMQ hands out waiting
jobs and promotes delayed ones); a mail's failures and the worker's deaths are
bounded by the attempts and by `MaxDeaths`, sweeps by `MaxSweeps`.
`PaymentCatchesUp` has three exceptions, each a state in which the provider and
the shop disagree until somebody intervenes.  The shop itself took the payment
further than PENDING: a settlement that was on its way is then refused for good.
The provider's last word is one the code has no mapping for.  And the provider
never said "pending": a new payment has a transition to PENDING and FAILED only,
and nothing but that notification calls `markAsPending`.

**Old cache entries.**  That a cache holds old values for a while is part of the
design; the question is for what reasons.  `OldEntriesExplained` names all of
them.  In AuthSessions there are four: the listener's call is still to be made;
the fill that stored the entry was overtaken by a save; Redis failed the
deletion; the process died before it.  Products has the same four, with the
request's own deletions in the listener's place, and adds that the list under the
current version shows every write whose raise went through.  Profiles has one
more, a save of the users module without a change, which raises no event.
`missed` records the reasons after the first when they come about, so an entry
that is old for another one (a save that forgets a key, a deletion left out on
one path) violates the invariant: the three mutants are such bugs.

## 4. What the code's own documents say and the code does not do

Each has a run that expects the violation, and an entry under `findings`.

1. **A changed password comes back** (`auth_password_lost`).  A login loads the
   account, change-password saves, the login saves its whole row: the old
   password is valid again.  `docs/Auth/AUTHENTICATION_FLOW.md:588`.
2. **A refresh token is exchanged twice** (`auth_refresh_twice`).
   `docs/Auth/AUTHENTICATION_FLOW.md:1308`.
3. **Save and audit record are not one transaction** (`auth_audit_fails`).
   `docs/DEVELOPMENT_PATTERNS.md:534`, `register.usecase.ts:85`.
4. **A deactivated account cannot be loaded** (`account_loads`).
   `auth-user.entity.ts:150`.
5. **A logout and a Google login lock a verified account out**
   (`profile_lockout`).  The listener of a Google login has missed the cache and
   is about to read; a logout that holds a copy from before the verification
   saves it, and the row is inactive; the listener reads that; a second
   verification, which holds such a copy too, makes the account active and
   verified; the listener saves "inactive" back.  The row is verified and
   inactive, and refused by every load.  `auth-user.entity.ts:150`,
   `user-cache-invalidation.service.ts:10`.
6. **A deleted product comes back** (`product_revived`).  An update loads the
   product, or finds it in the cache, the deletion saves, the update saves its
   whole row.  `product-is-deleted.error.ts:8`.

Met while modelling, without a run because one call shows them:

- `Discount.updateInfo` is documented to refuse a used voucher and does not
  (`discount.entity.ts:459`).  The consequence that would matter, use beyond a
  limit lowered that way, is excluded by `UsedOnItsTerms`.
- A suspended account that never verified its address may verify it, and is
  active then (`auth-user.entity.ts:314`); `validate-access-token` and
  `JwtAuthGuard` do not look at the status at all.
- `updatePhoneNumber` assigns the new number before it compares it with the old
  one, so a changed number stays verified (`user.entity.ts:324`, the reset is at
  331-340).
- `applyDiscount` assigns the discount before it throws for a negative total, so
  that a refused discount stays beside the old total (`order.entity.ts:432`,
  against the comment at line 71).  `TotalFits` says what is left of that sum.
- `addAddress` accepts a second default address (`user.entity.ts:411`); the user
  cannot be loaded afterwards.  `OnlyDefaultsLockOut` says that nothing else
  does this.
- `Name` checks a name and sanitises it afterwards (`name.vo.ts:11-33`), and
  both again at each load: `a--` is accepted, stored as `a-` and refused from
  then on.
- `updateProfile` counts a null that stays null as a change, so a profile that
  is sent back as it was raises an event; an empty PATCH saves its copy without
  one (`update-current-user-profile.usecase.ts:78`).  A name patched while
  a login is under way is overwritten by that login's upsert.
- A cached product comes back from Redis with its price as a string, and
  `toNumber` throws: the second `GET` of a product within the time to live
  fails (`prisma-product-query.repository.ts:340`, against
  `docs/openapi.yaml:748`).
- A PATCH may set a product's description or brand to `""`
  (`update-product-request.dto.ts:180-190`, `product.entity.ts:280-291`), which
  `validate` refuses at every later load (`product.entity.ts:85-103`).
- The committed Prisma client treats `sku` as unique, the schema and the
  migration have a partial index instead.
- A capture, settlement or denial that is the provider's first word is refused
  until the payment is made pending (`payment-status.vo.ts:8-44` lets INITIATED
  go to PENDING and FAILED only), and nothing in the repository calls
  `markAsPending` but `processWebhook` on the notification "pending".
- A notification with a status `mapProviderStatus` does not know
  (`payment.entity.ts:432`) is kept as the payload and refused each time it is
  sent again.
- A PATCH without a change leaves every entry it made old to the time to live:
  the save raises no event, and so nobody deletes.
- `incrementListVersions` catches an error that `incr` has already swallowed.
- The priorities of mails are upside down: 1 is meant to be low
  (`mail-job.enum.ts:47`, `MAIL_SERVICE_GUIDE.md:57`), and BullMQ serves the
  lowest number first.

## 5. Proofs

All theorems hold for every value of the constants allowed by the ASSUMEs of
the modules, and tlapm checks them to the last leaf.

**AuthUserProofs**: each command that a use case calls takes a `Sound` account
to a `Sound` account.  `Sound` is more than `validate()` asks: it adds the
token list's limit and distinctness, a way to log in, and that an account which
is not active is one that can still verify its address.  The last is what
keeps `verifyEmail` on a stale copy from producing an account that throws.

**AuthSessionsProofs**: `IInv` = types, every copy (row, cache, held) is sound,
each command has the fields its use case reads (`CommandFits`), and a request
that acts has loaded an account unless it registers or comes from Google
(`Placed`).  `TypeOK` alone is not inductive: `Changed(r)` is an account only
when `held[r]` is one and the command fits.  `CopiesSound` is inductive only
over *all* copies at once, because `Fill` copies from held to cache, `CacheGet`
back, and `Save` from held to row.  Hence `TypesHold` and `CopiesStaySound`,
with faults, restarts and any number of requests.
`OldEntriesAreExplained` proves `OldEntriesExplained` for the same generality.  It
is inductive with the types beside it: a save asks for the deletion of both
entries in the step that makes them old, a fill adds what it stores to `missed`
unless it is the row, and a deletion takes an entry off or, when Redis fails it,
puts it there.
`RequestsMoveOn` gives each request a rank, the steps it has ahead of it at most
(`Remaining`), and shows that each of its steps lowers it and nothing raises it.

**AuthRevocationProofs**: `OneRegistrationOnly` rests on `row # None` being
stable, which needs `ChangedSound` (what is saved is an account).
`RedeemedLinksStayDead` and `LogoutsEndSessions` rest on `RevocationInv`: a
link is known only after the request that stored it is done, so nobody puts a
consumed link back; a token once blacklisted stays so.  Both assume
`RedisFaults = FALSE`: when Redis cannot be reached, the deletion or the
blacklist entry is silently lost, and the properties with it.

**AuthSnapshotProofs**: `SavesAreCommands`, AuthSessions implements
SnapshotStore.  The initial states map to initial states, and every step of
`Next` maps to a copy (`TakesSnapshots`: the row stands, and who holds an
account got it from the row or from somebody who held it), to a write
(`WritesCommand`) or to a stutter.  The heart is that what `Save` writes is one
command on the account the request holds, for each use case in turn, for which
`IInv` supplies that the command has the fields it reads.

**Orderly use.**  The runs `auth_password_lost`, `auth_refresh_twice`,
`product_revived` and `profile_lockout` show what overlapping calls break.  The
theorems named `Orderly...` show that nothing else breaks it.  Their hypothesis
`[][Orderly]_vars` is on the callers and not on the code, which does nothing to
bring it about: one request is served at a time, the invalidations of a save
are made before the next request starts, and no restart loses them.  It is
satisfiable (any client that waits keeps it), and with `RedisFaults = FALSE`
every part of it is needed, since a lost or late invalidation leaves an old copy
in the cache without any overlap.  Under it a copy in use is the row
(`CopiesCurrent`), hence:

- AuthSessions and Products implement not only SnapshotStore but its
  `AtomicSpec`: each save is one command on the record that is there
  (`OrderlySavesAtomic`, twice);
- a changed password stays (`OrderlyPasswordsStay`), a refresh token is exchanged
  once (`OrderlyRefreshedOnce`, by `SpentInv`: a token that was exchanged is not in
  the row), a deleted product stays deleted (`OrderlyDeletedStays`);
- a verified account is active (`OrderlyAccountsLoad`), and neither module takes
  back what the other saved (`OrderlyUpdatesKept`).

`RefreshedOnce`, `ChangedPasswordStays`, `DeletedStaysDeleted`, `VerifiedIsActive` and
`SavedAccountLoads` are thus refuted by TLC for the code as it is, and proved
under the condition they lack.

**AccountLifecycleProofs**: `TokensStayBounded` for every sequence of every
command, those without a caller included.  `CommandsThatLoad` gives for each
command the exact condition under which an account that loads still loads
afterwards: `activate` and `verifyEmail` need one that is not deleted,
`deactivate` and `suspend` one that is neither verified nor deleted, `softDelete` one that is
not verified; the rest are in `MayUnverify` and `MayLink`, and the password and token
commands need nothing.  `TestedCommandsLoad` draws the conclusion: with those
tests, and no others, `SavedAccountLoads` holds.

**ProductsProofs**: `IInv` = types, `RowInv`, `ListInv`.  `SkuSoldOnce` needs
`RowsSound`: a copy with `deletedAt` and one that is deleted are the same thing
in every place a product is kept, since the index looks at the one and the
commands at the other.  `ListsStayFresh` needs to know what a version promises:
the number of raises equals the number of announced writers, a page under the
current version or a later one shows everybody who has announced, and a list
request that has read a version is owed the writes announced by then.  It holds
with faults, because a write whose raise Redis lost is not among the announced,
and whoever could not read the version is owed nothing.
`OldEntriesAreExplained` needs that a write deletes both of its entries afterwards
(`ToDelete`), whichever of them it made old, and, for the lists, `ListInv`.
`SavesAreCommands` is the refinement again, with faults, and `RequestsMoveOn` the rank of a product request.

**ProfilesProofs**: `IInv` = types, and `StatusInv` unless `recalled`.
`AccountLoads` is not inductive by itself: a save from users writes an old
status over whatever auth has done since.  It cannot write "inactive" over a
verified account because the use cases of users, but for an administrator's
look at the detail, run only for somebody who has logged in, hence when the
account was already active; so every copy that users holds or writes says
"active", and in every copy of auth verified and active agree (`Agrees`).  A
logout is the exception, for it saves any copy; from then on only the types are
left, and 4.5 shows that this is not the proof's fault: the theorem is that accounts
load *unless* such a logout has happened.  `VerificationsStand` is the
action property from the same invariant, `OldEntriesAreExplained` is proved as
for AuthSessions and needs no condition on logouts, and `RequestsMoveOn` ranks requests
with the listener's second pass counted in.

**CommerceProofs**: for each aggregate an inductive invariant that is the type
invariant with the properties themselves, strengthened where they are not
inductive: `Path` says which events a payment in each status may have raised,
`HeardInv` that every notification under way was justified by the provider,
`CartInv` that no line has an id that was not given out, `ProductInv` that
`deletedAt` and the status agree.  `MailCopiesBounded` needs `AttemptsInv`: an
attempt made, one still granted and one promised by a sweep together never exceed
`MaxAttempts + sweeps`, because retrying a job keeps its attempts and a sweep
lists failed jobs only, so that of the sweeps that list a job each grants it one
attempt at most; copies that the queue did not notice are covered by
attempts and deaths.  `MailsMoveOn` is the rank of a job.  The theorems are first about
`InventorySpec`, `OrderSpec` and so on, one aggregate each; `StepOfEachPart`
shows that a step of the composition is a step or a stutter of each, from
which `CommerceTyped`, `CommerceSafe` and `CommerceFrozen` state all of it for
`CommerceSpec`.  `VoucherWithinAmount` and `VoucherMonotone` are about the
discount's arithmetic: never more than the amount, and a larger purchase gets
no smaller discount and is never cheaper after it.

Only model-checked: the liveness properties, which are out of the prover's reach
(`EveryRequestAnswered`, `RequestsAnswered`, `ProfilesSettle`,
`PaymentCatchesUp`, `MailsSettled`).  Every invariant and action property of a passing run is a
theorem.  For requests and mails the four `...MoveOn` theorems prove the part of
their liveness that is a safety property, that nobody goes round in circles;
what TLC adds is that somebody always can take a step and, by fairness, does.
That an old entry goes away in the end is the time to live's doing and not
claimed.  `SaveAndAuditAtomic` is
refuted without a condition on callers that would save it: a failing statement
is enough.

## 6. Not modelled

- The expiry of JWTs: a blacklist entry lives exactly as long as its access
  token, so neither changes what the other decides.
- Throttling, roles, DTO validation, mail templates, priorities and the queue's
  rate limit.
- The list of all users (`findAllUsers`): built like the list of products, with
  a version that the asynchronous listener raises instead of the request, so
  that what `ListsFresh` says does not hold of it and nothing in the documents
  says it should.
- The characters of names, the texts of products, pictures, filters and pages
  of lists: several lists are kept under one version, and each is one page.
- Facebook: a strategy exists, no use case does.
- More than one account: no use case touches two, and keys contain the id.
- `updateNotes`, product lists and minimum purchases of vouchers, `reason` texts.
- Product search: it builds queries, and nothing feeds the index.
- Configuration and generated code.  Of the implementation's 63,000 lines about
  38,000 are the generated Prisma models, and most of the rest are DTOs with
  their OpenAPI decorators, module wiring, getters, error classes and comments,
  which have no behaviour to model.  What the modules map is the part that
  keeps state.

## 7. Plan

Done: the authentication core; what may leave a cache entry old, in each of the
three cached parts; the domain aggregates of orders, payments,
inventory, vouchers, carts, users and products; the product use cases; the two
modules on one account row; the mail queue; SnapshotStore, its two refinements
and its atomic form; proofs of every safety property of the passing runs, of
the refuted ones under the condition they lack, and of the ranks behind the
liveness properties.

Left:

1. **One logout without overlap**: the weakest condition on callers that keeps
   `recalled` false, in place of serving one request at a time.
2. **User lists** over Profiles: the version, raised by the listener, and what
   a list may then promise.
3. **Sessions, abstractly**: a register of live tokens that AuthSessions
   implements under `Orderly`, stated as a refinement mapping.
4. **Repositories and use cases of orders and payments**, as soon as the code
   has them: composition with the inventory in place of the separate foci.
