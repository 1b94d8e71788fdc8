# Verification of image-backend in TLA+

The program is a Go service (gin, gorm, Postgres in production, an in-memory
SQLite in development) that sells credits and spends them on generated images.
This directory models its stateful core, checks the models with TLC and proves
what matters most of the credit ledger, its transactions, generations, the runtime
settings, the calls made under them, the accounts, the catalog and the rate limiter
with TLAPS. Paths below are relative to `src/`.

Contents: [inventory](#inventory) · [modules](#modules) · [runs](#runs-and-bounds)
· [fairness](#fairness) · [proofs](#proofs) · [disagreements found](#disagreements-between-code-and-text)
· [not modelled](#not-modelled) · [plan](#plan)

## Inventory

| Component | State | Operations | Hard about it | Correct when |
|---|---|---|---|---|
| Credit ledger (`internal/credit/ledger.go`, `internal/model/credit.go`) | `credit_accounts` (two balances per user), `credit_transactions` (append-only) with two unique indexes | Spend, Refund, Grant, ResetMonthly, GrantSignupBonus; reads Balance, BalancesFor | concurrent transactions under READ COMMITTED, idempotency by unique key, rollback after the balance was changed | never overdrawn, each key posted once, refunds mirror charges, journal reconciles with accounts |
| Generation (`internal/handler/generations.go`) | `generations` rows, the goroutine of a request | Create: insert, charge, upstream, refund, save | a crash or an error between any two of these; the order they come in | what succeeded is paid, what failed costs nothing, everything ends |
| Startup sweep (`internal/generation/sweep.go`, `cmd/server/main.go`) | the rows left `processing` | SweepStuck before the server listens | partial failure, repeated restarts, taking running work for orphans | orphans are refunded once, running work is spared |
| Stripe webhook (`internal/handler/stripe_webhook.go`, `internal/billing/events.go`) | `stripe_events`, `subscriptions`, `users.stripe_customer_id`, the ledger | Handle and five event handlers | duplicated, reordered, late and replayed events; overlapping transactions; a fetch of newer state | credits only for own paid invoices, none lost, row agrees with Stripe |
| Billing endpoints (`internal/handler/billing.go`, `internal/billing/checkout.go`) | none locally | Subscribe, Portal | what they put into Stripe comes back in events | the metadata names the user |
| Accounts (`internal/handler/auth.go`, `internal/bootstrap/admin.go`, `internal/handler/admin_users.go`, `internal/middleware/active.go`, `admin.go`) | `users.role`, `users.status`, the bonus row | Register, PromoteAdmin, Patch, the two checks before it | several database calls per request, all concurrent; restarts | somebody can always administer, the bootstrap window closes, one bonus each |
| Models and plans (`internal/handler/admin_models.go`, `admin_plans.go`, `internal/database/database.go`, `cmd/seed-stripe`) | `image_models`, `plans`, Stripe's Prices | Create, Patch, List; seedModels, seedPlans at every start; seed-stripe | reads that decide before writes that do not look, a tool that dies between Stripe and the database | what is listed is what Stripe charges, what was sold is granted, edits survive |
| Settings (`internal/settings`, `internal/handler/admin_settings.go`) | `app_settings`, an atomic snapshot with its clients | Set, All, Reload, Patch, SeedFromEnv | concurrent reloads, partial writes | the snapshot catches up with the table |
| Adapters and storage (`internal/generation/flux.go`, `storing.go`, `internal/storage`) | none | submit, poll, transfer | deadline, unknown states, transfer failing after success | a finished image is not thrown away |
| Rate limiter (`internal/middleware/ratelimit.go`) | a bucket per address | allowIP, sweepLocked | the clock is read before the mutex is taken; eviction; refill arithmetic | no more than burst + sustained rate × time pass, Retry-After is kept |
| Stateless parts: JWT, CORS, JSON filter, configuration, routing, read endpoints | – | – | – | – |

How they interact: the handler and the sweep move credits only through the
ledger; the webhook runs the ledger's ResetMonthly inside its own transaction;
Register calls PromoteAdmin and the ledger's bonus; main runs the sweep, then
PromoteAdmin, then listens. Everything shared is in the database: there is no
in-process state but the settings snapshot and the rate limiter's buckets.

`PROJECT.json` lists the hazards with their lines, the definitions with the
lines they translate, the runs, the theorems and, for every property, a faulty
variant of a definition that breaks it.

## Modules

    CreditLedger ------- EXTENDS ------ CreditLedgerProofs
      ^   ^   ^   ^
      |   |   |   +-- INSTANCE -- CreditTx            (refines it)
      |   |   +------ INSTANCE -- GenerationLifecycle (Spend, Refund, Grant, ResetMonthly)
      |   +---------- INSTANCE -- StripeWebhook       (ResetMonthly)
      +-------------- INSTANCE -- Accounts            (GrantSignupBonus)

    Settings ---- EXTENDS ---- Serving ---- EXTENDS ---- ServingProofs

    RateLimit --- EXTENDS ---- RateLimitProofs
    Accounts ---- EXTENDS ---- AccountsProofs
    CreditTx ---- EXTENDS ---- CreditTxProofs
    GenerationLifecycle ------ GenerationProofs
    Catalog ----- EXTENDS ---- CatalogProofs
    StripeWebhook EXTENDS ---- StripeWebhookProofs

Each `MC<module>` extends its module and gives the constants values.

**CreditLedger** is what `credit/ledger.go` promises its callers. `accounts`,
`monthly` and `addon` are the table `credit_accounts`; `txs[u]` holds a user's
rows in the order of their ids. Each exported operation that writes is one
action, because each is one transaction. An operation that returns an error
changes nothing and is a stuttering step. `Post` is the pair every operation
ends in: the balance update and the row with its deltas, snapshots and keys.

**CreditTx** is the same code statement by statement on Postgres. A session's
`pc` is the next statement; `lock` is the row lock of an account; uncommitted
writes stay in the session (`newM`, `newA`, `written`) until `Commit` copies
them into the tables. `Ensure` is the INSERT … ON CONFLICT DO NOTHING,
`LockAccount` the SELECT … FOR UPDATE, `UpdateAccount` the relative (or, for
ResetMonthly, absolute) UPDATE with Spend's WHERE condition, `InsertRow` the
INSERT that waits for another session's uncommitted key or fails on a committed
one. GrantSignupBonus swaps the last two, as the code does. `Fail` may end any
transaction at any point. `ImplementsLedger` says that this refines
CreditLedger: `Commit` is the abstract step, everything else stutters.

**GenerationLifecycle** composes the ledger with the request handler, the sweep
and the process. `gens` is the table; `handler[g]` and `local[g]` are the
goroutine's position and variables and die in `Crash`; the tables survive.
`server` is the order of main: starting, sweeping, up. `faults` says which
database errors this behaviour's environment may commit; it is drawn once from
`Environments`, so one run covers several environments and a property can say
under which it holds.

**StripeWebhook** composes the ledger with the subscription tables and with an
external Stripe: `stripe` is Stripe's own record, `evs` the events with the
snapshot each carries. `Receive` opens a delivery's transaction and makes its
reads, `Complete` makes its writes and commits, `Abort` rolls back; between
them other deliveries and Stripe itself go on. On Postgres transactions of
different events overlap; on SQLite the only connection serialises them.
`dialect` is drawn once from `Dialects`. `Replay` is the operator's deletion of
a `stripe_events` row that `model/credit.go` speaks of.

**Accounts** has a step for every database call that the code makes outside a
transaction: the promotion's count and update, the two middlewares, the read of
the target, the patch's transaction. `Restart` drops the requests in flight and
promotes again. `dialect` is the database: `Allowed` is where they differ.

**Settings** is the table `app_settings` and the snapshot the server runs with.
`Start`, `Seed`, `SeedEnds` and `Listen` are main's start-up, with SeedFromEnv
one row at a time and possibly another environment or encryption key than last
time; a row remembers the key it is sealed with. A request writes key by key
(`Write`), reads the whole table (`Reload`), replaces the snapshot
(`StoreSnapshot`), reads again for its answer (`ReadBack`, `Reply`), each in a step
of its own. The one field the code does not have is `alone`: that nothing has
overlapped the request so far. NewRuntime and listening are one step, since
nothing between them touches the settings.

**Serving** adds the calls to the upstream. `Begin` is the handler's one look at
the snapshot: `client` is what the adapters were built from. `Submit`, `Poll`,
`PollAgain` and `Expire` are FluxAdapter, with the upstream answering what it
likes; `StubAnswers` is the adapter without a key; `Transfer` and `TransferFails`
are StoringAdapter. In GenerationLifecycle all of this is the step `Upstream`.

**RateLimit** is the token bucket in front of registration and login. `Arrive` is
the reading of the clock, `AllowIP` everything under the mutex: the sweep, the
refill, the token and the answer. Between the two other requests with other
readings go first, up to `MaxDelay`. A token is `Unit` units and a tick adds
`Rate`, so the float64 balance is an integer. `admitted` and `promised` record,
for the properties, the readings let through and the earliest time a refused
client was led to expect a token. The limiter is off by default and the
configuration checks only that both parameters are positive, so a bucket may be
forgotten before it is full again. What the limiter promises then is said with
`SustainedRates`: the rates, from the configured one up, that fill a bucket before
it is forgotten. The configured rate is one of them if, and only if, it does.

**Catalog** is what is for sale. A request of an administrator is two steps: one
that reads the row and decides (`PatchPlan`, `PatchModel`, `CreateModel`), one that
writes (`UpdatePlan`, `UpdateModel`, `InsertModel`). seed-stripe is `StartSeeder`
(open, seed, read all plans once), then `MakePrice` at Stripe and `WriteBack` to
the table, plan by plan; `ExitSeeder` is its end, its errors and its death.
`StartServer` seeds again and drops the requests. `Subscribe` records which Price
was sold for which plan, and `PlanByPriceID` is the webhook's way back.
`overlapped` records the plans priced by two at a time; the code has no such
thing.

## Runs and bounds

| Run | Properties | Instance | Distinct states |
|---|---|---|---|
| MCCreditLedger | TypeOK, NoOverdraft, Reconciles, KeysUnique, RefundsMirrorCosts, JournalOnlyGrows, AddonSpentLast | 2 users, 2 generations, 1 event, costs 1–2, 4 rows per user, symmetry | 1 014 830 |
| MCCreditTx | TypeOK, LockedReadIsCurrent, ImplementsLedger, EveryTransactionEnds | 2 sessions on one account, 1 generation, 1 event, 4 rows | 40 956 |
| MCGenerationLifecycle | TypeOK, SucceededIsPaid, SweepSparesRunning, CrashesLeaveNoStrayCharge, ImagesArePaid, EveryGenerationSettles | 1 user, 2 generations, 2 crashes, 2 top-ups, 4 environments | 739 486 |
| MCStripeWebhook | TypeOK, NoLostGrant, NobodyElsesSubscription, InOrderRowMatchesStripe, EachEventGrantsOnce | 2 users, 2 subscriptions, 3 prices, both databases, 4 events in any order (6 in order), symmetry | 155 256 |
| MCAccounts | TypeOK, BonusOnce, CountedPatchLeavesAdmin, BootstrapWindowCloses | 3 users, 2 concurrent requests, both databases, symmetry | 598 517 |
| MCServing | TypeOK, RunningServerReads, LoneReloadIsLive, SeedNeverOverwrites, DeliveredImageIsKept, OneConfigurationPerCall, CallsEnd | 5 settings, 2 requests, 2 process starts with 2 environments and 2 keys, 1 failing database call, 1 call | 1 079 481 |
| MCRateLimit | TypeOK, AdmissionBound, RetryAfterIsKept | 2 addresses, 2 concurrent requests, 6 in all, 11 ticks, 2 tokens of 5 units, 1 unit a tick, forgotten after 7 ticks, symmetry | 2 234 765 |
| MCCatalog | TypeOK, ListedPriceIsCharged, SoldPricesAreKnown, EditsAreAskedFor | 2 plans, 2 models of which 1 is built in, 2 requests, 2 runs of seed-stripe at a time, 2 edits, 2 Prices, symmetry | 346 237 |
| MCRefundError, MCStripeReordered, MCStripeReplayPostgres, MCAccountsStale | one each, violated | the instances above, smaller | – |

Why the bounds are enough to meet the hazards:

- *Ledger.* Four rows are a grant, a charge, its refund and one operation too
  many; with two users who share two generations and an event every collision of
  keys happens, within and across users. Costs 1 and 2 against grants of 1 make charges that empty a balance
  and that straddle both. The theorems lift the bound.
- *Transactions.* Two sessions are what a race on a row or a key needs; one
  account and one key of each kind make every pair of operations collide. Four
  rows allow a grant, a charge, its refund and one more.
- *Generations.* Two generations meet in one sweep; the second crash hits the
  sweep of the first. The two top-ups are needed to have something to charge
  and to let a balance move between a charge and its refund. One user is enough:
  generations of different users meet only in the ledger, where MCCreditLedger
  has two.
- *Stripe.* Four events are a first subscription (checkout, invoice) and a
  change (updated, invoice) or a failed payment, in each of their orders, with
  replays and overlaps; in order, six events add a recovery or a cancellation.
  `Bound` in MCStripeWebhook is the constraint that says so. MCStripeReordered has
  one user, one subscription, one price and five events, enough for a failed
  payment and a cancellation after the first invoice, and SQLite's one transaction
  at a time, so that the order of deliveries is all that can go wrong.
- *Accounts.* Three users are the smallest number in which two administrators
  can be taken away by two requests of others.
- *Settings.* Two requests are a race; their bodies clear a secret, switch the
  upstream's key together with half of the storage, complete the storage, or are
  illegal. One start seeds, the second meets what the first, or a crash in the
  middle of it, has left, under either environment and key; one environment holds
  a value that Validate refuses. One fault fails any one database call.

- *Rate limiter.* Two requests in flight overtake each other; six in all exhaust
  a bucket, are refused, wait and are let through, and meet a sweep on both
  sides. A bucket takes ten ticks to fill and is forgotten after seven, which is the
  harder kind of setting: the configured rate alone is not the bound there (TLC
  finds two requests let through at 0 and two more at 8), the rate of two, the
  lowest that is sustained, is. At two units a tick, where a bucket fills up in
  time, the same instance passes with the configured rate as the bound (2 595 687
  states, not kept as a run). The theorems lift the bounds and cover both kinds.
- *Catalog.* Two runs of seed-stripe, two edits and two Prices are an edit or a
  second run on each side of a pricing, a death after it, and a plan that is
  priced while another is edited. Every price, and every number of credits, in a
  request differs from the seeded one, so an overwritten one shows.

`CHECK_DEADLOCK FALSE` stands where the bounded instance really stops: the
journal is full, the crashes, events, generations or requests are used up.

No property is a restatement of a guard: each one relates rows to balances, to
earlier rows, to what the client was told, to Stripe's record, or one step's
effect to a read several steps before it. `TypeOK` is the one type invariant of
each module.

## Fairness

- *CreditTx.* Strong fairness of each session's next statement: Postgres queues
  the waiters of a row lock and of a unique key, so a waiter is served although
  the lock is taken by others in between. Nothing is assumed about new calls or
  about failures. Liveness here is the absence of deadlocks and of starvation.
- *GenerationLifecycle.* Weak fairness of each handler's and the sweep's next
  step while the process lives (the scheduler of Go, and `upstreamTimeout` on the
  call), and of starting a dead process (the compose files restart it).
  Crashes are finite in the instance: a process that dies forever before its
  sweep ends settles nothing. EveryGenerationSettles speaks of the environment
  whose only database error is Spend's: a failing save or refund is retried at
  the next start only, and nobody owes a restart. The invariants of the same run
  do not depend on fairness.
- *StripeWebhook.* Weak fairness of a delivery's arrival (Stripe redelivers what
  was not acknowledged) and strong fairness of its completion (a transaction
  that can commit is not aborted forever). Used for the violated property only.

- *Serving.* Weak fairness of a call's next step (a goroutine whose exchange has
  ended goes on, and `transferTimeout` ends a transfer) and of `Expire`
  (`upstreamTimeout`, a timer). The upstream may stay pending for ever.

## Proofs

### The ledger

`CreditLedgerProofs.tla`, about `CreditLedger` with any sets of users,
generations and events, any amounts and any bound on the journal, under the
assumptions named in that module: costs are positive, amounts natural numbers,
NULL is no id.

| Theorem | States |
|---|---|
| InvariantHolds | `Spec => []IInv` |
| TypeCorrect | `Spec => []TypeOK` |
| NeverOverdrawn | `Spec => []NoOverdraft` |
| EachKeyPostedOnce | `Spec => []KeysUnique` |
| RefundsAreExact | `Spec => []RefundsMirrorCosts` |
| BooksBalance | `Spec => []Reconciles` |
| JournalIsAppendOnly | `Spec => JournalOnlyGrows` |
| AddonIsSpentLast | `Spec => AddonSpentLast` |

The inductive invariant `IInv` adds two facts to the properties. `CostsAreDebits`:
no charge has a positive delta, without which undoing one could overdraw a
balance. `ChargedHaveAccounts`: whoever has a row has an account, without which
a refund could meet none. NoOverdraft is not inductive alone: a refund is
harmless only because of CostsAreDebits. Every operation is one `Post`, so the
proof is one lemma on what a Post does (`PostEffect`), one lemma per conjunct on
what it needs of a Post, one lemma per operation that grants it, and
`NextIInv` to put them together. `BooksBalance` and the two action properties
come from `StepIsPost`: every step is a Post or changes nothing.

### The ledger's transactions

`CreditTxProofs.tla`, for any number of sessions, users, keys and amounts, under
the assumptions named in CreditTx.

| Theorem | States |
|---|---|
| TransactionsInvariant | `Spec => []IInv` |
| TransactionsTyped | `Spec => []TypeOK` |
| LockedReadsStayCurrent | `Spec => []LockedReadIsCurrent` |
| TransactionsImplementLedger | `Spec => ImplementsLedger` |
| TransactionsKeepTheBooks | `Spec => []` of Reconciles, NoOverdraft, KeysUnique and RefundsMirrorCosts of the ledger |
| TransactionsKeepTheJournal | `Spec =>` JournalOnlyGrows and AddonSpentLast of the ledger |

TransactionsImplementLedger is the refinement: it carries every theorem about the
ledger over to the statements of the code, as the last two say (see "One ledger"). A commit must be a step of the ledger although everything
was checked earlier, so the invariant says of each transaction that it still
holds. `HeldOK`: past its locked read a session holds the lock, and the balances,
the account and the cover it found are there. `RefundOK`: the charge it read is
still there. `WrittenOK` and `KeysApart`: the key of an inserted row is neither
committed nor inserted by another session. `Owners` is why nobody else commits
on a locked account. `LocalStep` treats the statements that only concern their
session, `SessionEnds` the release of the locks; `CommitIsPost` and `CommitIsStep`
are the refinement, `CommitIInv` is the one step that others can notice.

### Generations

`GenerationProofs.tla`, for any users, generations, costs and faults, any number
of crashes, grants and renewals, under the assumptions named in
GenerationLifecycle: costs are positive, amounts natural numbers, NULL is no
generation.

| Theorem | States |
|---|---|
| GenerationInvariant | `Spec => []IInv` |
| GenerationTyped | `Spec => []TypeOK` |
| SucceededIsPaidFor | `Spec => []SucceededIsPaid` |
| SweepIsSafe | `Spec => []SweepSparesRunning` |
| CrashesAreHarmless | `Spec => []CrashesLeaveNoStrayCharge` |
| ShownImagesArePaid | `Spec => []ImagesArePaid` |
| GenerationsUseTheLedger | `Spec => Ledger!Spec` |
| GenerationsKeepTheBooks | `Spec => []` of Reconciles, NoOverdraft, KeysUnique and RefundsMirrorCosts of the ledger |
| GenerationsKeepTheJournal | `Spec =>` JournalOnlyGrows and AddonSpentLast of the ledger |

The invariant is about one generation at a time (`GenOK`): what its row, its
handler and the sweep each know of its charge. A handler with an image has paid
what its variable `spent` says; a row marked failed costs nothing, unless the
database committed what it reported as failed (`Untrue`); what the sweep lists has
no handler any more. Two facts are about the whole system. `Startup`: main sweeps
before it listens, so no handler runs during a sweep; without it the sweep could
refund a charge whose image is about to be saved. `CostsOwned`: a charge is made
by the handler of its own generation, for its user. `SpendEffect`, `RefundEffect`
and `TopUpEffect` say what a step of the ledger changes, `Untouched` that this is
nothing to the other generations, `OneHandler` and `QuietIInv` put a step together.

### The settings and the calls

`ServingProofs.tla`, about Settings and Serving, for any keys, values, environments,
encryption keys and bodies, any number of concurrent requests and of calls. The
assumptions are those named in Settings: the keys Reload treats specially are
different ones, what Validate accepts is not empty, absent rows and missing
snapshots are no values.

| Theorem | States |
|---|---|
| SettingsInvariant | `Spec => []IInv` |
| SettingsTyped | `Spec => []TypeOK` |
| RunningServerAlwaysReads | `Spec => []RunningServerReads` |
| LoneReloadsAreLive | `Spec => []LoneReloadIsLive` |
| SeedsNeverOverwrite | `Spec => SeedNeverOverwrites` |
| ServingInvariant | `ServingSpec => []ServingInv` |
| DeliveredImagesAreKept | `ServingSpec => []DeliveredImageIsKept` |
| CallsKeepTheirConfiguration | `ServingSpec => []OneConfigurationPerCall` |
| ServingRefinesSettings | `ServingSpec => Spec` |

LoneReloadIsLive speaks of the end of a request, so it is not inductive.
`LoneKnows` follows the request there: while it is alone it is the only one in
progress, what it has read is still what the table holds, and after the swap so is
the snapshot. The lemma `OneRequestLone` is why no other request has to be looked
at: a step of one request in progress leaves no other alone. That the storage of
the answer and of the snapshot agree rests on `BuildKeepsStorage`: no default
touches an R2 setting. SeedNeverOverwrites needs `SeedsUnset`: what seeding has
decided to write is still absent when it gets there. In `CallInv` an image carries
the configuration that delivered it (`Paid`) from delivery to storage; a step of
Serving is a step of Settings or leaves its variables alone, so `IInv` comes for
free.

### The rate limiter

`RateLimitProofs.tla`, for any addresses, number of requests, burst, rate, time
to live and delay, under the assumptions named in RateLimit: the parameters are
positive, and a request waits for the mutex less than half the time to live. Nothing
relates burst and rate to the time to live, as nothing in the code does.

| Theorem | States |
|---|---|
| LimiterInvariant | `Spec => []IInv` |
| LimiterTyped | `Spec => []TypeOK` |
| AdmissionIsBounded | `Spec => []AdmissionBound` |
| RetryAfterSuffices | `Spec => RetryAfterIsKept` |

AdmissionBound says nothing about the bucket, so it is not inductive. `WindowOK`
adds the balance to it: for every reading let through, the tokens taken since
and those left are at most Burst and what the time up to the bucket's last
horizon brought (`Horizon`: the latest reading that may have been served, at most a
delay after the bucket's own); for a forgotten bucket, what the time until now
brought without Burst. It holds of every sustained rate at once. `ForgettingIsSafe`
carries the first into the second, and it is there that a rate must be sustained:
with a reading that is late and a bucket that owes tokens (`BalanceOK`: never more
than the delay brings). `SomeRateIsSustained` says that there always is such a rate,
so the bound is never void. `PromiseOK` does the same for the promise. Each lemma is
about one bucket; `AllowIPIInv` puts them together. Products are kept apart from the
arithmetic by `Monotone`, `FasterBringsMore` and `Adds`, the only facts about
multiplication the argument needs.

### The accounts

`AccountsProofs.tla`, for any users, any number of concurrent PATCH requests, any
bonus and either database, under the assumptions named in Accounts and that
NULL is no role and no status.

| Theorem | States |
|---|---|
| AccountsInvariant | `Spec => []IInv` |
| AccountsTyped | `Spec => []TypeOK` |
| BonusPaidOnce | `Spec => []BonusOnce` |
| WindowClosesForGood | `Spec => BootstrapWindowCloses` |
| CountedPatchesLeaveAdmin | `Spec => CountedPatchLeavesAdmin` |
| OnlyStaleReadsLoseAdmin | `Spec => OnlyStaleLoses` |
| OneByOneAdminRemains | `Spec => AdminRemains`, if `\A r, s \in Requests : r = s` |
| RegistrationsUseTheLedger | `Spec => Ledger!Spec` |
| RegistrationsKeepTheBooks | `Spec => []` of Reconciles and KeysUnique of the ledger |

PromoteAdmin counts and then updates, so its count may be out of date. It is not:
`NobodyYet` says that while the bootstrap user's registration has not passed its
promotion there is no administrator and no request was ever let in as one, so
nobody can have changed the count; a restart ends the registration with it
(`WindowOpen`). BonusOnce rests on `BonusLast`: the bonus is what a registration
ends with, and a restart ends it without.

The last two theorems bound the disagreement that MCAccountsStale shows. The only
step that takes the last usable administrator away is a patch that is `Stale`: its
target became an administrator after it was read. `ReadStands` says that with one
request at a time there is none: nothing but a request changes the row of a user a
request can name as its target. Two requests that overlap are therefore necessary,
and the run shows that they suffice.

### The catalog

`CatalogProofs.tla`, for any plans and models, any number of requests and of runs of
seed-stripe at a time, under the assumptions named in Catalog: prices and credits
are integers, seeded rows cost something, NULL is no value of a column.

| Theorem | States |
|---|---|
| CatalogInvariant | `Spec => []IInv` |
| CatalogTyped | `Spec => []TypeOK` |
| ListsAreTrue | `Spec => []ListedPriceIsCharged` |
| SalesAreKnown | `Spec => []SoldPricesAreKnown` |
| EditsAreRequested | `Spec => EditsAreAskedFor` |

A request decides on a row it has read and seed-stripe works from a copy, so the
invariant is about these: for a plan that was never contended, the copy of a run is
the plan's amount and the plan has no Price yet (`RunOK`), and a request that will
change an amount finds no Price (`ReqOK`). Whoever could break this for another has
made the plan contended before, by being there (`Contended`, `Watch`). The Price of a
plan is always one made for it, contended or not (`PlanOK`), so that a sold Price
never leads to a second plan.

### The webhook

`StripeWebhookProofs.tla`, for any users, subscriptions, customers, prices and
plans, any number of events, delivered in any order, overlapping, aborted, retried
and replayed, on either database. The assumptions are those named in
StripeWebhook: listed prices are among Stripe's, plans grant natural numbers, NULL
is no user, subscription, customer, number, row or key.

| Theorem | States |
|---|---|
| StripeInvariant | `Spec => []IInv` |
| StripeTyped | `Spec => []TypeOK` |
| EventsGrantOnce | `Spec => EachEventGrantsOnce` |
| NoInvoiceIsLost | `Spec => []NoLostGrant` |
| SubscriptionsStayApart | `Spec => []NobodyElsesSubscription` |
| RowFollowsStripe | `Spec => []InOrderRowMatchesStripe` |
| WebhookUsesTheLedger | `Spec /\ NoReplayOnSQLite => Ledger!Spec` |
| WebhookKeepsTheBooks | `Spec /\ NoReplayOnSQLite => []` of Reconciles, NoOverdraft and KeysUnique of the ledger |

None of the properties is inductive, because a transaction writes what it read
earlier and the handlers find the user in three ways (metadata, the subscription's
row, the customer). `IInv` says why they agree. At Stripe a subscription keeps its
owner and customer, and a customer has one owner over all its subscriptions
(`CustomersApart`); an event tells these (`EventOK`); a user's row and customer are
his own (`UserOK`). So whoever is found is the owner (`ResolvedIsOwner`,
`FoundIsOwner`), and what a transaction is about to write concerns him alone
(`EffectOK`), whatever happens between its reads and its writes. NoLostGrant needs
`PriceTold`: some event has told the price a subscription has now, so an invoice
that is ignored for its price belongs to a subscription that was not always listed.
`History` and `RowsStay` are all that a step must keep for the events and the rows
it does not touch.

EachEventGrantsOnce looks at every change of a user's monthly credits or journal, so
it is unique per event, fixed in its amount and covers the balance and the row. The
amount is in `PaidFor`: the handler asks Stripe for the price of now, so it may be
that of a later event of the subscription (an upgrade between the invoice and its
delivery), never an older one or another subscription's. `Once` is the invariant for
the uniqueness: an open transaction's event is not processed, and only a processed
event has a row in the journal, unless an operator deleted its record. `GrantAgain`
is the exception the property names: on SQLite such a replay sets the balance again.

RowFollowsStripe has an invariant of its own, `OInv`. `Told` is about Stripe: its
last word on a price comes in an event whose handler writes the row, its last word on
the status in the last event, a deletion if the subscription is cancelled, and
before any update there was an invoice. `RowThere` holds in any order: after its
invoice an only subscription has the row. The rest holds while deliveries are in
order: one transaction at a time, of the newest event so far (`Alone`), that will
leave the row as the events up to it tell (`TxTrue`), so the row is right once every
event that could change it is handled (`RowTrue`). A retry only makes the antecedent
false again. Stripe's operations are taken together in `Shape`; `NewestTx` is what
a handler reads when its event is the newest.

WebhookUsesTheLedger has a condition, because on SQLite an operator's replay of an
event keeps the balance of the failed grant and no row (`GrantedAlready`; the
disagreement is listed below). Where that cannot happen, `Once` says why an open
transaction will find no grant of its own event.

### One ledger

Four modules move credits, each with its own interleavings, and each is proved to
implement CreditLedger: a step of theirs is one operation of the ledger or leaves it
alone. In every one of them `Books` is an instance of CreditLedgerProofs, so the
theorems about the ledger are used, not proved again; `LedgerConstants` (or the
module's assumptions) grants what they assume. So the books that are proved to
balance for single operations balance over crashes, lost acknowledgements, failed
saves, sweeps, restarts and deliveries in any order.

### What is only model-checked

Liveness, which is out of the prover's reach: EveryTransactionEnds,
EveryGenerationSettles and CallsEnd.
The four properties that a run expects to be violated have a counterexample, no
proof. For the three that are not liveness, a theorem says what is left of them:
CrashesAreHarmless (crashes alone lose no charge), RowFollowsStripe (in order, the
row is right) and OneByOneAdminRemains.

## Disagreements between code and text

Each is a run that TLC must find violated; `PROJECT.json` quotes the lines.

1. **MCRefundError.** A refund that fails after an upstream error is not
   "tried again by the sweep": the handler then saves the row as failed, and the
   sweep lists processing rows.
2. **MCStripeReordered.** Handlers are not correct whatever the order. A payment
   fails, the subscription is cancelled, and the deletion is processed before one of
   the two events of the failed payment: `customer.subscription.updated` writes the
   past_due it carries, `invoice.payment_failed` sets it. The row says past_due,
   Stripe says canceled, and no event is left to correct it.
3. **MCStripeReplayPostgres.** The fallback idempotency of a replayed event ends
   in a failed commit on Postgres, and 500 for ever.
4. **MCAccountsStale.** The guard for the last administrator depends on a role
   read before the transaction.

Seen while modelling, without a run of their own:

- The `FOR UPDATE` that `admin_users.go:276-277` calls required on Postgres is
  rejected there, being on an aggregate: every demotion or ban of an administrator
  answers 500 (`Allowed` in Accounts).
- The price of a plan is locked by looking at a row read earlier
  (`admin_plans.go:150`), and seed-stripe prices a plan from the copy it read at
  its start (`main.go:47`). When the two overlap, the list shows another amount
  than Stripe charges, which `admin_plans.go:147-149` means to rule out. Without
  `overlapped` TLC finds ListedPriceIsCharged violated.
- Two runs of seed-stripe at a time make two Prices for a plan and the second
  overwrites the first, which `cmd/seed-stripe/main.go:8` says never happens;
  subscriptions to the first are then granted by no plan. Without `overlapped`
  SoldPricesAreKnown is violated.
- Nothing relates RATE_LIMIT_RPS and RATE_LIMIT_BURST to the ten minutes after
  which a bucket is forgotten: with a burst that takes longer to refill, waiting
  for the sweep gives more than the rate. `SustainedRates` says how much more.
- A success whose save fails is refunded and marked failed at the next start,
  although `generations.go:186-187` reasons that what happened stays as it is
  (`ImagesArePaid` excludes that fault).
- A monthly charge refunded after a renewal carries over into the new period
  (`ledger.go:283-284` promises that nothing accumulates).
- On SQLite, the database of development and tests, a replayed event keeps the
  balance of the UPDATE without a row (`GrantedAlready`), although
  `model/credit.go:54-56` says that the index keeps a replay from granting again.
  Without `GrantAgain` TLC finds EachEventGrantsOnce violated.
- An `invoice.paid` processed after the subscription's deletion grants credits
  that nothing takes back, and on Postgres a deletion that reads before the
  invoice's transaction commits finds no row, so the row committed later stays
  active. SettledCreditsEnd and SettledRowMatchesStripe fail there;
  InOrderRowMatchesStripe says where they do not.
- Two overlapping PATCH requests, both answered 200, can leave the server with a
  snapshot that lacks one of them until the next reload, although
  `docs/superpowers/plans/2026-08-02-admin-settings-backend.md:5` says that a
  change takes effect at once. Without its condition `alone`, LoneReloadIsLive does
  not hold.
- The billing client keeps the base URL of start-up (`router.go:84`, `:186`), which
  `docs/superpowers/specs/2026-08-02-admin-settings-design.md:10` counts among the
  settings that need no restart.
- A start with another encryption key and a newly set secret seals that secret
  before the old rows are found unreadable; then neither key starts the server.
- Nothing stops a second subscription (`model/billing.go:23` says a user has
  one); the end of either zeroes the monthly credits.

## Not modelled

The read endpoints change nothing; of their code only the keyset cursor of the
history (`generations_list.go`) is an algorithm, and it is planned below. A
generation that is still processing when its page is read is missing from that
walk of the pages (`generations_list.go:75`), by intent. Configuration and routing
are parsing and wiring. Of the database, the choice of the driver and the
migrations are left out, and rows seeded one by one are one step. Of the rate
limiter, the log lines and their counter; of the catalog, names, sort orders,
providers and upstream names.
Of the settings, GET and the start-up warnings only read; `app_settings` edited by
hand is left out. Of the adapters, request bodies and the rules for image types and
sizes are. Signature and version
checks of the webhook, JWT, CORS and the JSON filter keep no state that later
behaviour depends on. Abstracted in what is
modelled: texts, prompts, sizes, durations; subscription periods and the
cancel-at-period-end flag; deletion of users (the code has none); overflow of
balances (Go's 64-bit `int` and Postgres `bigint` against plan amounts of
hundreds). One server process is modelled: the repository's README rules out
several because of the sweep.

## Plan

The order is by weight: money first, then who may administer, then the rest.
All modules and the proofs of every safety property are done; next are

1. **HistoryPage**: the keyset cursor as an operator, checked against a sorted
   reference.
2. **Upstream refinement**: a call of Serving, up to its end, as the step `Upstream`
   of GenerationLifecycle.

Runs are kept few, one per question: new components share the run of the module
they refine where they can, and a settled disagreement gives its place up.
