# hivePOS in TLA+

A specification of the parts of hivePOS in which several requests, tabs or
processes meet: the Go API (`src/hivepos-api`), the Next.js front end
(`src/hivepos-web`) and the WhatsApp gateway (`src/whatsapp-gateway`).
`src/pos-saas` is the application the API was ported from; it is not modelled,
but its comments and feature specifications say what the port is meant to do.

Run a check with `tlc -config X.cfg MCModule`, a proof with `tlapm Module.tla`.
`PROJECT.json` lists the runs, the mutants every property is tried on, the
source lines of every definition, the findings, the hazards and the theorems.

## The system

| Component | State it keeps | Operations | How it meets the others | What makes it correct |
|---|---|---|---|---|
| Order ledger (`orders`, `customers` repositories) | `Order`, `Payment`, `Customer.balance`, `DepositTransaction` | record and void a payment, edit and delete an order, top up a wallet | row locks of Postgres at READ COMMITTED; reads kept in Go locals across lock waits | paid = sum of payments; balances explained by their ledger; deposits conserved; no overpayment; status follows the amounts; requests end |
| Order and customer intake (routes and services of `orders`, `customers`; `planlimits`) | `Order`, `Customer`, their unique indexes, the advisory lock of an order-number prefix | `POST /api/orders`, `POST /api/customers` | several queries outside a transaction, then one inside | one order per key, numbers never collide, limit overshoot bounded, answers name what exists |
| Offline outbox (`lib/offline`) | IndexedDB stores `pendingCustomers`, `pendingOrders`; per-tab `draining`, `customerIdMap` | save offline, drain, retry, delete, purge | shares the stores between tabs; posts to the intake over a lossy network | what is shown as synced was made on the server, at most once on file, for the right customer; drains end; rows sync |
| Order status flow, pickup requests | `Order.status`, `PickupRequest.status`, `convertedOrderId` | advance, cancel, accept, reject, schedule, assign, convert | reads the status, then writes it, without a lock | legal transitions, terminal states stay terminal, one order per pickup (none kept: below) |
| Billing (`billing`, `superadmin` repositories) | `SaaSPayment`, `Subscription`, `Branch.coverageEnd`, `PromoCode`, `PromoRedemption` | checkout, webhook, settle, refund, extend | Midtrans delivers late, twice, out of order; invalidates the plan limits | settled once per payment; one redemption per tenant; coverage in step with the period; requests end |
| Plan limit cache (`planlimits`) | per-process `sync.Map` with a 5 minute TTL | resolve, check, invalidate | filled by every create and the billing status, invalidated after billing's commits, not by the super-admin's assignments | limits out of date for a bounded time, and only for known reasons; creations stay within a recent limit; the cache settles |
| Circuit breaker (`shared/resilience`) | `state`, `failures`, `openedAt` under a mutex | `Allow`, the call, `Record...` | wraps the calls to the gateway | state and count agree; it closes again |
| Rate limiter | a bucket per address | count, clean up | in front of the routes | at most `limit` requests per window |
| Inventory | `StockItem.currentQuantity`, `StockMovement` | create, edit, delete an item; add a movement | the row lock, asked for first by an OUT and at the UPDATE by the others; edits write whole rows | quantity explained by the movements; outs covered; requests end |
| Attendance | `ClockEvent` | clock | reads the last event, then inserts | IN and OUT alternate |
| WhatsApp gateway | a map entry, a socket and auth files per tenant | connect, disconnect, send, reconnect, reconnectAll | callbacks of the socket, timers, the proxy of the API | messages go to open sockets; a reconnect replaces its socket; reconnecting ends |
| Self-healing, job records | `ErrorLog`, `SupportTicket`, `JobRun` | alert ticker, ticket de-duplication | one ticker per process | one open ticket per fingerprint |
| Sessions, login, flags | session version, flag cache | login, logout, tenant creation | caches in each process | revoked sessions end |
| Pricing | pure | quantity by pricing type, capped discount | called by create and edit | 0 <= discount <= gross |
| Catalogue, branches, users, tenants, expenses, tickets | rows | one statement each | - | nothing between two steps |
| Dashboards, reports, public API, telemetry | none | queries | - | read-only |

What is hard: the API takes explicit row locks only in the money paths, and
checks elsewhere before it acts; retries exist on three layers (fetch wrapper,
sync engine, kasir), and idempotency keys on one of them; a browser shares its
stores between tabs, each with its own idea of draining; caches and breakers are
per process. The hazards, each at its line, are in `PROJECT.json`.

## Modules

| Module | Models | Uses |
|---|---|---|
| `OrderLedger` | payments, deposits, deletes, edits, top-ups | |
| `Escrow`, `OrderEscrow` | what deposits promise, and the mapping of the ledger to it | `OrderEscrow` EXTENDS `OrderLedger`, instantiates `Escrow` |
| `OrderIntake` | `POST /api/orders`, `POST /api/customers` | |
| `OfflineOutbox` | the browser's outbox in front of the intake | EXTENDS `OrderIntake` |
| `Billing` | what a tenant has paid for | |
| `PlanLimits` | the limits that follow, their cache, what they limit | |
| `Breaker`, `WhatsApp` | the breaker; the proxied calls and the gateway behind it | `WhatsApp` EXTENDS `Breaker` |
| `Stock` | stock items and movements | |
| `MC...` | the instances TLC checks | each EXTENDS one of the above |
| `SumTheorems`, `...Proofs` | lemmas on sums; theorems of the module named before `Proofs` | |

The composition of `OrderIntake` with `PlanLimits` is left out: the first takes
the limit as a constant, the second the insert as a step, and they meet in one
number. The proofs follow the modules: `OfflineOutboxProofs` EXTENDS
`OrderIntakeProofs` and uses its invariant; `OrderLedgerProofs` also holds the
proofs about `OrderEscrow`, and `WhatsAppProofs` those about `Breaker`.

## Order ledger

`OrderLedger.tla` models `RecordPayment`, `VoidPayment`, `Delete`, `Create` and
`Update` of the orders repository and `TopUpDeposit` of the customers
repository. A session runs one request at a time. Each request is split where
the code waits for a lock, and only there:

- `BeginPayment`, `BeginVoid`, `BeginDelete` are the `SELECT ... FOR UPDATE` of
  the order joined with its branch (which locks both rows) and the guards on
  what was read; `ChargeWallet` is the wallet's `FOR UPDATE` and the overdraft
  guard; `BeginTopUp` is the wallet's `UPDATE`, whose lock the top-up keeps
  while its ledger insert waits for the branch row.
- `Commit...` is the rest of the transaction. Its writes become visible at once,
  and they are computed from `req`, what the request has read, as the Go locals
  are. A commit that needs a second lock is enabled when that lock is free.
- `InsufficientDeposit`, `Rollback` and `DeadlockVictim` are the ways a request
  ends without writing anything.

Row locks are not variables: `HoldsOrder`, `HoldsBranch` and `HoldsWallet` derive
them from the phase of each session. Amounts are natural numbers. `payer`
(whose wallet a DEPOSIT payment charged) and `toppedUp` are not columns; they
record history the properties need. Method CASH stands for the three methods
that touch no wallet. Items, notes and the order's status are left out, and the
total an order is priced at is any member of `Total`.

| Run | Question | Instance |
|---|---|---|
| `one_order` | the invariants and action properties, and the refinement of `Escrow` | one order, two customers, two sessions: an edit can move the order to the other customer between any two steps of another request |
| `requests_finish` | does every request end? | two orders at two branches, one customer, two sessions, corrections that deduct: only the wallet lock serialises the requests; a payment and a top-up can deadlock, and Postgres picks a victim |
| `edited_customer` | violated: a refund goes to the wallet that was charged | the code lets an edit change the customer of an order that has deposit payments |

Two sessions, payments of one or two units and totals of at most two let every
pair of requests overlap at every lock wait, let a payment be partial, exact or
too large, and let an order be overpaid through an edit; a third session would
only lengthen the lock queues. `MaxLedger` bounds top-ups. Fairness
(`requests_finish`): a request that can go on does (strong, as a lock may be
taken by others in between), which is Postgres granting row locks in order, and
`DeadlockVictim` is its deadlock detector.

**Proved** (`OrderLedgerProofs`, for every instance): `TypeOK`, `Inv`,
`PaidMatchesPayments`, `LedgerExplainsBalance`, `DepositsConserved` as
invariants, `PaymentsNeverOverpay` and `StatusRecomputed` as action properties.
`PaidMatchesPayments` alone is not inductive: a commit adds an amount to what the
request *read*. `Inv` adds why that is right: at most one session holds an order
(`LocksExclusive`), and what the holder has read is what the row says
(`OrderReadsFresh`, `PaymentReadsFresh`, `WalletReadsFresh`); payment ids in
flight are distinct and unused (`PaymentIds`), and a payment's order is there
(`PaymentsHaveOrders`). Each is preserved action by action. Sums over sets of
rows are `SumFunction` of the community modules, a fold; `SumTheorems` proves
what the proofs need of it (adding, removing and changing one row) from the
recursive function below the fold, by well-founded induction over the subsets of a
finite set; the induction hypothesis is a *set* of good subsets
(`SubsetInduction`), since the library's induction theorems take an operator,
which no prover here can instantiate. The only assumptions are those of
`LedgerAssumption`. Liveness is model-checked only.

**The escrow.** `Escrow.tla` says what prepaid deposits promise, without
payments, sessions or locks: top up, hold, return, close, each in one step, a
hold only of what the wallet covers and a return only of what the order holds.
`OrderEscrow` maps the ledger to it: an order holds the sum of its DEPOSIT
payments, and what a request does before its commit is invisible.
`ImplementsEscrow` is checked in `one_order` and proved for every instance
(`OrderLedgerProofs`, `LedgerImplementsEscrow`): the initial states map to
initial states, and under `Inv` each action is one move or a stutter
(`PaymentHolds`, `VoidReturns`, `DeleteCloses`, `TopUpPuts`, `QuietStep`). The
proof needs `Inv` where a commit uses what was read earlier: the wallet a
payment charges covers the amount *now* because its row is locked. The escrow
allows a return to another wallet than the one charged, because the code does
(`edited_customer`).

## Order and customer intake

`OrderIntake.tla` follows one handler per request, one step per query. For an
order: the plan limit (`CheckLimit`), the idempotency key (`FindByClientID`),
the ownership of the customer (`RejectCustomer`), the advisory lock on the
order-number prefix (`LockPrefix`), the number (`AllocateNumber`), and the
inserts with the two unique indexes and the commit (`InsertOrder`). For a
customer: the lookups by phone and key (`FindCustomer`) and the insert
(`InsertCustomer`), whose `INSERT` names no `clientId`. `CreateFails`,
`LookupFails` and `CreateCustomerFails` are failing queries: a failed insert of
an order is answered 400, of a customer 500, and a failed lookup is ignored.
`Finish` sends the answer. Pricing reads only the catalogue and happens between
the ownership check and the lock; its refusal is one of `CreateFails`.

Meanwhile other requests change the rows: `EditOrder` (which may name another
customer), `DeleteOrder`, `EditCustomer`, `DeleteCustomer`, each its effect in one
step, as far as `Others` allows them. So an insert may find its customer gone
(`Refused`). A customer with orders is not deleted; that one with wallet
transactions is not either is left out, as wallets are the ledger's. Ids are given
once. `customersMade` is history: every customer made, with the key (`origin`) of
the request that made it.

| Run | Question | Instance |
|---|---|---|
| `intake` | types, one order per key, allocated numbers free, how far the plan limit can be passed, 201s name an order of the key | 2 handlers, 2 keys and requests without one, 2 prefixes, edits and deletions of orders and customers, a limit of 2, failing queries except the limit check (an ignored failure of it lets any request pass) |

`RequestsAnswered` is checked with the browser in front (`drains_end`), under
strong fairness of a handler's steps: the advisory lock is granted in the order
it was asked for. `FailsAt` names the phases in which a query may fail.
`MaxSeq` bounds order numbers: no order request arrives while a number that high
is in use, so requests in service go on unhindered; likewise a customer request
arrives only while an id is left. Two handlers make every pair of queries meet.

**Proved** (`OrderIntakeProofs`, for any handlers, keys, prefixes and limit):
`IntakeTypeOK`, `OneOrderPerKey`, `AllocatedNumbersFree`, `AnswersAreOrders`, and
`OvershootBounded` for a limit check that does not fail. The strengthening says
what a request has filled in by each phase (`RequestsFilled`) and that one
transaction at a time numbers orders of a prefix (`PrefixExclusive`); that the
highest number exists, so that the next is new, is an induction over the finite
set of orders on file. The bound is a count: a request that passes the limit
finds fewer orders than the limit and at most all other handlers past it, and an
insert turns one of them into an order.

## Offline outbox

`OfflineOutbox.tla` EXTENDS `OrderIntake` and adds the browser: the rows of both
stores (`outbox`), the New Order form (`form`), the drain of each tab (`tab`) and
its rows in flight (`task`). `PickWalkIn`, `SaveWalkIn`, `SaveOrder`,
`SaveOrderOf` are the form offline; `StartDrain`, `StartChunk`, `EndPhase` are
`drainOutbox`; `ResolveCustomer`, `MarkSyncing`, `Post`, `Receive`, `SaveSynced`,
`SaveError` are one row in `syncCustomer` or `syncOrder`. An update of a row is
two steps: the read (kept in `seen`) and the put. `Post` hands the request to a
free handler of the intake, `Receive` takes its answer; `LoseRequest` and
`LoseAnswer` are the network, `CloseTab` a reload. After a lost answer the
handler runs on, and its answer is dropped by `Finish`. `Attempts` stands for
the attempts of both retry layers together. `Elsewhere` is another device that
edits or deletes what is on the server, at any time: the order a row names may be
gone, or another customer's, by the next step. What the outbox owes is that it was
*made*, so `ordersMade` remembers every order as it was inserted (`Remember`, with
every step).

| Run | Question | Instance |
|---|---|---|
| `two_tabs` | a row shown as synced was made an order of its key, the one it names; an order is made for the customer it was taken for, when two tabs drain the same rows | deletions of orders on the server, 2 tabs, an order and the two rows of its walk-in, one row at a time, 1 attempt, 1 handler, failing inserts; a reload is the only loss |
| `drains_end` | types; every drain ends; every request is answered | 1 tab, 2 rows in parallel, 2 attempts, 1 handler, a lossy network, failing lookups; fairness: promises and timers of an open tab run, the API answers. Nothing is assumed of the kasir or the network |
| `parked_order` | violated: an error row is tried again while drains are started for ever | a lost answer or a refused customer is enough |

One order is enough for what is said of orders: rows of different orders meet
only in the number lock and the plan limit, which `intake` covers. Both rows of
its walk-in are there because the form really makes two. `Attempts` is 2 where
the network loses answers, so that a repeat meets its first copy. A deletion is the
change elsewhere that takes most away from a row; edits and deletions of customers
would not fit beside two tabs. `intake` has all four, and the proofs assume
nothing of `Others`. `drains_end` and `parked_order` have none: a drain sees
the server only in its answers, and ends whatever they are.

**Proved** (`OfflineOutboxProofs`, for any tabs, rows, handlers, chunk size and
attempts): `BrowserUsesIntake`, that browser and API together implement the
intake, so that everything proved of it holds behind the browser, `OneOrderPerKey`
in particular (`RetriesMakeOneOrder`); and `OutboxTypeOK`, `SyncedOrdersWereMade`,
`OrdersMadeForTheirCustomer`. A step of the browser is a step of the intake or
leaves it alone (`StepOfIntake`), which needs that a task waits for a handler no
other task waits for (`Awaited`). The inductive invariant, `OInv`, follows the
values that travel: an answer, the id a drain or a row keeps of a walk-in, the
customer in a request and the row a task has read and will put back each say
something of what was made on the server (`Made`, `Right`, `Answers`), and it is
true. The proof has two halves. What was true stays true (`StepKeeps`): rows on the
server are edited and deleted, but what was made stays made, and an order on file is
a version of one that was made (`Traced`), so a repeat that is answered from the
file is answered with an order of its key; and a row, once put, keeps
whom it is for (`Frozen`), although an update puts back a row read earlier and may
undo a status. What a step adds is true, one lemma per action (`...Keeps`), for
handlers from what `IInv` says of the phases.

## Billing

`Billing.tla` models what a tenant has paid for. As in the ledger a session runs
one request at a time, a request is split where the code waits for a row lock or
leaves the database, and the rows are written at the commit:

- `Checkout` compares the promo with its limit, `CreatePayment` inserts the
  payment, `MintToken` is the call to Midtrans; a payment of amount zero goes to
  the settlement at once.
- `Capture` is the tenant paying, `Deliver` a notification, at any time and any
  number of times; `ReadPayment` is the check in `HandleWebhook`.
- `ClaimPayment` (the conditional `UPDATE`), `ActivateSubscription`,
  `CommitSettlement` are `SettlePayment`; `RefuseRedemption` is the unique index
  on the redemptions failing it.
- `BeginRefund`, `ClaimRefund`, `ExpireCoverage`, `CommitRefund` are the
  super-admin's `RefundPayment`; `BeginExtension`, `ExtendSubscription`,
  `CommitExtension` are `ExtendTrial`. The two lock the branches and the
  subscription in opposite orders.
- `Rollback` is a failing statement, a crash, or a Midtrans that does not answer.

`coverage` is one value for all branches of a tenant, as every statement writes
them together; a branch of a new tenant has none (`None`). Time, months and days
share one unit. A tenant has a subscription row, as every registration makes
one. `settled` and `refunded` count, and are not columns. The subscription's
status, prices and a promo's dates are left out.

| Run | Question | Instance |
|---|---|---|
| `billing` | settled once per refund, redeemed once per tenant, coverage in step, every request ends | 1 tenant, 2 payments, 1 promo, 2 sessions: two notifications of one payment, or of two payments with the same promo, or a settlement against a refund or an extension; one refund of each payment |
| `stuck_payment` | violated: what a tenant has paid for is settled | 2 payments with one promo, 1 session, no refunds or extensions |

Two sessions are enough for every pair of lock waits, and a tenant's rows are
never touched by another tenant's requests, except for the promo's count. The
clock makes one tick, so that what is computed early and written late shows;
`MaxEnd` bounds extensions, and settlements only move a period to a time no
later than `MaxNow` and the longest checkout. `TrialLength` is 0, so periods may
have ended. Fairness of `billing`: row locks are granted in order (strong) and
the deadlock detector runs. `stuck_payment` adds that Midtrans notifies until it
is acknowledged and that a statement of a settlement that can be executed again
and again is executed at some time, so the counterexample is no series of
failures: the settlement is refused by the index each time.

**Proved** (`BillingProofs`, for every instance, from `BillingAssumption`):
`BillingTypeOK`, `SettledOncePerRefund`, `RedeemedOncePerTenant` and
`CoverageInLockstep`, all from the strengthening `BillingInv`, which is stated with
the proofs. For `SettledOncePerRefund` a settlement has to commit for a payment that
is *still* not PAID: `ClaimsExclusive` says that a claimed payment is as it was when
it was claimed (`ClaimHolds`) and has one claimant, which the row lock gives. For
`RedeemedOncePerTenant` it has to redeem the promo of its payment for the payment's
tenant (`RequestsRefer`); then the unique index refuses the second payment. Most steps write no row: `MoveKeepsInv` treats them at once.

## Plan limits

`PlanLimits.tla` follows the limit of one resource of one tenant (branches,
users or the month's orders) in one process of the API, as the cache is per
process. `Hit`, `ReadPlan`, `Store`, `ReadFails` are `Resolve`, whose read and
store are two steps; `Count` and `CountFails` are the rest of `Check`; `Insert`
is the create of the handler, `Leave` a handler that only resolves or whose
insert fails. `SettlePayment`, `RefundPayment` and `ExtendTrial` are the effects
of Billing's commits on the limit in force; `Invalidate` follows each as a step
of its own (`pending`), and a crash in between drops it with the cache.
`AssignPlan`, `AssignStatus` and `PeriodEnds` announce nothing. Plan rows are
taken as constant. `Reactivate` is an edit that makes a user or branch active
again: it asks for no limit.

Time is in ticks. `RequestTimeout` ends a request after 15 s, against a lifetime
of the cache of 5 minutes. Only the dashboard, the reports and the super-admin's
routes get 60 s, which is less than the lifetime as well, and none of them resolves
a limit. `Tick` is disabled while a request has used
its `Patience` up. `since`, `excused` and `lenient` are not in the code: they
record for how long a plan has not been in force, why an entry may be out of
date, and that something was created unchecked.

| Run | Question | Instance |
|---|---|---|
| `plan_limits` | how old may a limit be, why may it be wrong, how far are creations over it, does the cache settle? | 2 plans (0 and 1 allowed), 2 requests, a lifetime of 2 ticks, requests of 1 tick, 2 changes or restarts |

Two changes make one overtake the store of a read made before it, and two
requests make them count together. Fairness: time passes, a request runs to its
end, and a commit is followed by its `Invalidate`, all weak: each stays enabled
until it happens.

**Proved** (`PlanLimitsProofs`, for every set of plans and requests and every
lifetime and patience): `LimitsTypeOK`, `LimitsAreRecent`, `StaleOnlyIfExcused`.
The strengthening says of a limit that was read and not yet stored that it was in
force when its request began, so that what `Store` writes is as recent as what
`LimitsAreRecent` claims of a young entry, and that every `Invalidate` to come
belongs to a change. `CreationsWithinLimit` proves the action property
`CreatedWithinLimit` from a count (`RoomLeft`): while a request may insert, what is
in use and the requests ahead of it fit its limit and one row per other request.
Ahead are those that may insert too and those that began earlier and are yet to
count; one that began later counts against a limit at least as recent, which then
serves for both.

## Messaging

`Breaker.tla` has one operator per critical section of the breaker's mutex.
`WhatsApp.tla` puts the proxied calls of the API around them and the gateway
behind, for one tenant: `Request`, `Unreachable` and `Cancel` are `gatewayDo`;
`HandleConnect`, `HandleSend`, `HandleDisconnect`, `Leave` and `MakeSocket` are
the gateway's handlers, each up to its next `await`; `QRCode`, `QRReady`,
`SaveCreds`, `Open`, `CloseTransient` and `CloseFinal` are the events of a
socket, `TimerFires` the reconnect timer, `Crash` and `Start` the process with
its `reconnectAll`. An entry of the map is named by its socket. Baileys is
external: a socket opens, asks for a QR code, saves credentials and closes as it
likes.

| Run | Question | Instance |
|---|---|---|
| `messaging` | does the breaker's state agree with its count and recover, do messages go to open sockets only, do reconnects multiply or hang? | 2 calls, 3 sockets, a threshold of 2, a cooldown of 1, two faults among closes, crashes and callers that leave |

Two calls are a probe and a late answer of before the trip; three sockets are one
in use, one that replaces it and one for a restart. Connects are asked for only
while a socket is left for each (`SocketLeft`). Fairness, all weak: timers and
handlers run, the supervisor starts the gateway again, the cooldown passes, and
the dashboard keeps polling, without which no success ever closes a breaker.
Faults end: under faults for ever nothing recovers.

**Proved** (`WhatsAppProofs`, for every set of calls and sockets, threshold and
cooldown): `WhatsAppTypeOK`, `ClosedBelowThreshold`, `ConnectedIsOpen`. The types
include that no entry is ever closed after more than one attempt, which needs
that a live socket has an entry without attempts (`LiveUnattempted`).
`ReconnectsOnlyReplace` proves the action property `ReconnectsReplace` from the same
invariant: a socket is made of a connect under way, a connect of a timer, a timer
of a socket that closed, one for one.

## Inventory

`Stock.tla`: `CreateItem`, `DeleteItem` are one statement; `BeginEdit` and
`CommitEdit` are the handler's read of the item, over which the body is decoded,
and the `UPDATE` of the whole row; `BeginMovement`, `LockItem` or `RefuseOut`
(an OUT), `UpdateQuantity`, `CommitMovement` are the movement's transaction, and
`Rollback` any failure in it. A row is locked from the first statement that asks
for it (`HoldsRow`). Quantities are integers, the grain of numeric(12,3). `base`
is not a column: what an item was created with or edited to, less what had been
moved by then.

| Run | Question | Instance |
|---|---|---|
| `stock` | is the quantity what the movements on file explain, are outs covered, do movements have their item, does every request end? | 1 item, 2 movements, 2 sessions, quantities -1, 1 and 2 |

Rows of different items never meet. Two sessions are every pair of statements.
`Limit` bounds the quantity, and ids run out only at the insert. Fairness is
strong per session: Postgres serves the waiters of a row in turn.

**Proved** (`StockProofs`, for any number of items, sessions and movements and all
quantities): `StockTypeOK`, `MovementsHaveItems`, `MovementsExplainQuantity`,
`OutsAreCovered`. The strengthening is what the lock gives: one holder per row
(`RowsExclusive`), under which an OUT still finds what it checked
(`OutsHaveEnough`), and ids that are on file only if issued (`IdsIssued`), so that
a commit adds to the sum and replaces nothing.

## What the code does not keep

Checked, each by a run that TLC ends with a counterexample (`findings` in
`PROJECT.json`):

- `edited_customer`: an edit may name another customer although deposits were
  paid; a later void refunds the wallet the order names *then*.
- `parked_order`: an order whose customer is not known is marked `error`, and no
  drain lists rows in that state, though the comments say it is retried.

- `stuck_payment`: a tenant that pays twice with one promo code has its second
  payment rolled back by the unique index at every notification. The legacy
  webhook ignored that error, and the legacy checkout refused the code.

Read in the code and not the subject of a run:

- Of two copies of an order's request both may pass the lookup of the key
  (`orders/application/service.go:149`); the second fails on the unique index and
  is answered 400, not with the order, though `client-id.ts:5` says that
  double-submits are safe.
- The lookup of a customer by `clientId` never finds one, since the `INSERT`
  (`customers/infrastructure/repository.go:25`) does not write that column: a
  walk-in without a phone whose answer was lost is made twice.
- `Update` rewrites the total and not `paymentStatus`
  (`orders/infrastructure/repository.go:900`); the legacy application recomputes
  it (`prisma-order.repository.ts:318`).
- The plan limit is checked before the idempotency key (`orders/routes.go:119`
  against `orders/application/service.go:152`): a repeat of the last order the
  plan allows is answered 403.
- An order saved while a drain runs is listed without its customer, which the
  drain had listed before, and parks as an error (`sync-engine.ts:86`).
- A walk-in taken offline is stored under two keys (`customer-picker.tsx:101`,
  `new-order-context.tsx:431`); the second row is refused for its phone.
- An update of a row is a get and a put in two transactions (`db.ts:177`): a row
  deleted in between comes back.
- `SettlePayment` claims any payment that is not PAID
  (`billing/infrastructure/repository.go:213`), a REFUNDED one too: a
  notification repeated after the refund settles it again
  (`SettledOncePerRefund` allows for it).
- `ExtendTrial` reads the period end without a lock
  (`superadmin/infrastructure/repository.go:420`) and may write over a
  settlement that commits in between.
- A new period starts now, not when the running one ends
  (`billing/infrastructure/repository.go:227`).
- A promo's limit is compared at checkout and counted at settlement
  (`billing/application/service.go:157`), so it may be passed.
- `UpdateTenantSubscription` leaves the cached plan limits as they are
  (`superadmin/infrastructure/repository.go:362`); refunds, extensions and
  settlements invalidate them, and even then a resolve that read before the
  commit may store after it (`planlimits.go:83`), so that the next status need
  not show the new tier "at once" (`billing/infrastructure/repository.go:266`).
- `Resolve` is said to fall back to the free plan without an *active*
  subscription (`planlimits.go:70`); it does without a row and for a trial that
  is over, and a paid period that is over keeps its limits.
- The handlers drop the error of `Check` (`users/routes.go:97`), so a failing
  query lets a create through; an edit that makes a user or branch active again
  is not checked (`users/infrastructure/repository.go:233`).
- A half-open breaker lets every caller through, where its comment promises a
  single probe (`circuitbreaker.go:14`).
- Two connects of a tenant side by side make two sockets
  (`session-manager.js:33`), and the final close of the older deletes the entry
  of the newer (`session-manager.js:116`). A reconnect makes a new entry with no
  attempts, so the limit of five is never reached. A timer that is pending when
  the tenant disconnects connects it again.
- An edit of a stock item writes back the quantity that was read before
  (`inventory/infrastructure/repository.go:112`), undoing movements in between.
- `canTransition` ranks CANCELED below RECEIVED
  (`orders/infrastructure/repository.go:567`), so a canceled order may go on to
  any status, though the comment calls it terminal; and the status is read and
  written without a lock, so a delivered order may become canceled or ready.
- A transition of a pickup request compares nothing
  (`pickup/application/service.go:157`): a rejected one may be converted; and
  an assignment after the conversion overwrites the order's id with the
  assignee's (`pickup/infrastructure/repository.go:134`).
- Two clock requests of one member read the same last event
  (`attendance/application/service.go:80`): both clock in, or both out.
- A job run that a crash interrupts stays `running` (`jobs/runrec.go:32`).

## Only model-checked, or not modelled

Every invariant and every action property of the passing runs is proved, and
those of the violated runs are refuted by TLC's counterexamples. Liveness stays
with TLC, on the instances above: `RequestsFinish`, `RequestsAnswered`,
`DrainsEnd`, `LimitsSettle`, and the liveness properties of billing, messaging and
stock. The proof system has no rule for ENABLED, and so none for fairness.

Not modelled: the components marked so in `PROJECT.json`, each with its reason.
Most are single statements or reads. The status flow of orders, pickup requests
and attendance events change one row after an unlocked read and compare nothing
when they write; what goes wrong there is listed above. Of the modelled
components: the online order form and the payment dialog, which send no key, the
receipts and notices sent in the background past the breaker, prices and a promo's
dates, edits of a plan's row, the rounding of a stock quantity finer than its
column (item and movement are rounded separately), and handlers that only read.
