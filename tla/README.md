# Salon OS: TLA+ models, checks and proofs

This directory holds a formal model of the core of Salon OS, a multi-tenant
system for hair salons: a Fastify API and background workers over one PostgreSQL
database (`apps/api`), a React front end (`apps/web`) and some edge scripts
(`infra`). Paths below are relative to `apps/api/src/` unless they start with
`docs/`.

The code is a modular monolith. Almost everything that is hard about it is the
same kind of problem: requests, jobs and webhooks run as READ COMMITTED
transactions, and correctness rests on which rows and advisory locks a
transaction takes, in which order, what it read before it had them, and what a
second system (a worker's memory, the payment provider) does while the
transaction is open. That is what the models are about.

## 1. Files

| file | what it is |
|---|---|
| `JobQueue.tla` | the durable job queue, its workers and operators |
| `JobQueueProofs.tla` | six theorems about it |
| `Booking.tla` | bookings of a shop: locks, checks, exclusion constraints |
| `BookingProofs.tla` | nine theorems about it |
| `PaymentProvider.tla` | the payment provider, external to the repository |
| `EcOrder.tla` | an EC order, its payments, refunds and jobs; extends `PaymentProvider` |
| `OrderPromise.tla` | the abstract order that `EcOrder` implements |
| `EcOrderProofs.tla` | eight theorems about it, one of them the refinement |
| `Checkout.tla` | sales at the counter: payments, points, stock, register sessions |
| `CheckoutProofs.tla` | five theorems about it |
| `Campaign.tla` | a messaging campaign from schedule to completion |
| `CampaignProofs.tla` | five theorems about it |
| `ExternalSync.tla` | bookings of external media brought into the calendar |
| `ExternalSyncProofs.tla` | three theorems about it |
| `SlotBlock.tla` | bookings of the salon kept off sale on a medium without an API |
| `SlotBlockProofs.tla` | three theorems about it |
| `FiniteSums.tla` | lemmas about sums over finite sets, least elements and induction, for the proofs |
| `MC*.tla`, `MC*.cfg` | TLC instances of the module of that name; section 4 |
| `PROJECT.json` | components, runs, mutants, the source lines of every definition, findings, hazards, theorems |

Run `tlc -config MCBooking.cfg MCBooking.tla` and the like to check a model,
`tlapm BookingProofs.tla` and the like to check the proofs. Definitions whose
comment starts with *Mutant* (or that are placed directly before the definition
they vary, as in `TakenAll` and `Taken`) are not part of a model: each is a
plausible bug that, put in the place of the definition after it, breaks a
property of a run.

## 2. Inventory

### Components that are modelled

**Job queue and workers** (`jobs/queue.ts`, `worker.ts`, the console's
`retryJob` and `cancelJob` in `modules/ops/service.ts`).
State: rows of `jobs` (state, dedupe key, attempts, run_at, locked_at), the
invocations in each worker's memory, open business transactions.
Operations: enqueue inside a business transaction, cancel by prefix, claim with
SKIP LOCKED, run, finish (succeed, retry later, dead letter), reap stale rows,
stop, crash and restart, operator retry and cancel.
Hard: the lock is a timestamp that is never renewed; `finish()` writes by id
alone; a unique index over queued rows only, which a re-queue can violate;
deduplication decided before the deciding transaction commits.
Correct when: one handler per row, one queued row per key, a bounded number of
attempts, no change lost, settled jobs stay settled, every job settles.

**Booking core** (`modules/appointments/service.ts`, `availability.ts`,
`booking-rules.ts`, `seat-limit.ts`; migrations 0005 and 0179; ADR 0003).
State: appointments with staff, lane, range, status, and their resource claims;
row locks and advisory locks of the open transactions.
Operations: create (staff, online, import), update, transition.
Hard: four kinds of advisory lock and two kinds of row lock taken at different
moments, checks made from a snapshot that may be older than a lock, restoring
a cancelled booking without any check.
Correct when: nobody is double booked, units are held by one booking, the seat
limit and the online capacity hold under concurrency, no deadlock, no illegal
change of status.

**EC orders and online payments** (`modules/commerce/orders.ts`,
`modules/payments/api.ts`, `webhook.ts`, `service.ts`, `providers/stripe.ts`).
State: the order, its payments, refunds, the jobs `commerce.expire_order` and
`commerce.refund_orphan_payment`; outside, the provider's payment intents and
refunds.
Operations: create, start and retry a payment, staff payments, settle by
webhook, refund by staff, job or cancellation, refunds reported by the
provider, expire, process, ship, deliver, cancel.
Hard: the provider is called in the middle of a transaction, events arrive in
any order and more than once, a payer may pay long after the order gave up.
Correct when: no more is held than the order costs, money that is not needed is
refunded once, a cancelled order is repaid, a pending order ends.

**Counter sales, points, register** (`modules/pos/transactions.ts`, `points.ts`,
`register.ts`, `stock.ts`, the offline half of `modules/payments/api.ts`).
State: transactions with their payments and refunds, the customer's point
balance and ledger, register sessions and cash movements, a product's stock.
Operations: draft, items, payments by three methods, planned points, discard,
complete, refund (at the till, by `/payments`, told by the provider), void,
expire points; open, move cash, close.
Hard: the register is read without a lock by operations that last; points are
planned on a draft against a balance that other drafts plan too; refunds reach a
sale by four ways and its figures are derived afterwards; the expiry sums the
ledger before it locks the customer.
Correct when: a sale claims no more money than it holds, the balance is the
ledger and never negative, points are reversed once, all cash is in a session.

**Campaigns** (`modules/messaging/campaigns.ts`, `delivery.ts`,
`providers/line.ts`).
State: the campaign's status, one message per customer, its jobs, what a
provider has accepted.
Operations: schedule, snapshot in batches, dispatch in pages, multicast and
single delivery, retry, defer over the night, statistics, cancel, opt out.
Hard: every status is read without a lock and used after a provider call; jobs
run again after a lost worker; an answer may be lost though the message was
accepted; the statistics decide when a campaign is complete.
Correct when: duplicates are bounded by losses, a cancelled campaign stays
cancelled, a completed one has settled every message, a started one completes.

**Bookings of external media** (`modules/integrations/sync.ts`, `conflicts.ts`,
`conflict-store.ts`, `adapters/mock-booking.ts`).
State: one row per external booking, open conflicts, appointments, the account's
cursor, what a running sync holds.
Operations: delta sync, full resync, mails, apply one version (create, update,
call off, link, displace, reject, raise a conflict), record errors, resolve a
conflict in three ways, map a staff member; staff's own changes meanwhile.
Hard: syncs overlap and deliver versions out of order; no row to lock for a new
booking; a failed version is passed by the cursor; a conflict is resolved while
the booking changes.
Correct when: no version is replaced by an older one, no booking is lost
silently, a full resync repairs.

**Slot blocks** (`modules/integrations/push.ts`, `agent.ts`, `mail/manual.ts`,
`infra/chrome-sync-agent`).
State: one block request per booking, push jobs, the medium's own cells, the
plan that the helper in the salon's Chrome carries out.
Operations: push (read, then write), plan, read the day, save the day, report,
settle by hand.
Hard: between plan and report bookings move, are cancelled and come back; a
save or report may be lost; a cell may be needed by two bookings, or be kept
closed by the salon itself.
Correct when: requests converge to the bookings, nothing the salon closed is
sold, every booking ends off sale.

### How they interact

`emit()` (`lib/events.ts`) runs subscribers synchronously inside the emitting
transaction; `payment.succeeded` and its siblings reach the order that way, so
payment and order change in one action of `EcOrder`. `enqueue()` is called in
business transactions: `EcOrder` has the two jobs as fields (queued, running,
done, dead) and relies on what `JobQueue` establishes, that a committed unkeyed
job is run until it settles. Provider webhooks are stored and processed as jobs,
hence their at-least-once, unordered delivery. `Campaign` and `SlotBlock` have jobs of their
own as `JobQueue` shows them: queued once per key, run by one slot, put back on
failure, run again when their worker is lost. `ExternalSync` writes appointments
through the locks and checks of `Booking`, and a booking of `Booking` that
changes queues a push job of `SlotBlock` (the event is emitted inside the
booking's transaction). `Checkout` and `EcOrder` share `payments/api.ts`:
`refundPayment` and its report to the owner of the payment. Bookings and orders
share customers and tenants, nothing else.

### Components that are not modelled yet, or not at all

PROJECT.json lists all of them with the reason. In short:

* protocols of their own, left for section 6: the webhook inbox, idempotency
  keys, merging customers, stock shared by orders;
* records, queries and screens without a concurrent protocol: catalog, kartes
  and forms, reviews, marketing, analytics, the AI assistant, organization and
  settings, schedules (which `Booking` takes as reasons to refuse), login and
  permissions, the web app;
* pure I/O: files and storage, mail and page parsers, most edge scripts. The bulk
  import of `modules/migration` writes bookings past the booking service; only
  the exclusion constraints protect it, and `Booking` does not include it.

## 3. The models

### JobQueue

One action is one SQL transaction, or one statement of a business transaction
that stays open (`Enqueue`, then `Commit` or `Rollback`), so that workers and
other transactions run in between. Time is reduced to two facts of a row:
`due` (run_at has passed) and `stale` (locked_at is older than ten minutes);
`BecomeDue` and `LockAges` make them true. A worker process is up, stopping or
down, and `exec` holds the `JobRow` copies its handlers work on: `Crash` loses
them, the rows stay running.

| action | code |
|---|---|
| `Enqueue`, `Commit`, `Rollback` | `enqueue`, `db/tenant.ts` `withTenant` |
| `CancelJobs` | `cancelJobs` |
| `Claim`, `Read` | `claim`, the start of `runJob` |
| `Succeed`, `Die`, `Requeue`, `RequeueFails` | the four outcomes of `finish` |
| `Reap` | `reapStaleJobs`, one UPDATE of all stale rows |
| `Stop`, `Exit`, `Crash`, `Start` | `worker.ts`, SIGTERM, a killed process |
| `RetryJob`, `CancelJob` | `modules/ops/service.ts` |

`owed` is history: for each key, whether a committed change still waits for a
run that reads after the commit, and what the commit found. `reaps` is history
too: how often a row was given back.

### Booking

A client is a connection with one transaction. Each transaction walks through
phases (`loading`, `planning`, `planned`, `ready`, `placed`, `claimed`,
`written`), takes the locks of its next step one by one (`Acquire`), and is
woken when a lock is released.
Ticks stand for time, a half-open range is the set of ticks it covers, and
`occupied` adds the buffers of the menus. What a transaction reads is the
committed rows (READ COMMITTED), without its own.

| action | code |
|---|---|
| `Create` | `createAppointment`, for an online booking after `public/service.ts` has updated the customer |
| `Open`, `LoadForUpdate`, `LoadForMove` | `lockAppointment` and the checks of `updateAppointment`, `transitionAppointment` |
| `Plan` | `resolvePlan` after its staff and capacity locks: overlap check, staff, lane, unit |
| `CheckSeats` | `assertSeatLimit` |
| `WriteRow` | the INSERT or UPDATE of the booking; an edit has deleted its resource row before |
| `WriteClaim` | the constraint on lanes accepts it; INSERT or UPDATE of the resource row |
| `WriteStats` | the constraint on units accepts that; `recomputeCustomerStats` |
| `Commit` | COMMIT |
| `Refuse`, `Rollback` | the errors of the code; everything else that ends a transaction |

PostgreSQL puts a version into the index first and judges it afterwards, so a
version that waits is already in the way of others. `LaneWait` and `UnitWait` are
the two waits of a transaction that writes: for another's uncommitted version it
clashes with, and for a committed one that another has deleted or replaced.
What a transaction has put down or taken away by then depends on its statements
(`Unclaims`, `Reclaims`): an edit deletes its resource row before it updates the
booking, a transition updates the booking first. When the other has ended, the
version is accepted or refused by what was committed. `passed` is history: which
checks, made under their locks, gave a row its place; a restored booking has
passed none.

A circle of waits is ended by PostgreSQL, which rolls one transaction back
(40P01, answered as 409 CONCURRENT_UPDATE in `lib/errors.ts`; `withRetry` of
`db/tenant.ts` would repeat it, and nothing calls it). In the model any
transaction may roll back at any time, and circles are what the property
`NoCheckedCircle` is about.

### PaymentProvider, EcOrder, OrderPromise

`PaymentProvider` is external, modelled from how `stripe.ts` and `webhook.ts`
use it: a payment intent is open, declined, captured or canceled, a declined
one may still be paid with another card; refunds are made through the API (a
repeated idempotency key returns the first answer) or on the dashboard, and may
fail later. Every event is a snapshot that stays in `events` for good, so it may
be processed any number of times and in any order. Charge events come with
their list of refunds or without it (API versions before and after 2022-11-15):
`ListModes`.

`EcOrder` is one order, because orders share only stock and no payment belongs
to two. Every request, job and webhook locks the rows it reads before it decides
and is therefore one action, with one exception: `refundPayment()` calls the
provider within its transaction. `CallProvider` is that call, `CommitRefund` and
`RollbackRefund` the two ends of the transaction; between them its row locks
(payment, and for a cancellation the order) are held and the money may already
be back.

| action | code |
|---|---|
| `Create`, `RetryOrderPayment` | `createOrder`, `retryOrderPayment` |
| `StaffPays` | `POST /payments` |
| `Succeeded`, `PaymentFailed`, `IntentCanceled` | `settleOnlinePayment` and the order's subscribers |
| `RefundUpdated`, `ChargeRefunded` | `applyProviderRefund`, the charge handler of `webhook.ts` |
| `RefundRequest`, `CommitRefund`, `RollbackRefund` | `refundPayment` |
| `RunOrphan` | `refundOrphanPayment` as a job with `MaxTries` attempts |
| `ExpireOrder`, `CancelOrder`, `ProcessOrder`, `ShipOrder`, `DeliverOrder` | the same in `orders.ts` |

`OrderPromise` says what an order promises in five small actions: it is paid
once, by one payment; it advances only after that; the reservation is kept until
it is called off; and a paid order is called off only when nothing is owed to
the payer *as far as the order was told*. The mapping is the identity on five
fields of the order (`PromiseKept`).

### Checkout

An operation on a sale holds the row lock of the transaction (`lockTx`) to its
end and is one action, except that the register session is read without a lock.
Every operation that moves cash therefore is at least two: one that reads the
open session, and one that books the cash in what was read, with closing, opening
and other sales in between. A completion, a refund at the till and a void are a
`Begin…` and a `Commit…`, and `Abort` rolls one back; a void whose own session is
closed looks for the open one in a third step (`FindDrawer`). A refund through
`/payments` locks no sale while it reads (`AskRefund`), only to book
(`RefundCash`) or to be refused. The expiry of points is two statements for the same reason, `ExpireRead`
and `ExpireApply`.

| action | code |
|---|---|
| `CreateTransaction`, `ReplaceItems`, `SetPointUse`, `DiscardDraft` | the draft operations of `transactions.ts` |
| `AddPayment`, `RemovePayment`, `SettleOnline` | `addPayment`, `removePayment`, a payment's webhook |
| `BeginComplete`, `CommitComplete` | `completeTransaction`, with earning, redeeming, stock and the register |
| `BeginRefund`, `CommitRefund` | `refundTransaction`, which refunds the payments and then calls `syncRefundState` |
| `AskRefund`, `RefundCash`, `RefuseRefund` | `refundPaymentRequest` of a cash payment (`payments/service.ts`) and the `refundPayment` it calls |
| `RefundOnline`, `RefundFails` | `/payments` and dashboard refunds of an online payment, a refund that fails at the provider |
| `BeginVoid`, `FindDrawer`, `CommitVoid` | `voidTransaction`: refunds what is held, takes points and stock back, pays out of the open drawer when the sale's own is closed |
| `PointsAge`, `ExpireRead`, `ExpireApply` | a lot passes its `expires_at`; `expirePoints` |
| `OpenRegister`, `CloseRegister`, `AddCashMovement`, `NextDay` | `register.ts`; the business day a void must fall in |

Left out: prices, taxes, coupons, the appointment a sale completes, receipt
numbers and the idempotency keys of the requests. One payment of each method is
live per sale at a time, all sales are of one customer and sell one unit.
The figures of a session are kept per sale and for the movements made by hand
(`Line`), so that one sale's missing cash does not hide another's. `astray` is
history: the sales with an operation or a request under way at the moment the
session it had read was closed, and those whose operation found no session open.

### Campaign

A handler is a sequence of transactions and provider calls; each is one action
and `worker[w]` is its program counter and what it holds in memory. `finish()`
is one step with the handler's last transaction, as a lost worker between the
two only repeats work. Provider and worker fail independently: an answer may be
lost (`AnswerLost`), refused, or the worker may die before or after the call.
A delivery's retry key is its message; a multicast gets a fresh number when its
page is dispatched, and keeps it over its own retries (`drawn` counts the pages
that drew one), so two multicasts to one group are two, as with the code's
`randomUUID()`.

| action | code |
|---|---|
| `ScheduleCampaign`, `CancelCampaign` | the routes of `campaigns.ts` |
| `Claim`, `Retry`, `Crash`, `Reap` | the queue as `JobQueue` shows it |
| `StartCampaign`, `SnapshotRead`, `SnapshotWrite`, `EndSnapshot` | `campaign.run` |
| `DispatchPage`, `EndDispatch` | `campaign.dispatch`: one page of messages to multicast and delivery jobs |
| `LoadBatch`, `LoadMessage`, `Accepted`, `AnswerLost`, `Refused` | `deliverMulticast`, `deliverMessage`, up to and including the call |
| `MarkSent`, `BackToQueue`, `AwaitRetry`, `MarkFailed` | the transaction after the call |
| `RefreshStats` | `campaign.stats`, which decides completion |
| `OptOut`, `Lose`, `Dusk`, `Dawn` | a customer blocks, template or channel disappears, quiet hours |

The order in which pages are cut is left open. Left out: automations and
notifications, SMS and the automatic choice of a channel, approval, a resend by
hand, the rules of segments, the figures of the statistics.

### ExternalSync

Each delivered version is applied in a transaction of its own under the lock of
its row: one action (`Process`), whose outcome depends on the stored version,
the calendar, the policy and the staff map. Where there is no row to lock the
read and the insert are two steps, so that two syncs may both insert. A full
resync reads the rows and then the largest `change_seq` in a second statement
(`FetchAll`, `FetchMax`); the cursor is written by whoever ends last.

| action | code |
|---|---|
| `FetchChanges`, `FetchAll`, `FetchMax` | the adapter's reads |
| `Deliver`, `Insert` | `processExternalBooking`, with `createFromExternal`, `updateLinked`, `cancelLinked`, `displace`, the conflicts |
| `Throw`, `RecordBookingError`, `RecordFails` | a failing transaction and the record of it |
| `RecordSyncSuccess`, `Lose` | the end of `runSync`; a worker lost before it |
| `ProcessMail` | the job of a mail: any order, repeated on failure |
| `AcceptExternal`, `KeepInternal`, `ResolveManually` | `conflicts.ts` |
| `Book`, `Move`, `Cancel`, `StartService`, `MapStaff` | staff, meanwhile |
| `Change` | the medium |

Appointments that nobody refers to are used again (`Fresh`); with two bookings
and two slots four rows are enough for every booking to have one. A policy may
apply at any delivery, so the runs cover a policy changed in between. Left out:
unknown menus, bookings copied from a former system, customer and note changes,
accounts without a shop, disabled accounts, failure counters and the degraded
state, pages of 500, and two transactions that link the same appointment at the
same time.

### SlotBlock

One day of minimo, which sells half-hour cells per stylist; one block row per
booking. A push job reads the booking in one transaction and writes the block in
another (`StartPush`, `FinishPush`); the helper's cycle is four steps, of which
`SaveDay` replaces the whole day on the medium, and may fail after any of them.
`queued` counts the push jobs of a booking by the attempts made. A job that fails
is queued again until it has had `MaxTries` attempts and is dead then; one whose
worker is lost is queued again at any number, as `reapStaleJobs` does not compare
them. `dead` holds the bookings the last of whose jobs to end is dead; a later
job that completes takes its booking out.

| action | code |
|---|---|
| `Book`, `Reschedule`, `CallOff`, `Restore` | a booking changes and queues its push job |
| `HandOver` | the connector is switched to the helper and all bookings are queued |
| `StartPush`, `FinishPush` | the handler of `PUSH_JOB` (`integration.push_block` in `push.ts`): its first transaction, `reconcileManualBlock` |
| `FailStart`, `RetryPush`, `Again` | the job fails or its worker is lost before it has read, or after, having written or not; `finish` and `reapStaleJobs` of `jobs/queue.ts` |
| `AgentPlan`, `ReadDay`, `SaveDay`, `AgentReport`, `CycleFails` | `agent.ts` and `infra/chrome-sync-agent/background.js` |
| `CompleteManualBlock` | staff do it by hand and say so |

`odd` is history and names what the protocol does not cope with: `again` (a
booking takes a time it had before), `overlap` (two push jobs of it overlapped),
`by_hand`. The properties except exactly these, for which section 4 shows why,
and bookings in `dead`, which wait for an operator. Left
out: the operator's retry of a dead job, media with an API (only a mock adapter has one), SALON BOARD, past slots,
stylists the medium does not know, bookings that came from the medium itself,
the re-sync button, watchdog mails, two helpers at a time.

## 4. What the runs show

### Passing runs

**`jobqueue`** (1.4 million states): three rows, one key and unkeyed jobs, two
workers with one slot each, one open transaction, one crash or shutdown, one
operator retry. `ExclusiveExecution`: a row is in one handler at a time and has
the attempts that handler was given. `AttemptBudget`: claimed at most
max_attempts times plus once per reap (the exact bound: lost runs are counted but not checked).
`CoveredChangeNotLost`: a change that found or made a queued row is still to be
read. `SettledIsFinal`. Three rows are the fewest where a running row, a queued
row of its key and a third party exist together. `MaxSlow = 0`: these
properties assume that no handler runs longer than ten minutes; with
`MaxSlow > 0` exclusive execution is lost, which is why docs/operations.md:124
asks handlers to be idempotent.

**`jobqueue_live`** (49 thousand): unkeyed jobs, a crash *and* a handler that
outlives its lock. `EveryJobSettles`.

**`booking`** (1.1 million): two bookings, two transactions, one staff member
with two lanes and one with one, a unit, a slot within another, buffers, three
channels, and either a seat limit of one or an online capacity of one.
`NoDoubleBooking` (over instants and lanes, not over pairs), `UnitsHeld`,
`SeatLimitHolds`, `OnlineCapacityHolds`, `PlanStaysFree` (the overlap check's
answer is still true when the row is written), `NoCheckedCircle` (no circle of waits among transactions whose booking passed its
overlap check, over row, staff, capacity, unit and seat locks and the waits for
versions of bookings and resource rows; the customer's row and restored bookings
are the subjects of `MCBookingCircle.cfg` and `MCBookingRestore.cfg`). Two bookings suffice for every
conflict of two; sums over three are what the proofs add.

**`ec_order`** (54 thousand): two attempts of the customer and a payment by
staff, each paid, declined, paid after a decline, or cancelled.
`HeldWithinTotal`, `OrphanCovered`, `PromiseKept`, `PendingEnds`. Totals of 0
and 2 allow a free order and a partial payment; refunds come from the cancellation and the refund job, which has one attempt, and charge
events carry no list. More refunds, attempts and callers for several payments at
once are too large to enumerate, so `ec_refunds` has them for one payment: the
refunds of two payments meet only in the order's balance and its `paidBy`.

**`ec_refunds`** (168 thousand): one payment, refunds by job, staff,
cancellation and dashboard, both API versions, refunds that fail later,
transactions rolled back after the provider answered, at most two refunds and
two attempts of the job. `OrphanGivenBack` (a done job has given the money, and
no second one of its key exists), `CancelledIsRepaid` (by the provider's own
books, not the order's; payments with a refund that failed later, or with one
recorded from a charge without its list, are exempt: see `MCEcOrderShort.cfg` and
the hazards), `CountedOnce` (reports
repeated, reordered and racing the retry of a request that was rolled back: a
payment's `refunded_amount` never exceeds the provider's refunds of it that have
a row which has not failed, each taken once; payments ever counted from a charge
without its list are exempt: `MCEcOrderTwice.cfg`), `OrphanEnds`.

**`checkout`** (0.8 million): two sales of one customer that plan the same
points within one register session, or one sale over two sessions
(`SalesOrSessions`; one sale's points do not expire, two sales have one refund
and no failed one). A sale costs at most two,
the customer holds one point; at most two refunds (one on a draft), one that
fails later, one expiry and one cash movement. `SaleNotOverstated`,
`BalanceIsLedger`, `PointsReversedOnce`, `CashBooked`. Two drafts are enough for
one to spend the points the other has planned; a session is missed by an
operation that overlaps its close, which needs one sale and two sessions.
`CashBooked` holds the books of the others: a sale that is not `astray`, and the
movements by hand, have their cash counted once over all sessions, closed ones by
the snapshot of their closing, whatever was sold, refunded and voided in which of
them. That the exempt ones do lose cash is `MCCheckoutClose.cfg`. In the runs one
request of `/payments` is on its way at a time. The
sale may be *under*stated: a refund that fails puts the payment right without
telling the sale (`SaleMatchesMoney` is defined and false for that reason).

**`campaign`** (1.5 million): two customers, two symmetric workers, LINE or
e-mail, batches and pages of two, two attempts; one worker lost during a
dispatch, one failing call, one night, one opt-out or lost channel.
`DuplicatesBounded` (a customer gets the message once, plus once per lost worker
and, by e-mail only, once per lost answer), `CompletedIsSettled`,
`CancelledIsFinal` (while no worker was lost). **`campaign_ends`** (250
thousand): one worker that may be lost in dispatch, multicast and delivery, two
failing calls. `CampaignEnds`. A worker lost in `campaign.run` itself is
excluded: see below.

**`external_sync`** (537 thousand): a polled booking and one that comes by mail
want the same two slots, one of which the medium reports under a staff id that
is not mapped yet; one delta sync and one full resync overlap, two changes on the media, one failure or
change by staff. `Accounted` (a stored booking stands in the calendar, is shown
to staff, or was decided against), `NeverOlder`, `ResyncRepairs`.

**`slot_block`** (504 thousand): two bookings, two stylists, two times that
share a half hour, a cell the salon keeps closed, one worker, and any two of
moves, cancellations, restorations, hand work, failed jobs and failed cycles.
`Convergent`, `OwnStayClosed`, `EndsHeld`. A job has one attempt (five in the
code), so that with two such events both a dead job and a change after it occur;
an attempt that is made up for is that of a lost worker. `Convergent` is proved
for any number of attempts and workers.

### Statements the code does not keep

Two of them are runs that must fail, and findings of PROJECT.json:

| run | property | finding |
|---|---|---|
| `jobqueue_reap` | `LostJobsComeBack` | `docs/operations.md:124`. Since migration 0091 two rows of a key may be running; lost together, the reaper's single UPDATE violates the index at every try and no stale row of any tenant comes back. |
| `ec_order_late` | `DuplicateIsRefunded` | `orders.ts:355`, money for an order that expired or was paid already is refunded. A declined payment is final in `FINAL_PAYMENT_STATUSES`; when the payer makes it good later the success is ignored and the money kept. |

The others are kept as configurations that TLC refutes, to be run by hand:

| configuration | property | what TLC shows |
|---|---|---|
| `MCJobQueueLost.cfg` | `MidRunChangeNotLost` | `queue.ts:11-12` says a change committed while its job runs enqueues a fresh run. `ON CONFLICT DO NOTHING` decides when `enqueue()` executes: if the queued row is claimed and read before the commit, nothing runs for the change. |
| `MCBookingUnit.cfg` | `PlannedUnitStaysFree` | ADR 0003:40 says locks make a booking wait and be judged again before a constraint fails it. The unit is chosen before its lock is taken and not chosen again. |
| `MCBookingCircle.cfg` | `NoCircle` | `service.ts:102`, "in a stable order to avoid deadlocks". An online booking may lock its customer's row before the staff, all others after. |
| `MCBookingRestore.cfg` | `NoCircle` | the same, without customers. Restoring takes no lock but the booking's own (`service.ts:598`): a new booking and one restored to its lane are both written before either is judged, and each waits for the other. |
| `MCEcOrderShort.cfg` | `RepaidOnCancel` | `orders.ts:24`, cancelling after payment refunds. A refund that failed is taken back from the payment but not from the order, so cancelling refunds too little. |
| `MCEcOrderTwice.cfg` | `NeverOverReturned` | `webhook.ts:208-218`, the difference of a charge event without its list is counted. When the transaction that made the refund was rolled back, its retry, or the refund's own report, counts the same money again: the payment shows more returned than the provider gave. |
| `MCCheckoutClose.cfg` | `AllCashBooked` | `register.ts:12`, the expected cash counts every cash sale, movement and refund. A sale that read the open session commits after it was closed: its cash is in no figure of any session. |
| `MCCampaignTwice.cfg` | `LineSentOnce` | `delivery.ts:32-33`, the retry key keeps LINE from sending twice. A dispatch that starts at night defers a delivery; repeated in the morning after a crash it multicasts the same message under another key, and the deferred delivery pushes it again. |
| `MCCampaignRerun.cfg` | `CampaignEnds` | `campaigns.ts:260-267` sets the campaign running in a transaction of its own. A worker lost after that leaves a job whose repetition stops at the status: the campaign stays running for good. |
| `MCExternalSyncCursor.cfg` | `CursorCovers` | `sync.ts:32`, the cursor advances only after the whole batch was processed successfully. A booking whose import failed, or whose error could not even be recorded, does not hold it back. |
| `MCSlotBlockOverlap.cfg` | `ConvergentAlways` | `push.ts:14-15`, duplicate or out-of-order jobs are harmless. The job that read first may write last: the block follows a booking that has moved since. |
| `MCSlotBlockAgain.cfg` | `EndsHeldAgain` | `agent.ts:31-32`, a slot is not reopened while a booking needs it. A booking cancelled, planned for reopening and restored before the report gets its cell reopened while its block stays `pushed`; one that changes only its stylist is never asked for again (`manual.ts` compares times). |
| `MCSlotBlockLeak.cfg` | `EndsReopened` | `agent.ts:462-463`, what was closed is kept so that the next round reopens it. A booking cancelled while the helper closes its cells leaves them recorded on a row that is never planned again: they stay closed. |

In each case a passing run holds the part of the statement that is true
(`CoveredChangeNotLost`, `EveryJobSettles` for unkeyed jobs, `PlanStaysFree`,
`NoCheckedCircle`, `OrphanCovered`, `CancelledIsRepaid` for
refunds that did not fail, `CountedOnce`, `CashBooked`, `DuplicatesBounded`, `ResyncRepairs`, and the
exceptions named in `odd`).

### Fairness

`JobQueue`: a transaction ends; a worker that is up polls, so a claim that stays
possible happens, and reaps; a handler returns; time passes; the platform starts
a worker that is down (docs/operations.md 5.1 and the process manager). `Reap`
and `Finish` are strongly fair: their UPDATE may have to wait for an uncommitted
insert of the same key, and PostgreSQL wakes it when that ends. Nothing is
assumed of clients enqueuing, of operators, or of which outcome a handler has.

`EcOrder`: time passes, the expiry job runs, a transaction that called the
provider ends (weak); a success event is processed and the refund job runs
(strong, since a row lock may be held by a refund whenever they are tried, and a
waiter is next in the row's lock queue; webhook and refund job are jobs, which
`JobQueue` shows to be run until they settle). Nothing is assumed of payers,
staff, the provider, or of a refund ever committing.

`Booking` has no liveness property: every transaction may be rolled back.

`Campaign`: night ends, stale jobs are reaped, a handler goes on (weak); some
worker claims a job that is runnable again and again, and the statistics run
(strong: a claim competes with other claims and with the night, and the queue
takes the oldest due job first). Nothing is assumed of calls succeeding, of
staff or customers.

`ExternalSync`: each started sync takes its steps (weak). `ResyncRepairs` itself
assumes that full resyncs go on being started. The code starts one only on
request (docs/operations.md 9.2); the daily full sync of docs/requirements.md:1472
is not scheduled anywhere.

`SlotBlock`: the helper's cycle goes on, because Chrome's alarm starts it every
ten minutes (weak), and some worker takes a push job that stays queued (weak).
Failures are bounded, so cycles and jobs end up succeeding.

`Checkout` has no liveness property, for the reason `Booking` has none.

## 5. What is proved

All theorems hold for every value of the constants that the modules' ASSUMEs
allow: any number of rows, keys, workers, connections, staff, units, payments.

**`JobQueueProofs`**, from `ConstantsAssumption`. `TypeCorrect`,
`UniqueQueued`; and, where `MaxSlow = 0`, `Exclusive`, `Budget`,
`SettledStaysSettled`, `CoveredChangesAreSeen`. Uniqueness is inductive
with two facts added (`IndexInv`): uncommitted inserts hold distinct rows that do
not exist yet and distinct keys (`TxRows`), and handlers run rows that exist
(`ExecRows`). Exclusion is then inductive as stated, because it says of the row
in a handler that it is running, not stale, and has the attempts the handler was
given: claim takes only queued rows, the reaper only stale ones, and
`MaxSlow = 0` keeps a lock from ageing under a live handler. The budget follows
from exclusion (the attempts `finish()` compares are those of the row), and so
do the finality of settled rows and the covered changes: a row a handler writes
is the one it was given.

**`BookingProofs`**, from `ConstantsAssumption`. `TypeCorrect`,
`DoubleBookingExcluded`, `UnitsStayHeld`, `ChangesAreLegal`, `PlanIsReserved`,
`SeatsAreLimited`, `OnlineIsLimited`. The invariant has four parts:
`TypeInv`; `LockInv` (a lock has one holder, and a transaction past a phase
holds the locks of that phase); `RowInv` (every row and draft has a lane below
the limit and claims its unit when live); `ClashInv` (no two committed rows
clash, nor a written draft with a committed row it does not replace, nor two
written drafts). Double booking follows by sending the bookings of an instant to
their lanes, an injection into `0 .. max - 1`. The two counted limits follow
from one argument about a set that grows by one row only under its lock,
instantiated for seats and for capacity.
`CheckedCirclesExcluded` says that every circle of waiting transactions contains
one that waits for a customer's row or writes a booking that no check allowed,
and `NoCircleWithoutRestores` that there is no circle when no booking names a
customer and none is restored. Locks are totally ordered (row, staff, capacity,
unit, seats), `Stage` says which kinds a transaction can hold and want in each
phase, and `InOrder` that it wants no lock before one it holds, customers aside.
A transaction that writes waits for no lock and, if it only changes a checked
booking's status, for no version either (`CheckedMoveNeverBlocked`). A plan waits
only for an edit of a row it was *overtaken* by: one committed after it
had looked (`BlockedPlanOvertaken`; two plans in the making have different lanes
and units by their locks, `UnitHeld`). Plans are overtaken in the order they were
made in, never in a circle (`OvertakenInOrder`). A finite circle would have a
last lock, or a last plan.

**`EcOrderProofs`**, from `OrderAssumption` and `ProviderAssumption`.
`PendingAlwaysWatched`, `OrphanAlwaysCovered`, and `PromiseAlwaysKept`, the
refinement: initial states map to initial states and every step to a step of
`OrderPromise` or a stutter. The invariant `Inv` adds the shapes of the
records, that a payment not yet settled has settled nothing (`NothingSettled`),
and that a cancellation in flight has the order's row, so it is still paid by
that payment and owes what is being returned (`CancelHolds`); without the last
one `CommitRefund` does not refine `CallOff`.

The theorems about money are built on it in layers, each inductive given those
before it. `Books`: types (`EcOrderTypes`), a payment gives back no more than it
took (`Money`), and events, refund rows, calls and attempts are of payments that
were started (`EventsKnown`, `RowsKnown`, `CallFits`, `TriesFit`).
`StakesWithinTotal` counts a payment from the moment it is started until it
fails, refunded or not, which is what `outstandingBalance()` leaves room for;
`NeverHeldTwice` follows. `OrphanMade` says that a refund job whose key the
provider or the table knows made one refund of the whole payment, rolled back or
not: `OrphanRefunded`. `Counted` is `CountedOnce` of the payments and of a report
half applied: a row that fails is taken out of the figure and out of the sum.
With the provider's books and ours one, that is each refund once: refund ids are
unique and a payment's refunds stay within it (`Once`), every row, event and call
is of a refund that was made (`Backing`); so rows map to refunds one to one, with
their amounts, and a sum over rows is one over refunds (`RefundsCountedOnce`).
`CancelledOrderRepaid` needs the same, and
for a payment none of whose refunds failed or was counted without a list the
figure of the payment, the sum of its rows and the figure of the order are equal
(`Agrees`). What a charge event does is a recursive function over its list of
refunds; an invariant of one step is carried along the list by `ListedInduction`.

**`CheckoutProofs`**, from `CheckoutAssumption`. `NeverOverstated`,
`ReversedOnce`, `CheckoutTypes`, `LedgerAdds`, `CashInOneSession`. The invariant is one predicate per sale, `Good`: the shape of the
records (`Typed`); what refunds hold of payments (`PaymentsFit`); and what a
draft, a sold sale, a voided one and one whose lock is held between two steps
must agree on (`DraftFits`, `SoldFits`, `VoidedFits`, `BusyFits`). The last is
what makes it inductive: the amounts an operation decided on in its first step
are still right in its second because the sale's lock is held. The balance and
the cash are sums over sales and sessions: a step changes the term of one sale,
and of one session, by the amount it moves (`SumUpdate` of `FiniteSums`). For the
cash it must be known which session a sale and an operation refer to
(`SessionFits`).

**`CampaignProofs`**, from `CampaignAssumption`. `TypeCorrect`,
`AttemptsStayBounded`, `CompletedOnlyWhenSettled`, `DuplicatesStayBounded`,
`CancelledStaysCancelled`. Types rest on `Fits`: what a
handler holds is a job of the kind its program counter says. Completion rests on
`CInv`: before the snapshot ends no message is dispatched (`NotStarted`,
`Collecting`), cursors stay among the customers (`CursorsFit`), and a settled
message is never unsettled by a handler that loaded it earlier. Duplicates are
counted by `Roads`: everything that may still lead to a message for a customer,
be it the draft, a job that is queued, lost or in a handler, the snapshot or a
dispatch that has not come to the customer yet. A step moves a road or ends it,
only a lost worker adds one; a road is open until LINE has taken its retry key
and its own call has been made, and open roads plus messages that arrived never
exceed the allowance (`Bounded`). While no worker was lost there is one road at
most (`Alone`), so the messages of a call are *sending* until it ends
(`HoldsFit`), and one that is *cancelled* is in no handler's hands.

**`SlotBlockProofs`**, from `SlotAssumption`. `TypeCorrect`, `NeverSellsOwn`,
`PushConverges`. `OwnUntouched` follows the salon's own cells through a cycle:
they are in no day the helper read, no record of what it closed and nothing it
has done. Convergence is an invariant per booking: a write in flight is of one
job (`OneJob`) or belongs to a booking with `overlap`, and if none is queued it
will make the block match (`WillMatch`), or it matches already (`Settled`), or the
last job of the booking is dead.

**`ExternalSyncProofs`**, from `ExternalAssumption`. `TypeCorrect`,
`OlderNeverWins`, `NoneLost`. `Accounted` is inductive for one booking at a time
(`Told`) once an appointment stands for one booking only (`OneBooking`): a step
about one booking then cannot move another's appointment without putting that
one into `decided`. A version is never older than the stored one because a row
that does not exist has version 0 (`NoneIsUnseen`) and every other step compares
under the row's lock. A sync takes the version with the least number of those it
holds; that there is one is `LeastExists` of `FiniteSums`.

**`FiniteSums`** says how `SumFunctionOnSet` changes when one row changes, enters
or leaves, and how it compares. The library's induction theorems take an operator
as a parameter, which the provers cannot instantiate; here the predicate is a
set, a counterexample of least size is taken by the well-foundedness of the
naturals (`LeastExists`, `SubsetInduction`, `NatInductionSet`), and the theorems
that define the sum recursively follow from it.

`UniqueQueued`, `PendingAlwaysWatched`, `AttemptsStayBounded` and
`ChangesAreLegal` state invariants that TLC checked while they were developed;
their proofs stand for them and no run repeats them.

Every invariant and every action property of the passing runs is stated by a
theorem. Only model-checked is liveness, which needs ENABLED: `EveryJobSettles`,
`PendingEnds`, `OrphanEnds`, `CampaignEnds`, `ResyncRepairs` and `EndsHeld`; and
the statements the code does not keep, which are counterexamples.

## 6. Plan

Order: what can lose or duplicate money or bookings first.

1. *Done*: `JobQueue`, `Booking`, `PaymentProvider` with `EcOrder` and
   `OrderPromise`; `Checkout` (sales, points, register); `Campaign`;
   `ExternalSync`; `SlotBlock`; the proofs named in section 5.
2. `WebhookInbox` and `Idempotency`: the two outer shells of requests, each a
   record written in one transaction and completed in another. Properties: an
   event that was accepted ends processed or is visible to the operator; a key
   is executed once unless a server error was answered (a crash between the
   handler's commit and `onSend` breaks it). They discharge what `EcOrder`
   assumes of event delivery.
3. `Booking` with its neighbours: schedule blocks, which take no lock
   (`schedules/service.ts:288`), and retries of one `clientRequestId`
   (`public/service.ts:347`).
4. `EcOrder` with row locks one by one, for the order in which `cancelOrder` and
   a webhook take order and payment (`orders.ts:399`), and the conditional
   update of a stock level shared by two orders.
5. `CustomerMerge`: merge, undo and rows inserted meanwhile.
6. More proofs: the safety half of the liveness properties, as invariants that
   say what a step would have to lose for them to fail (a queued job for every
   pending order is `PendingAlwaysWatched`; the like for a message that is not
   settled, a booking that is not off sale).

### Not modelled

Most of the repository's lines are screens (`apps/web`), generated or declared
types (`db/types.ts`), CRUD over records, SQL reports, parsers and bulk import.
They change state one row at a time in one transaction or not at all, so that a
model of them would repeat their assignments. The models cover the parts where
order, concurrency and failure decide; that is a small share of the lines. Within
the modelled components the parts left out are named with each model in section
3 and in PROJECT.json.
