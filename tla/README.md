# TLA+ models of Vendylio

Vendylio is a multi-tenant storefront platform: guests buy from a seller's store, pay by
card through Stripe Checkout or by Cash App / Zelle, the seller prepares the order, a
courier or the seller delivers it, and the seller withdraws what was earned. The back end
is a set of Next.js route handlers and crons over one PostgreSQL database (Prisma), with
Redis for queues, leases and the circuit breaker. Paths below are relative to
`src/frontend/src/`.

## 1. Inventory

| Component | State it keeps | Operations | Hard behaviour |
|---|---|---|---|
| Order status and effects (`lib/server/orders`, `app/api/orders/[id]`) | `Order.status`, stock rows, commission charge | paid effects, refund effects, PATCH, confirm, refund, expire, abandon | eight writers of one column; some test a row read before their transaction |
| Checkout (`app/api/orders/route.ts`) | `Order` row, its Idempotency-Key, `providerChargeId`, `paymentUrl` | replay, price, create, charge, store the reference, fail | external call between two writes; crash in between; retries that overlap |
| Discounts (`discounts/evaluate.ts`, `app/api/discounts`) | `Discount.maxRedemptions`, `redemptionCount` | test at checkout, count at payment, edit, delete | a limit tested long before it is counted |
| Stripe webhook inbox (`lib/server/webhook`, `app/api/webhooks/stripe`) | `WebhookLog` | dedup, paid, refunded, dispute | duplicates, resends, reordering, aborts |
| Payment reconciliation (`payments/reconciliation.ts`) | `FinancialEvent` | select, ask Stripe, record | stale candidates |
| Fulfillment (`lib/server/fulfillment`, `app/api/orders/[id]/delivery`) | `Delivery`, `DeliveryEvent` | dispatch, poll, courier events, cancel, self-delivery | four actors, out-of-order events, stale batch, a courier call inside a transaction that it may outlive |
| Courier adapters (`fulfillment/providers`, `delivery/uber-direct.ts`) | bookings at Uber Direct and DoorDash | book, ask, cancel | the two differ in what identifies a repeated request |
| Inventory (`inventory/adjust.ts`, product routes) | `Product.quantity`, `StockMovement` | sale, restock, adjust, edit | cached quantity beside a ledger |
| Withdrawals (`withdrawals`, `app/api/withdrawals`, admin routes) | `Withdrawal` | request, transfer, complete, cancel, reverse | money leaves between two transactions |
| Commission ledger (`commission`, `billing/commission-settlement.ts`) | `CommissionCharge` | owe, settle, invoice, waive, credit | three collectors of one row |
| Outbox, leader lease (`outbox`, `leader-lease.ts`) | `OutboxEvent`, a Redis key | enqueue, claim, dispatch, retry, recover | at-least-once, lease expiry |
| Job and email queues (`queues`) | Redis lists, `EmailJob` | push, claim, retry, recover | crash windows between two Redis commands |
| Circuit breaker (`payments/circuit-breaker*.ts`) | four Redis keys | execute, open, probe, close | several processes, late answers, a death between two commands |
| Disputes (`payments/disputes.ts`) | `Dispute`, `FinancialEvent` | created, updated, closed | out-of-order events |
| Plan billing (`lib/server/billing`, `webhooks/stripe-billing`, admin plan route) | `Store.plan` and five columns beside it | checkout, sync, past due, sweep, comp | events without an order, a customer shared with commission invoices |
| Authentication (`app/api/auth`, `middleware`) | `User.passwordHash`, `tokenVersion`, one-time codes | login, refresh, verify, reset, change, temporary password | every handler reads the user before it writes or mints |
| Team (`lib/server/team`, `app/api/team`, `app/api/stores`) | `TeamInvite`, `OrganizationMember` | invite, accept, claim, revoke, remove, open a store | one person, one organization, tested in some of the writers only |
| Reports, statements, notifications, CRUD, uploads, UI | | | read-only, single-row or external I/O |

How they interact: every route talks to the others through rows of the database. The paid
and refund effects run inside the caller's transaction and touch the order, the stock
ledger, the commission ledger, the delivery and the outbox at once. Stripe and the
couriers talk to the system through webhooks; crons poll for what webhooks missed.

What makes each correct: an order is paid and refunded once, with money that moved; the
stock and commission ledgers agree with its status; a delivery never goes backwards; a
withdrawal never pays more than was earned and is paid once; one courier rides for a
delivery and the customer hears of its end once; an outbox event and a job are never lost;
the breaker lets one probe through; the plan, the stock and a dispute follow what happened
and not the order in which it was heard; a session dies with the password it was opened
under, and a person belongs to one organization; a retry of a checkout is answered with the
order the first attempt made.

## 2. Modules

| Module | What it is |
|---|---|
| `FulfillmentRules` | `fulfillment/stateMachine.ts`: who may move a delivery where, and what a delivery state does to `Order.status` (constant-level) |
| `OrderLifecycle` | the life of orders, from checkout to delivery, refund and reconciliation; EXTENDS `FulfillmentRules` |
| `DeliveryLeg` | abstract: a courier's delivery as its order sees it; EXTENDS `FulfillmentRules` |
| `CourierDispatch` | one courier delivery, call by call; implements `DeliveryLeg` |
| `Payouts` | one store's money: what it earned, the commission ledger, withdrawals, transfers, the commission sweep and its invoices |
| `OrderAccount` | abstract: one order as the store's account sees it; implemented by `OrderLifecycle` and by `Payouts` |
| `AtLeastOnce` | abstract: what the durable side-effect pipelines promise of a message |
| `Outbox` | the outbox, its drain under the leader lease, the immediate sends; implements `AtLeastOnce` |
| `EmailQueue` | the Redis job queue and the `EmailJob` rows; implements `AtLeastOnce` |
| `PlanBilling`, `Inventory`, `CircuitBreaker`, `Disputes`, `Accounts`, `Membership`, `Checkout` | one component each |
| `MCOrderLifecycle`, `MCOrders`, `MCDispatch`, `MCPayouts` | instances for TLC |
| `MCMail` | instances of `Outbox` and `EmailQueue`; a behaviour is one of the two, picked by `pipeline` |
| `MCOperations` | instances of the seven components of the row above; a behaviour is one of them, picked by `part` |
| `OrderLifecycleProofs`, `CourierProofs`, `PayoutsProofs`, `OutboxProofs`, `MailProofs` (the email queue, and the mail instance), `PaymentProofs` (breaker, disputes and plan), `IdentityProofs` (accounts and membership), `ShopProofs` (inventory and checkout, and the composition `MCOperations`) | the theorems |

Orders and payouts meet in the paid and refunded effects. `OrderLifecycle` has every way an
order can become paid or refunded and one step, `ResolveCommission`, for whoever collects a
commission; `Payouts` has every collector and reduces an order to pending, paid, refunded.
`OrderAccount` is what joins them: both modules implement it, so that what each leaves out of
the other is no more than the account of an order allows.
Orders and couriers meet in the delivery: `OrderLifecycle` has a courier that reports
progress and ends, and all sellers, webhooks and crons around the order; `CourierDispatch`
has all the calls behind that courier and reduces the order to whether it is READY.
`DeliveryLeg` is what the one promises the other. The outbox carries the events of all
others; `Inventory` has the one kind whose dispatch writes back (the alert's stamp). The
components in `MCOperations` share no row, which is why they are checked side by side and
not together.

Three conventions hold everywhere. A Serializable transaction or a conditional update is
one action; a read outside it is an action of its own, whose result is kept in a local
variable of the request. A call to an external service, and a Redis command, is a step of
its own. Variables marked "history" record which irregular thing happened; no guard reads
them, and a property that holds except after it names it.

### OrderLifecycle and the code

*Granularity.* A Serializable transaction, and one `UPDATE ... WHERE status = ...`, is one
atomic action. A handler that reads a row and then opens a transaction (PATCH,
confirm-payment, refund, the delivery routes) is a `Read...` action that occupies a slot
and a `Commit...` action that uses what was read. A call to Stripe is a step of its own.
A server that dies in between is `RequestDies` or `CheckoutCrashes`. So the model has
exactly the interleavings the transactions leave open.

*State.* `status`, `chargeRef`, `intent`, `delivery`, `charge`, `credit`, `processed`,
`flagged` are columns or rows. `sales` and `restocks` count the stock rows of an order: the
quantity itself, financial events, customer totals, discount counters and outbox rows are
written in the same transaction in lock-step with them and are left out. `session` and
`sent` are Stripe's own state (external). `checkout`, `req`, `picked`, `suspects` are the
local variables of running handlers. `aged` holds the orders whose deadline is further back
than reconciliation looks (`expiresAt >= now - 7 days`): the calendar is left out but for this.
`unseen` is history: orders whose payment no run of reconciliation will see. `mishaps` is
history as well: it records that an order went
through a stale write (`overwrite`), an unsettled refund, a delivery event after its close
(`revived`) or a refund event before its payment event (`reordered`). No guard reads it.

*Actions.* One per handler step: `CreateManual`, `CreateCard`, `ChargeSucceeds`,
`PersistRef`, `CheckoutFails` (POST /api/orders); `DeliverPaid`, `DeliverRefunded` (the
webhook, with `PaidEffects` = `applyOrderPaidEffects` and `RefundEffects` =
`applyOrderRefundedEffects`); `ReadPatch`/`CommitPatch`, `ReadConfirm`/`CommitConfirm`,
`ReadRefund`/`StripeRefunds`/`CommitRefund`, `ReadDispatch`/`CommitDispatch`,
`ReadDelivered`/`CommitDelivered`, `CancelDelivery` (the seller); `TickSelects`,
`TickDispatches` (fulfillment-tick); `CourierReports`; `Expire`, `CancelAbandoned`,
`ReconcileSelects`, `WindowCloses`, `ReconcileChecks`, `ResolveCommission`.

*Reconciliation* takes the 200 oldest orders of its window, so a run may leave any order out:
`ReconcileSelects` is not fair. The window closes on every order (`WindowCloses`), with or
without a last selection; after that it is never selected again. A selected order is compared
with Stripe, which may not answer (`ReconcileChecks`).

*Simplifications.* Time: an order may expire at any moment. A courier that answers
createDelivery with CONFIRMED is REQUESTED followed by a report. What `CourierDispatch` adds
behind the courier is not repeated here. The tick's polling folds a state the same way as a
webhook. A merchant's courier dispatch that fails is `RequestDies`; one that times out after booking leaves the same
state as one that succeeds, because no MERCHANT transition leads to REQUESTED. The
commission's collectors (withdrawal settlement, monthly sweep, waiver) are one guarded
step, `ResolveCommission`.

### Payouts and the code

*Granularity.* Every writer of a withdrawal takes the user's advisory lock in a
Serializable transaction, which makes it one atomic action: `Withdraw` (balance test,
settlement plan, row and stamps), `Cancel`, `Complete`, `ClaimTransfer` (tx1), `CommitSent`
and `CommitFailed` (tx2). Between tx1 and tx2 send-transfer talks to Stripe:
`TransferMade`, `TransferFails` (which may hide a transfer that was made), `SenderDies`.
The sweep is Read Committed and holds its rows across a Stripe call: `SweepSelects`,
`SweepInvoices`, `SweepMarks`, `SweepStops`. `Waive`, `SellerPaid`, `RefundOrder`,
`DeliverInvoicePaid`, `DeliverReversed` are one transaction each.

*State.* `rows` is the ledger by creation time, `charge` and `collector` the status and
the stamp of each row, `net` and `withheld` the two parts of `Withdrawal.amount`.
`transfer`, `billed` and `invoice` are Stripe's (external). `sender` and `sweep` are local
variables of running requests. `mishaps` is history, as above: a skipped credit, a balance
released or a withdrawal reopened while its transfer was under way, an invoice whose rows
were not all stamped, an `invoice.paid` that came before the stamp.

*The settlement plan* is a loop in the code. `IsSettlement` says what the loop returns: a
row is taken exactly when it is OWED and the gross of the rows taken before it absorbs it.
There is one such set, so `\E settled` is not a choice.

*Simplifications.* PIN, minimum, daily limit and cooldown only refuse requests. An invoice
that was created but not finalized counts as billed: it is made with `auto_advance`, and
Stripe finalizes it later. One sweep runs at a time (its lease works as `Outbox` shows). A
FAILED withdrawal that an operator resets by hand is outside the program.

### CourierDispatch and the code

*State.* `row` is the `Delivery` (`external`: `externalDeliveryId` is set, `dispatched`:
`dispatchedAt` is, `booking`: `providerDeliveryId`), `courier` what Uber or DoorDash has
booked, `tx` the transaction that holds the delivery's advisory lock across
`createDelivery`, `waiting` the requests that chose the delivery and wait for the lock,
`poll` the snapshot that fulfillment-tick took before it asks for the lock, `patching` the
status that a PATCH of the seller is about to write, `strays` the
calls that nobody awaits any more. `orphans` is history: bookings whose call ended without
recording them.

*Actions.* `createFulfillment` is `TickSelects`/`SellerRequests` (its two callers), then
`Reconciles`, `NothingToDispatch` or `CallsCourier`, the answer (`CourierBooks`,
`FindsDuplicate`, `CourierRefuses`), and `RecordsBooking`, `RetriesLater` or `GivesUp`.
`RecordTransition` is `recordTransition` with its e-mails, used by all. `AnswerLost` is an
error or timeout after the courier took the job or before it does (`withTimeout` does not
cancel the call). `TransactionExpires` is a dead server, or a call that outlives the
transaction: the default of Prisma is 5 seconds, the timeout of the call is 10.
`WebhookReports`, `PollReads`/`PollFolds`, `SellerCancels`, `CancelAborts` are the others.
`ReadsPatch`, then `CommitsPatch` or `PatchDies`, is the seller's PATCH of the order, which
e-mails the customer when it writes DELIVERED; `OrderCloses` is a refund.

*Simplifications.* A transaction that waited for the lock on an old snapshot fails to
serialize; it is a request that never came. `Order.status` before READY is PREPARING (PAID
too, from which the seller may also only go on to PREPARING or READY), a status the delivery
does not act on is MOVED. One PATCH is in flight at a time; `OrderLifecycle` has several. A provider that is not configured, and a
quote, change nothing.

### Outbox, EmailQueue and the code

`Outbox`: `EnqueueOutbox` commits the row with its business transaction. `drainOutbox` runs
in `run[r]`: `AcquireLease`, `ResetStuck`, `SelectDue`, then per row `ClaimRow`, `Dispatch`,
`MarkSent` or `HandleFailure`, then `FinishBatch` and `ReleaseLease`; `KillRun` may strike
between any two. `sendVerificationCodeNow` is `CodeClaims`, `CodeHandedOver`, `CodeOver`,
`CodeReleased`, `CodeDies`. `scheduled` is `scheduledAt` against the clock (`Tick`); the
lease key expires only when its holder is dead, because `maxDuration` of the route is below
the lease's TTL. The order and size of a batch are left open.

`EmailQueue`: an entry of the Redis lists is the JSON value the code pushes (attempts and
the stamp of its claim), so LREM finds it only when the value is the same. `main` and
`inFlight` are lists, of which only the multiplicities matter here, `delayed` a sorted set.
Every command of `push`, `claim`, `recoverStaleClaims`, `drainDue`, `processNext` and every
statement of `drainOne` is an action. `aged` says that an entry's delay or visibility
timeout has passed: an entry without a stamp is always aged (`claimedAt ?? 0`).

`AtLeastOnce`: a message is accepted, delivered, reported or given up. The e-mail job's
outcome may be withdrawn (`Reopenable`): a second worker that holds a stolen claim updates
the row without a test.

### The components of MCOperations and the code

*PlanBilling.* `Store.plan`, `planSource`, the comp's and the subscription's ends, the
customer id. Stripe (external) sends a snapshot of a subscription per change; `Deliver`
applies any undelivered one, which is what late and reordered webhooks can do.
`SyncSubscription`, `MarkPastDue`, `SweepComps`, `SweepLapsed` are the functions of those
names, `ReadForCheckout`/`OpenCheckout` the checkout, `AdminReads`/`AdminWrites` the
back-office. Time is a billing period.

*Inventory.* One item. `ApplyStockChange` is the shared ledger write, used by `PayOrder`,
`RefundOrder`, `AdjustInventory` and the forms. The product form reads, skips an unchanged
quantity; with other fields in the form its transaction updates, and so locks, the row
first (`WriteLocked`), with the quantity alone it reads and writes without a lock
(`ReadInTransaction`, `WriteUnlocked`). `SweepLowStock` enqueues, `DispatchAlert` stamps.

*Checkout.* POST /api/orders from the look-up of the key to the answer, request by request:
`LookUpKey` (with `Outcome`, what the replay answers), `PriceCart`, `EvaluateDiscount`,
`CreateOrder` or `KeyTaken`, `Charge`, `StoreUrl` or `StoreThrows`, `MarkFailed`,
`AnswerCreated`; `PostDies` is a dead server or a lost answer. A key names its order, because
the column is unique. Of the order's life there is what the replay and the code see:
`SettlePurchase` counts the redemption, PREPARING stands for all that follows PAID.
`OrderLifecycle` has the rest. A body is told apart by its code only (`SameBody`); a code has a
limit; the two manual methods are one; a provider that is not configured, the pause switch and
the validation only refuse. The seller's code is one row (`EditLimit`, `TogglePromo`,
`RenamePromo`, `DeletePromo`, `CreatePromo`). `lax` and `doubtful` are history.

*CircuitBreaker.* Four keys, one action per command of `run`, `recordFailure`, `open` and
what the `safe...` helpers make of an error. `KillCall` between any two, TTLs as `...Expires`.

*Disputes.* `DeliverDispute` is the three handlers: find the order, `Upserted` (status only
when its rank does not fall), `TrailEntry` (the key of the financial event).

*Accounts.* Every handler is a `Read...` that keeps what it saw (`Reads`) and a commit
(`Mint`, `MintRead`, `CommitVerify`, `CommitReset`, `CommitChange`); `TempPassword` is one
transaction. `Accepted` is the test in `requireAuth`.

*Membership.* Likewise: `StartInvite`/`CommitInvite`, `StartClaim`/`CommitClaim`,
`StartRevoke`/`CommitRevoke`, `StartStore`/`CommitStore`; `SignUp` and `RemoveMember` are one
transaction each. Accepting an invite is Serializable, but PostgreSQL protects such a
transaction only from others that are: between its snapshot (`StartAccept`) and its commit
(`CommitJoin`, `CommitRejoin`) the Read Committed transaction of POST stores may commit unseen.
Of several redemptions with the same empty snapshot the first to commit aborts the others; a
redemption whose invite was written meanwhile aborts too (`AcceptAborts`).

## 3. Runs

| Run | Instance | Shows |
|---|---|---|
| `orders` | one order at a time: a card pickup order or a manual order with two seller requests in flight, or a card courier order with one; one event id, every refund answer | `TypeOK`, `LedgerMatchesStatus`, `StatusMovesAreLegal` |
| `order_webhooks` | one card pickup order, one slot, two event ids, `FairSpec` | `CardMoneyAddsUp`, `CollectedIsAccounted`, `RefundReachesOrder`, `PendingCloses` |
| `courier` | two possible bookings, the tick, one seller request at a time, two attempts, one loss, `DispatchFairSpec` | `OneCourier`, `CustomerToldOnce`, `DeliveryEnds`, `CourierIsOrdersLeg` |
| `payouts` | a sale of 3 cents, a commission of 2, a bank and a Cash App withdrawal of 1 or 3, two invoices | `TypeOK`, `ReservedWithinEarned`, `TransferIsReserved`, `SettlementAddsUp`, `CollectedOnce`, `KeepsAccounts` (implements `OrderAccount`), `PaidInvoiceIsSettled`, `ResolvedStaysResolved` |
| `mail` | one event (a verification code) with two drain invocations, two attempts, two kills; one job with the drain cron, a request handler, two tries and a crash | `MailTypeOK`, `RepeatNeedsInterruption`, `UnfinishedIsTracked`, `OutboxIsAtLeastOnce`, `ResetSparesTheLiving`, `EventsEnd`, `EmailIsAtLeastOnce`, `FinishedIsNotResent`, `MailEnds` |
| `operations` | see the bounds below | `OpsTypeOK`, `PlanFollowsStripe`, `ProEnds`, `LedgerMatchesStock`, `LowIsAnnounced`, `OneProbe`, `CoolsToHalfOpen`, `DisputeFollowsStripe`, `SessionFollowsPassword`, `OneMembership`, `HandedOutIsLive`, `LimitNeedsOverlap` |
| `order_cancel_race` | a stale PENDING -> CANCELLED request | violates `PaidIsNeverCancelled` |
| `order_refund_unsettled` | Stripe answers pending or failed | violates `RefundedMeansReturned` |
| `courier_twice` | as `courier`, nothing lost | violates `NeverASecondCourier` |
| `payout_credit_skipped` | as `payouts`, one invoice | violates `DebitWithinBalance` |
| `payout_cancel_commission` | as `payouts`, one invoice | violates `SettledIsWithheld` |
| `checkout_sells_twice` | as `operations` | violates `ReplayNeverSellsTwice` |

*Bounds of the order runs.* No handler of `OrderLifecycle` reads another order, so orders
share only the slots and one at a time is enough (`MCOrders!OneOrder`; the proofs are for
any set of orders). Two slots give every race of two requests; two event ids per fact give
resends. `CourierTrip` keeps the reports that the order can tell apart: CONFIRMED only
raises the rank, CANCELLED acts as FAILED. Nothing else is bounded: `sales` and `restocks`
stay finite because slots are.

*Bounds of the courier runs.* A delivery's lock is its own, so one delivery is enough. A
second booking is what the properties are about; a third adds nothing they tell apart. Two
attempts give a retry and a last attempt, one loss a lost answer, an expired transaction or
an aborted cancellation at every point; one PATCH of the seller, read at any point, commits or
dies at any later one. `Ride` drops the reports that only raise the rank.

*Bounds of the payout runs.* A store's money is its own, so one store is enough. Two
withdrawals are needed for an overdraft, two invoices for a double billing; one of the
withdrawals goes by bank, because two transfers meet only in the balance. With these
amounts a commission fits beside a payout of 1 and nothing fits beside 3, and the credit of
2 overshoots a payout of 1: both sides of each comparison occur. The amounts are
otherwise unbounded.

*Bounds of the mail runs.* Events are dispatched one by one and jobs never look at one
another. Two invocations race for the lease and for the row; two kills let one die, be
recovered and its successor die too; the single event may be a verification code, so that
the immediate send is the third party. In the queue the second worker is the one that
takes what the first left, and two tries give a retry and the dead letter.

*Bounds of `operations`.* The plan comes as one subscription with a back-office request over
two billing periods and three changes, and as two subscriptions over one; stock as one order
with threshold edits and as two orders, quantities up to 2 and thresholds 0 and 1, so that
every comparison has both sides; the breaker with two concurrent calls, a threshold of two
and one death; a dispute with five events, the longest life of one; an account with two
overlapping requests, one code, two passwords and two changes; a person with two invites of
two organizations, two stores and two requests; checkout as two requests under one key, card or
manual, with a code the seller leaves alone, and as two manual orders with a code of limit 1
or 2 that the seller edits: a third request repeats what the second meets, and two orders are
what a limit of one needs to be exceeded. With orders paid by hand the code is counted
without the charge, which the first of the two instances has.

`CHECK_DEADLOCK FALSE` throughout: a closed order, an ended delivery, a paid-out store and a
finished message really stop.

*Fairness.* Always weak unless said otherwise, and never of buyers, sellers, operators or
webhooks a courier may not send.
`FairSpec`: each delivery of an event (Stripe retries until 200), expiry (a cron), the passing
of the look-back window and the question to Stripe about an order that was selected; not that an
order is selected. `DispatchFairSpec`: the tick's selection, its call, its poll;
strong for taking the lock, which is granted in turn and so not withheld for ever; couriers
answer and their rides end. `MailSpec`: an invocation that is not killed runs on, the cron
fires again, time passes, an expired lease goes away. `OpsSpec`: deliveries of Stripe's
events, the daily sweeps, the passing of a period, the low-stock sweep and the dispatch of
an alert. `Payouts` has no liveness property: nothing makes an operator send a transfer.

## 4. Proofs

For every value of the constants, from the assumption each module names.

*OrderLifecycle* (any orders, slots, event ids and courier states):

* `TypeCorrect`: `TypeOK` is strengthened to `TypeInv`: only card orders have a session,
  only manual ones a commission, and each kind of request has the shape its commit uses.
* `CardMoneyAddsUpAlways`: by `MoneyInv`. Its parts are not inductive: they need that an
  event says what happened to the session (`EventsTellTruth`), that there is no session
  before the charge, that a PENDING card order has no sale (`PendingIsUnsold`: what makes
  onPaid's test sufficient, because no writer leads back to PENDING), and that a refund
  being committed was answered.
* `LedgerMatchesStatusAlways`, `StatusMovesAlwaysLegal`: by `LedgerInv`, which adds what a
  slot's earlier read implies about the order since (`PaidTraces`).
* `CommissionReleasedOnceAlways`: by `CommissionInv` (`PaidOwesCommission`: a manual order
  that is paid has a SALE charge).
* `AccountsAreKept`: the order implements `OrderAccount`, unless a stale write or a late
  delivery event touched it. `AccountInv` says that the charge is written with the sale and the
  credit with the restock; with `LedgerInv` an order that looks unpaid owes nothing, and one
  that looks paid was not credited, which is what the guards of the effects test in its stead.
  No run repeats this property, which TLC confirms on the instance of `orders` too.
* `DeliveryOnlyAdvancesAlways`: no exception here. Whoever calls `recordTransition`, the rank of
  the state rises and an end is the last.

*CourierDispatch* (any bookings, requests, attempts, losses, reports):

* `DispatchInvariant`: what the row says of a courier is so (`RowIsBacked`); a call under
  way means none is recorded, an error is about no booking or about an orphan
  (`CallIsBacked`); beside the orphans there is at most the recorded booking or the one
  being made (`NoneBeside`).
* `OneCourierAlways`: `NoneBeside` and `DoorDashOnce` are what makes it inductive.
* `CustomerToldOnceAlways`: by `ToldInv`: before the end nobody was told, unless a failing
  request of the seller or the seller's PATCH to DELIVERED did. It needs that a call
  of the tick is about a PENDING row, so that a failure is written and told in one, and that no
  transition leaves an end (`EndsStand`).
* `CourierIsOrdersLegAlways`: the step simulation. `LegReported` shows that whatever a
  dispatch, a poll or a webhook writes down is a move the courier itself might report
  (`CourierMayRecord`), `SellerCannotFail` that a seller's failed request changes nothing.
* `DeliveryOnlyAdvancesAlways` follows from the leg: with it, a delivery is on its way or done
  only if a courier was booked (`RiderWasBooked`).

*Payouts* (any orders, prices, withdrawals and invoices; orders and withdrawals are finitely
many, as the rows of a table are: `FiniteAssumption`):

* The balance compares sums over sets. `Total` is the community fold, a recursive function
  whose laws need induction; the library's induction theorems take an operator, so the laws
  (`TotalPick` to `TotalGrows`: taking out and adding an element, monotony) are proved by
  induction over a set, the values for which the law holds (`NatInduct`, `SubsetInduct`).
* `TypeCorrect`: credits never overshoot what is withheld, along the list the plan walks.
* `SettlementAlwaysAddsUp`: by `SettlementInv`: no row names a withdrawal that was not
  requested or does not hold it, so a new withdrawal starts from nothing.
* `NoOverdraft` (`ReservedWithinEarned`): what the store was ever paid never falls
  (`EverPaidGrows`), no step but a request raises what is reserved (`OtherStepsKeepReserved`), and
  a request was tested against a balance that is at most what the store was paid
  (`EarnedWithinEverPaid`).
* `AccountsAreKept`, `CreditMirrorsRefundAlways`, `ResolvedAlwaysStaysResolved`: by `LedgerInv`.
  A refund looks at the SALE row to decide what it writes, so the invariant ties each row to
  the state of its order, and a row that names a collector to a collected status. `RowMoves`
  lists all that may happen to a row; the lemmas show that every action does one of these.
  `CreditMirrorsRefund` (a credit for exactly the refunds of collected commissions) is repeated
  by no run.
* `TransferIsReservedAlways`: by `TransferInv`, which follows the request from the claim on
  and says that a row nobody claimed has nothing at Stripe.
* `CollectedOnceAlways`: by `BilledInv`. The step that needs it is the sweep's selection: a
  billed row names its invoice, so it is collected, so it is not OWED and not selected.
* `PaidInvoiceIsSettledAlways`: inductive beside `LedgerInv`.

*Outbox* (any events, codes, invocations, attempts and kills): `OutboxInvariant` says that an
invocation at work holds the lease (`RunsHoldLease`), that a claimed row is PROCESSING and
belongs to one worker or one request, and that an undisturbed open row had no effect.
From it `RepeatNeedsInterruptionAlways`, `ResetSparesTheLivingAlways` (an action property: the
reset needs the lease, and who works holds it) and `OutboxRefines`, the step simulation of
`AtLeastOnce`. `SentIsDispatchedAlways` draws from the abstract specification alone what it
means for the rows: SENT is of an effect that happened, and an outcome stands.

*EmailQueue* (any jobs, workers, tries and crashes): `EmailInv` is the type and, for every job
whose claim was not stolen, five facts: there is one pointer in the lists, the delayed set and
the workers' hands together (`Once`); a worker on the job has its claim in flight (`Claims`);
what the recovery takes for stale belongs to nobody alive (`StaleIsGone`); the row says what the
worker is about to do (`Staged`); and an unfinished job has its pointer (`Tracked`). From it
`UnfinishedIsTrackedAlways`, `FinishedIsNotResentAlways` and `EmailRefines`, and from that one
`SentIsMailedAlways`, which needs no exception for a stolen claim. `MailTypeCorrect`
carries the types over to the instance in which one of the two pipelines runs.

*Checkout* (any keys, requests and limits):

* `HandedOutIsLiveAlways`: by `HandedInv`. One request makes the order of a key (`OneMaker`);
  while it charges, no page is stored, and when it is about to fail the order either none is
  or storing it threw (`Rights`); whoever was told "placed" was told of an order with a page
  (`PagesAreOut`). The race that matters is a retry between the charge and the catch block.
* `LimitNeedsOverlapAlways`: by `LimitInv`. What is redeemed and what is promised to the orders
  that await payment fit the limit (`PromisesFit`): a payment turns a promise into a
  redemption, a new order takes room that is left or is on record.

*PlanBilling* (any subscriptions, periods and changes): `PlanFollowsStripeAlways` by `PlanInv`:
every change at Stripe was announced and no event is newer than the subscription
(`EventsMatch`), so the last one delivered says how it is; only one subscription is live
(`OneLive`); once it was heard of, the plan is Pro (`ActiveIsPro`), and a plan by subscription
has one (`ProIsLive`). The last three hold where nothing upset the plan.

*Inventory, CircuitBreaker, Disputes, Accounts, Membership*: one inductive invariant each.
Stock and its alert's stamp are inductive with their types. `RearmedWhenRecovered` and
`CountIsTimed` (an item that recovered is armed again; a failure count expires unless a
process died over it) are parts of these invariants and proved for every instance; no run
repeats them. The breaker needs who holds the
lock of the probe (`ProbersHoldLock`), and `CoolsToHalfOpenAlways` that an open breaker is armed
except while, or because, something came between its two commands (`OpenIsArmed`). A dispute
needs that Stripe's stages only rise in rank
and that the row is the highest that was delivered (`StripeSays`, `RowSays`). An account needs
that what a request read, and what a token carries, was true at its version
(`RequestsGrounded`, `SessionsGrounded`). Membership needs that whoever is about to
join by an invite is in no organization that invites, but for a store of their own at most
(`JoinsAlone`): the first redemption to commit leaves no other behind (`JoinKeeps`).

*MCOperations*: `OpsAreComponents` shows that a behaviour of the composition is one of each
component (or its stutter), so the theorems above hold in it; `OpsTypeCorrect` is their types.

Only model-checked: liveness (`CollectedIsAccounted`, `RefundReachesOrder`, `PendingCloses`,
`DeliveryEnds`, `EventsEnd`, `MailEnds`, `ProEnds`, `LowIsAnnounced`), because the prover has
neither ENABLED nor a rule for fairness; and the counterexamples, which are facts about an
instance. Every invariant and every action property of a passing run is proved.

## 5. What the runs found

Listed findings, each with a run that shows it:

* A stale status PATCH overwrites a payment that committed after it read the order.
* The refund route ignores the status of the refund it asked for.
* "Request delivery" books a courier and forgets it: `recordTransition` refuses PENDING ->
  REQUESTED to a MERCHANT and drops `dispatchedAt` and the courier's id with it, so the next
  tick or click books a second courier at Uber Direct.
* A refund credit that a payout cannot absorb stays available: the payout is not backed by
  the balance, and since the balance is clamped at 0 this can be repeated.
* Cancelling a withdrawal gives back the commission withheld from it and leaves it settled.
* A replayed Idempotency-Key is answered "did not complete; submit a new key" once the order
  has moved past PAID, so a client that lost the first answer orders and pays again.

The passing properties except exactly such histories (`Regular`, `mishaps`, `upsets`, `drift`,
`rough`, `stolen`, ...), and so show that they are the only ways the parts can disagree. Others
they name, which the code permits and no run reports:

* *Orders.* A courier's report after the refund takes the order out of REFUNDED (`revived`),
  and its amount counts as earned again. A `charge.refunded` processed before the payment's
  event matches no order and is lost (`reordered`). confirm-payment tests PENDING outside its
  transaction, and two confirmations sell twice (`overwrite`). Money that settles after the
  look-back window of reconciliation, or of an order that every batch of 200 left out, or that
  Stripe did not answer about in its last run, is never flagged if its webhook does not apply
  (`unseen`).
* *Couriers.* A seller's request that fails on the last attempt records nothing and tells the
  customer of the delay each time (`nagged`). A dispatch that finds DoorDash's booking already
  failed tells nobody (`silent`). A courier order that the seller sets to DELIVERED tells the
  customer, and the courier's own DELIVERED tells them again: `dispatcher.ts:267-284` does not
  deduplicate (`byhand`). After a failed attempt at Uber the seller cannot cancel,
  because the row's own id means nothing there. A call of more than five seconds loses its
  transaction, and the courier it booked.
* *Payouts.* A cancellation while the transfer is under way pays a seller whose balance was
  released; so does a transfer whose answer was lost; an invoice left behind by the sweep
  bills rows again; an `invoice.paid` that overtakes the stamp leaves its rows INVOICED for
  ever; a `transfer.reversed` that overtakes tx2 is dropped.
* *Mail.* A request that dies between claiming its code and handing it over leaves it SENT
  and unsent; a worker that dies between LREM and LPUSH loses the job. A job between the LMOVE
  of its claim and the LPUSH of its stamped form counts as stale: a second worker takes it and
  both send the mail (`stolen`).
* *Checkout.* The replay of a Cash App or Zelle order says "retry shortly" until the order is
  paid or expires, because it waits for a payment page that such an order has not. The payment
  method is not in the fingerprint: a retry with another method is answered with the first
  order. If the update that stores the page commits and throws, the order is FAILED although
  a retry may have been sent to the page (`doubtful`). Orders that await payment together
  exceed a code's limit, which `schema.prisma:981-983` accepts.
* *Plan.* A late `active` snapshot gives Pro back; a failed commission invoice marks the
  subscription past due; a back-office write on a stale read turns a subscription into a comp.
* *Stock.* The product form writes an absolute quantity in a Read Committed transaction: a
  sale in between is overwritten, although `products/[id]/route.ts:132-134` says that the row
  and the ledger cannot drift. A late stamp silences the next alert.
* *Breaker.* A death between INCR and PEXPIRE leaves a failure count for good; a probe that
  outlives its lock frees its successor's.
* *Disputes.* A late event still overwrites amount and due date: only the status has a rank.
* *Accounts and team.* A change of password that read the user before a reset committed
  overwrites it; an invite revoked after its acceptance says REVOKED; two store requests, or
  one and an accepted invite, whichever commits first, give a person two organizations
  (`overtaken`): `invites.ts:55-56` counts on Serializable, which POST stores is not.

One thing was seen and not modelled: `markPaid.ts:262-269` catches a unique violation inside
its transaction, while `financial-events.ts:47-50` says that a failed statement aborts a
PostgreSQL transaction as a whole.

## 6. Plan

All components whose core is stateful are modelled. What would add most next:

1. What an order revived after its refund adds to the balance: the one mishap in which the
   order and the store's account part, since `OrderAccount` has no such step.
2. The polling batch: fifty rows by `updatedAt`, of which one that cannot be polled is never
   touched and stays at the head.
3. Login lockout and the rate limiter without Redis.

## 7. Not modelled

* Pricing, quotes, what a discount takes off: functions of one request. Reports, statements and analytics:
  read-only. Notifications and e-mails: formatting; their delivery is the outbox.
* HTTP translation in the courier adapters and the Stripe client, cryptography, OAuth.
* Uploads, domains, geocoding: external I/O. Catalogue CRUD: single rows.
* Within modelled components: archiving and deletion of products, the base quantity of a
  product with variants, CSV import (Inventory); lockout, suspension, the withdrawal PIN
  (Accounts); invite roles (Membership); trials (PlanBilling); the in-memory breaker; the
  fallbacks without Redis; the stale-delivery alerts (Fulfillment).
* The user interface, about half of the repository's lines, and the routes that only list or
  edit one row. The mapped lines are a small share of the whole for this reason: the state
  that several actors write is in the files the map names.
