--------------------------- MODULE CourierDispatch ---------------------------
(***************************************************************************)
(* One delivery by Uber Direct or DoorDash, from PENDING to its end, at    *)
(* the granularity of the calls to the courier: createFulfillment run by   *)
(* fulfillment-tick and by the seller, polls, webhooks, cancellation.      *)
(*                                                                         *)
(* Every writer of a Delivery opens a transaction and takes the same       *)
(* advisory lock; `tx` is the one that holds it across createDelivery.  A  *)
(* transaction that waited for the lock either sees the row as it is then  *)
(* or fails to serialize before it calls anybody.                          *)
(***************************************************************************)
EXTENDS FulfillmentRules, FiniteSets

CONSTANTS
    Bookings,       \* deliveries a courier may be made to book for this order
    Clicks,         \* seller requests that can be in flight
    Tick,           \* the dispatch job of fulfillment-tick
    Reports,        \* states a courier's delivery goes through
    MaxAttempts,    \* DISPATCH_MAX_ATTEMPTS
    MaxLost,        \* bound: answers and transactions that get lost
    NoBooking

Callers == Clicks \cup {Tick}

ASSUME DispatchAssumption ==
    /\ Tick \notin Clicks
    /\ NoBooking \notin Bookings
    /\ Reports \subseteq {"CONFIRMED", "PICKED_UP", "OUT_FOR_DELIVERY"} \cup TerminalStates
    /\ MaxAttempts \in Nat \ {0} /\ MaxLost \in Nat

VARIABLES
    courierType,    \* Delivery.providerType; fixed
    orderStatus,    \* Order.status, "PREPARING" for any before READY, "MOVED" for others
    patching,       \* what the seller's status PATCH in flight will write, or "none"
    row,            \* the Delivery row
    courier,        \* each booking's state, at the courier; "none" if not made
    waiting,        \* callers that read the row and did not enter their transaction
    tx,             \* the transaction that is calling the courier
    strays,         \* calls still under way whose transaction is gone
    poll,           \* the snapshot the polling job holds
    lost,           \* answers and transactions lost so far
    heard,          \* e-mails to the customer that the delivery ended, 2: or more
    orphans,        \* history: bookings whose call ended without recording them
    mishaps         \* history: irregular ends

legVars == <<orderStatus, row, courier, waiting, tx, strays, poll, lost, heard, orphans, mishaps>>
dispatchVars == <<courierType, patching, legVars>>

Couriers == {"UBER_DIRECT", "DOORDASH"}
Placed == {b \in Bookings : courier[b] # "none"}
Active == {"REQUESTED", "CONFIRMED", "PICKED_UP", "OUT_FOR_DELIVERY"}
BookingStates == {"none", "REQUESTED", "CANCELLED"} \cup Reports
DeliveryRow == [state: NormalizedStates, external: BOOLEAN, dispatched: BOOLEAN,
                booking: Bookings \cup {NoBooking}, attempts: Nat]
OrderStatuses == {"PREPARING", "READY", "OUT_FOR_DELIVERY", "DELIVERED", "MOVED"}
NoTx == [by |-> "nobody"]
Transaction == [by: Callers, answer: {"none", "error"} \cup (Active \cup TerminalStates),
                booking: Bookings \cup {NoBooking}]

(* nagged : the seller's failing request told the customer once more        *)
(* silent : a dispatch found the booking already over and told nobody       *)
(* byhand : the seller's PATCH set the order to DELIVERED and told it       *)
DispatchMishaps == {"nagged", "silent", "byhand"}

\* The seller's transition table; "PREPARING" stands for PAID as well.
SellerMoves == [s \in OrderStatuses |->
    CASE s = "PREPARING"        -> {"PREPARING", "READY"}
      [] s = "READY"            -> {"OUT_FOR_DELIVERY", "DELIVERED"}
      [] s = "OUT_FOR_DELIVERY" -> {"DELIVERED"}
      [] OTHER                  -> {}]

DispatchTypeOK ==
    /\ courierType \in Couriers
    /\ orderStatus \in OrderStatuses
    /\ patching \in (OrderStatuses \ {"MOVED"}) \cup {"none"}
    /\ row \in DeliveryRow
    /\ courier \in [Bookings -> BookingStates]
    /\ waiting \subseteq Callers
    /\ tx \in Transaction \cup {NoTx}
    /\ strays \in Nat /\ lost \in 0..MaxLost
    /\ poll \in BookingStates
    /\ heard \in 0..2
    /\ orphans \subseteq Placed
    /\ mishaps \subseteq DispatchMishaps

DispatchInit ==
    /\ courierType \in Couriers
    /\ orderStatus = "PREPARING" /\ patching = "none"
    /\ row = [state |-> "PENDING", external |-> FALSE, dispatched |-> FALSE,
              booking |-> NoBooking, attempts |-> 0]
    /\ courier = [b \in Bookings |-> "none"]
    /\ waiting = {} /\ tx = NoTx /\ strays = 0
    /\ poll = "none" /\ lost = 0 /\ heard = 0
    /\ orphans = {} /\ mishaps = {}

-----------------------------------------------------------------------------
(* What the transactions are made of.                                       *)

AtMost2(n) == IF n > 2 THEN 2 ELSE n

\* Mutant of TellsCustomer: whoever ended the delivery.
TellsAnyway(to, actor) == to \in TerminalStates

\* enqueueDeliveryTerminalEffects: who hears of which end.
TellsCustomer(to, actor) ==
    \/ to = "DELIVERED"
    \/ to \in {"FAILED", "CANCELLED"} /\ actor \in {"PROVIDER", "CRON"}

\* Mutant of RecordTransition: the report is written down without canTransition.
RecordAnyway(old, to, actor, patch, mails) ==
    /\ row' = [patch EXCEPT !.state = to]
    /\ orderStatus' = OrderStatusAfter(to, orderStatus)
    /\ heard' = AtMost2(heard + mails + IF TellsCustomer(to, actor) THEN 1 ELSE 0)

\* recordTransition on the row `old`: `patch` is applied only with the transition.
\* `mails` are the e-mails its caller sends besides.
RecordTransition(old, to, actor, patch, mails) ==
    IF CanTransition(old.state, to, actor)
    THEN /\ row' = [patch EXCEPT !.state = to]
         /\ orderStatus' = OrderStatusAfter(to, orderStatus)
         /\ heard' = AtMost2(heard + mails + IF TellsCustomer(to, actor) THEN 1 ELSE 0)
    ELSE /\ row' = old
         /\ heard' = AtMost2(heard + mails)
         /\ UNCHANGED orderStatus

Stamped == [row EXCEPT !.external = TRUE]
ActorOf(c) == IF c = Tick THEN "SYSTEM" ELSE "MERCHANT"

\* The delivery the courier finds under the id the code gives: Uber knows only its
\* own id, DoorDash knows the external id the code chose.
Known == IF courierType = "UBER_DIRECT"
         THEN {row.booking} \ {NoBooking}
         ELSE IF row.external THEN Placed ELSE {}

-----------------------------------------------------------------------------
(* createFulfillment                                                        *)

\* fulfillment-tick selects its batch.
TickSelects ==
    /\ row.state = "PENDING" /\ orderStatus = "READY"
    /\ Tick \notin waiting /\ tx.by # Tick
    /\ waiting' = waiting \cup {Tick}
    /\ UNCHANGED <<orderStatus, row, courier, tx, strays, poll, lost, heard, orphans, mishaps>>

\* POST /api/orders/[id]/delivery: "Request delivery" and "Retry".
SellerRequests(c) ==
    /\ orderStatus = "READY" /\ row.state \in {"PENDING", "FAILED"}
    /\ c \notin waiting /\ tx.by # c
    /\ waiting' = waiting \cup {c}
    /\ UNCHANGED <<orderStatus, row, courier, tx, strays, poll, lost, heard, orphans, mishaps>>

Enters(c) == c \in waiting /\ tx = NoTx /\ waiting' = waiting \ {c}

\* A courier was booked and recorded: its own view is folded in, none is booked.
\* getDelivery may also fail or answer UNKNOWN.
Reconciles(c) ==
    /\ Enters(c)
    /\ row.dispatched /\ row.external
    /\ \/ RecordTransition(row, courier[row.booking], "CRON", row, 0)
       \/ UNCHANGED <<row, orderStatus, heard>>
    /\ UNCHANGED <<courier, tx, strays, poll, lost, orphans, mishaps>>

\* The tick's selection is outdated; the seller's `force` skips this test.
NothingToDispatch(c) ==
    /\ Enters(c)
    /\ ~(row.dispatched /\ row.external)
    /\ row.state # "PENDING" /\ c = Tick
    /\ UNCHANGED <<orderStatus, row, courier, tx, strays, poll, lost, heard, orphans, mishaps>>

\* Mutant of MustBook: only the row's state decides.
MustBookIfForced(c) == row.state = "PENDING" \/ c # Tick

MustBook(c) ==
    /\ ~(row.dispatched /\ row.external)
    /\ row.state = "PENDING" \/ c # Tick

CallsCourier(c) ==
    /\ Enters(c)
    /\ MustBook(c)
    /\ tx' = [by |-> c, answer |-> "none", booking |-> NoBooking]
    /\ UNCHANGED <<orderStatus, row, courier, strays, poll, lost, heard, orphans, mishaps>>

\* The courier takes the job.  Uber tells nothing from a repeated request ...
CourierBooks(b) ==
    /\ tx # NoTx /\ tx.answer = "none"
    /\ b \notin Placed
    /\ courierType = "DOORDASH" => Placed = {}
    /\ courier' = [courier EXCEPT ![b] = "REQUESTED"]
    /\ tx' = [tx EXCEPT !.answer = "REQUESTED", !.booking = b]
    /\ UNCHANGED <<orderStatus, row, waiting, strays, poll, lost, heard, orphans, mishaps>>

\* ... DoorDash answers duplicate_delivery_id, and the adapter asks for the state.
FindsDuplicate(b) ==
    /\ tx # NoTx /\ tx.answer = "none"
    /\ courierType = "DOORDASH" /\ b \in Placed
    /\ tx' = [tx EXCEPT !.answer = courier[b], !.booking = b]
    /\ UNCHANGED <<orderStatus, row, courier, waiting, strays, poll, lost, heard, orphans, mishaps>>

CourierRefuses ==
    /\ tx # NoTx /\ tx.answer = "none"
    /\ tx' = [tx EXCEPT !.answer = "error"]
    /\ UNCHANGED <<orderStatus, row, courier, waiting, strays, poll, lost, heard, orphans, mishaps>>

\* The answer is an error or does not arrive in time.  The job was taken all the same,
\* or the request, which withTimeout does not cancel, is still on its way.
AnswerLost ==
    /\ tx # NoTx /\ tx.answer # "error"
    /\ lost < MaxLost /\ lost' = lost + 1
    /\ tx' = [tx EXCEPT !.answer = "error"]
    /\ strays' = strays + IF tx.answer = "none" THEN 1 ELSE 0
    /\ orphans' = orphans \cup ({tx.booking} \ {NoBooking})
    /\ UNCHANGED <<orderStatus, row, courier, waiting, poll, heard, mishaps>>

\* The server dies, or the call outlives the transaction (Prisma's default is 5
\* seconds, PROVIDER_TIMEOUT_MS is 10): the row keeps nothing of the attempt.
TransactionExpires ==
    /\ tx # NoTx
    /\ lost < MaxLost /\ lost' = lost + 1
    /\ tx' = NoTx
    /\ strays' = strays + IF tx.answer = "none" THEN 1 ELSE 0
    /\ orphans' = orphans \cup ({tx.booking} \ {NoBooking})
    /\ UNCHANGED <<orderStatus, row, courier, waiting, poll, heard, mishaps>>

\* A call without a transaction reaches the courier, or does not.
StrayBooks(b) ==
    /\ strays > 0 /\ strays' = strays - 1
    /\ b \notin Placed
    /\ courierType = "DOORDASH" => Placed = {}
    /\ courier' = [courier EXCEPT ![b] = "REQUESTED"]
    /\ orphans' = orphans \cup {b}
    /\ UNCHANGED <<orderStatus, row, waiting, tx, poll, lost, heard, mishaps>>

StrayEnds ==
    /\ strays > 0 /\ strays' = strays - 1
    /\ UNCHANGED <<orderStatus, row, courier, waiting, tx, poll, lost, heard, orphans, mishaps>>

\* The courier accepted.  A transition refused to the seller drops dispatchedAt and
\* the courier's id with it.
RecordsBooking ==
    /\ tx # NoTx /\ tx.answer \in Active \cup TerminalStates
    /\ RecordTransition(Stamped, tx.answer, ActorOf(tx.by),
                        [Stamped EXCEPT !.dispatched = TRUE, !.booking = tx.booking,
                                        !.attempts = @ + 1], 0)
    /\ orphans' = IF row'.dispatched THEN orphans \ {tx.booking} ELSE orphans \cup {tx.booking}
    /\ mishaps' = mishaps \cup
         IF row'.dispatched /\ tx.answer \in {"FAILED", "CANCELLED"} THEN {"silent"} ELSE {}
    /\ tx' = NoTx
    /\ UNCHANGED <<courier, waiting, strays, poll, lost>>

LastAttempt == row.attempts + 1 >= MaxAttempts

\* Mutant of RetriesLater: the failed attempt is not counted.
RetriesUncounted ==
    /\ tx # NoTx /\ tx.answer = "error" /\ ~LastAttempt
    /\ row' = Stamped
    /\ tx' = NoTx
    /\ UNCHANGED <<orderStatus, courier, waiting, strays, poll, lost, heard, orphans, mishaps>>

\* The attempt failed and stays PENDING for the next tick ...
RetriesLater ==
    /\ tx # NoTx /\ tx.answer = "error" /\ ~LastAttempt
    /\ row' = [Stamped EXCEPT !.attempts = @ + 1]
    /\ tx' = NoTx
    /\ UNCHANGED <<orderStatus, courier, waiting, strays, poll, lost, heard, orphans, mishaps>>

\* ... or was the last one.
GivesUp ==
    /\ tx # NoTx /\ tx.answer = "error" /\ LastAttempt
    /\ RecordTransition(Stamped, "FAILED", ActorOf(tx.by),
                        [Stamped EXCEPT !.attempts = @ + 1], 1)
    /\ mishaps' = mishaps \cup IF tx.by # Tick THEN {"nagged"} ELSE {}
    /\ tx' = NoTx
    /\ UNCHANGED <<courier, waiting, strays, poll, lost, orphans>>

-----------------------------------------------------------------------------
(* The courier, its webhooks and polls; the seller.                         *)

CourierMoves(b, to) ==
    /\ courier[b] \in Active
    /\ Rank[to] > Rank[courier[b]]
    /\ courier' = [courier EXCEPT ![b] = to]
    /\ UNCHANGED <<orderStatus, row, waiting, tx, strays, poll, lost, heard, orphans, mishaps>>

\* applyCourierWebhookEvent: only ends are delivered; an unmatched one is dropped.
WebhookReports(b) ==
    /\ tx = NoTx
    /\ courier[b] \in TerminalStates /\ b \in Known
    /\ RecordTransition(row, courier[b], "PROVIDER", row, 0)
    /\ UNCHANGED <<courier, waiting, tx, strays, poll, lost, orphans, mishaps>>

\* fulfillment-tick asks the courier ...
PollReads ==
    /\ row.state \in Active /\ row.dispatched
    /\ poll = "none" /\ poll' = courier[row.booking]
    /\ UNCHANGED <<orderStatus, row, courier, waiting, tx, strays, lost, heard, orphans, mishaps>>

\* ... and folds the answer in when it gets the lock.
PollFolds ==
    /\ tx = NoTx /\ poll # "none" /\ poll' = "none"
    /\ RecordTransition(row, poll, "CRON", row, 0)
    /\ UNCHANGED <<courier, waiting, tx, strays, lost, orphans, mishaps>>

\* The courier of a known booking agrees to cancel it.
CourierCancels ==
    \E b \in Known : /\ courier[b] \in {"REQUESTED", "CONFIRMED"}
                     /\ courier' = [courier EXCEPT ![b] = "CANCELLED"]

MayCancel == tx = NoTx /\ row.state \notin {"CANCELLED", "DELIVERED"}

\* cancelFulfillment: once the row has an external id, the courier is asked first.
SellerCancels ==
    /\ MayCancel
    /\ IF row.external THEN CourierCancels ELSE UNCHANGED courier
    /\ RecordTransition(row, "CANCELLED", "MERCHANT", row, 0)
    /\ UNCHANGED <<waiting, tx, strays, poll, lost, orphans, mishaps>>

\* The courier agreed and the transaction did not commit.
CancelAborts ==
    /\ MayCancel /\ CourierCancels
    /\ lost < MaxLost /\ lost' = lost + 1
    /\ UNCHANGED <<orderStatus, row, waiting, tx, strays, poll, heard, orphans, mishaps>>

\* PATCH /api/orders/[id] tests the seller's target on the status it reads ...
ReadsPatch(to) ==
    /\ patching = "none" /\ to \in SellerMoves[orderStatus]
    /\ patching' = to
    /\ UNCHANGED <<orderStatus, row, courier, waiting, tx, strays, poll, lost, heard, orphans, mishaps>>

\* ... and writes it by the order's id, whatever the status is by then.  The customer of
\* an order set to DELIVERED gets the e-mail a courier's DELIVERED would send.
CommitsPatch ==
    /\ patching # "none" /\ patching' = "none"
    /\ orderStatus' = patching
    /\ IF patching = "DELIVERED"
       THEN heard' = AtMost2(heard + 1) /\ mishaps' = mishaps \cup {"byhand"}
       ELSE UNCHANGED <<heard, mishaps>>
    /\ UNCHANGED <<row, courier, waiting, tx, strays, poll, lost, orphans>>

PatchDies ==
    /\ patching # "none" /\ patching' = "none"
    /\ UNCHANGED <<orderStatus, row, courier, waiting, tx, strays, poll, lost, heard, orphans, mishaps>>

\* A refund; before the order was paid, its expiry or cancellation.
OrderCloses ==
    /\ orderStatus # "MOVED" /\ orderStatus' = "MOVED"
    /\ UNCHANGED <<row, courier, waiting, tx, strays, poll, lost, heard, orphans, mishaps>>

-----------------------------------------------------------------------------
Creates ==
    \/ TickSelects
    \/ \E c \in Clicks : SellerRequests(c)
    \/ \E c \in Callers : Reconciles(c) \/ NothingToDispatch(c) \/ CallsCourier(c)
    \/ \E b \in Bookings : CourierBooks(b) \/ FindsDuplicate(b) \/ StrayBooks(b)
    \/ CourierRefuses \/ AnswerLost \/ TransactionExpires \/ StrayEnds
    \/ RecordsBooking \/ RetriesLater \/ GivesUp

Follows ==
    \/ \E b \in Bookings : WebhookReports(b) \/ \E to \in Reports : CourierMoves(b, to)
    \/ PollReads \/ PollFolds \/ SellerCancels \/ CancelAborts

Patches == (\E to \in OrderStatuses : ReadsPatch(to)) \/ CommitsPatch \/ PatchDies

DispatchNext ==
    /\ \/ (Creates \/ Follows \/ OrderCloses) /\ UNCHANGED patching
       \/ Patches
    /\ UNCHANGED courierType

DispatchSpec == DispatchInit /\ [][DispatchNext]_dispatchVars

\* The cron runs for ever and takes its turn for the lock, calls end, couriers ride.
\* Nothing is assumed of the seller or of webhooks.
DispatchFairness ==
    /\ WF_legVars(TickSelects) /\ WF_legVars(PollReads)
    /\ SF_legVars(Reconciles(Tick) \/ NothingToDispatch(Tick) \/ CallsCourier(Tick))
    /\ SF_legVars(PollFolds)
    /\ WF_legVars((\E b \in Bookings : CourierBooks(b) \/ FindsDuplicate(b)) \/ CourierRefuses)
    /\ WF_legVars(RecordsBooking \/ RetriesLater \/ GivesUp)
    /\ \A b \in Bookings : WF_legVars(\E to \in Reports : CourierMoves(b, to))

DispatchFairSpec == DispatchSpec /\ DispatchFairness

-----------------------------------------------------------------------------
\* A courier whose booking was recorded is the only one: requests, retries, ticks,
\* webhooks and cancellations in any order never book another beside it; only a
\* booking that its own call failed to record leaves room for a second one, and at
\* DoorDash nothing does.
OneCourier ==
    /\ Cardinality(Placed \ orphans) <= 1
    /\ courierType = "DOORDASH" => Cardinality(Placed) <= 1

\* The customer hears of the end of a delivery once, whoever saw it first: unless a
\* failing request of the seller told it again, or the seller's PATCH to DELIVERED told
\* it beside the courier's report, or a dispatch that found the booking over told nobody.
CustomerToldOnce ==
    /\ mishaps \cap {"nagged", "byhand"} = {} => heard <= 1
    /\ row.state = "DELIVERED" => heard > 0
    /\ row.state = "FAILED" => heard > 0 \/ "silent" \in mishaps

\* Liveness, under DispatchFairness: a delivery of a READY order does not stay PENDING or
\* on the road, however many requests, failures, lost answers and missed webhooks.
DeliveryEnds ==
    row.state = "PENDING" /\ orderStatus = "READY"
        ~> row.state \in TerminalStates \/ (row.state = "PENDING" /\ orderStatus # "READY")

Leg == INSTANCE DeliveryLeg WITH leg <- row.state, order <- orderStatus,
                                 hired <- Placed # {}

\* Refinement: seen from the order, the calls, locks, retries, lost answers and
\* reports make one courier's leg, which ends once and moves the order as it goes.
CourierIsOrdersLeg == Leg!LegSpec

\* docs/fulfillment/testing.md:107 "Retry never creates a second external delivery when
\* one is live (reconciles)".
NeverASecondCourier == Cardinality({b \in Bookings : courier[b] \in Active}) <= 1
=============================================================================
