--------------------------- MODULE OrderLifecycle ---------------------------
(***************************************************************************)
(* The life of a storefront order: guest checkout, the Stripe Checkout     *)
(* Session, the Stripe webhooks, the seller's requests (status PATCH,      *)
(* confirm-payment, refund, delivery), the crons and the couriers.         *)
(*                                                                         *)
(* A Serializable transaction, or one guarded UPDATE, is one atomic        *)
(* action.  A handler that reads a row before it opens its transaction, or *)
(* that calls Stripe in between, is several actions: the slot that runs it *)
(* remembers what it read.                                                 *)
(***************************************************************************)
EXTENDS FulfillmentRules, FiniteSets

CONSTANTS
    Card,           \* orders paid through Stripe Checkout
    Manual,         \* orders paid by Cash App / Zelle, confirmed by the seller
    Pickup,         \* orders the buyer collects: they never get a Delivery row
    Courier,        \* orders delivered by Uber Direct / DoorDash
    Slots,          \* seller requests that can be in flight at once
    EventIds,       \* distinct Stripe event ids one fact can be sent under
    RefundResults,  \* RefundResult.status values Stripe may answer with
    CourierStates   \* delivery states a courier reports

Orders == Card \cup Manual

ASSUME OrdersAssumption ==
    /\ Card \cap Manual = {}
    /\ Pickup \subseteq Orders
    /\ Courier \subseteq Orders \ Pickup

ASSUME StripeAssumption ==
    /\ EventIds # {}
    /\ RefundResults \subseteq {"COMPLETED", "PENDING", "FAILED"}

ASSUME CourierAssumption ==
    CourierStates \subseteq NormalizedStates \ {"PENDING"}

VARIABLES
    status,     \* Order.status, "none" before the row exists
    checkout,   \* how far POST /api/orders has come
    session,    \* the Checkout Session and its money, at Stripe
    chargeRef,  \* orders whose providerChargeId and paymentUrl are stored
    intent,     \* orders whose stripePaymentIntentId is stored
    sent,       \* webhook events Stripe has emitted
    processed,  \* WebhookLog rows with processedAt set
    req,        \* the seller request each slot is running
    delivery,   \* Delivery.state, "none" without a row
    picked,     \* deliveries the current fulfillment-tick selected
    booked,     \* orders for which a courier holds a real delivery
    sales,      \* SALE rows the order has in the stock ledger
    restocks,   \* REFUND_RESTOCK rows the order has in the stock ledger
    charge,     \* the SALE CommissionCharge of a manual order
    credit,     \* orders with a REFUND_CREDIT CommissionCharge
    suspects,   \* orders payment-reconciliation is comparing with Stripe
    flagged,    \* orders with a RECONCILIATION_DISCREPANCY event
    aged,       \* orders whose deadline is further back than reconciliation looks
    unseen,     \* history: orders whose payment no run of reconciliation will see
    mishaps     \* history: the irregular steps the order went through

stripeVars   == <<session, sent>>
checkoutVars == <<checkout, chargeRef>>
webhookVars  == <<intent, processed>>
deliveryVars == <<delivery, picked, booked>>
ledgerVars   == <<sales, restocks, charge, credit>>
auditVars    == <<suspects, flagged, aged, unseen>>
vars == <<status, stripeVars, checkoutVars, webhookVars, req, deliveryVars,
          ledgerVars, auditVars, mishaps>>

\* PAID_ORDER_STATUSES, EARNED_ORDER_STATUSES and REFUNDABLE_STATUSES are one set.
PaidStatuses == {"PAID", "PREPARING", "READY", "OUT_FOR_DELIVERY", "DELIVERED"}
ClosedStatuses == {"REFUNDED", "CANCELLED", "EXPIRED", "FAILED"}
Statuses == {"none", "PENDING"} \cup PaidStatuses \cup ClosedStatuses

\* The seller's transition table.
Transitions == [s \in Statuses |->
    CASE s = "PENDING"          -> {"CANCELLED"}
      [] s = "PAID"             -> {"PREPARING"}
      [] s = "PREPARING"        -> {"READY"}
      [] s = "READY"            -> {"OUT_FOR_DELIVERY", "DELIVERED"}
      [] s = "OUT_FOR_DELIVERY" -> {"DELIVERED"}
      [] OTHER                  -> {}]

\* `final`: payment_status is "paid" for the full amount, or the charge is
\* fully refunded.
Event == [kind: {"paid", "refunded"}, order: Card, id: EventIds, final: BOOLEAN]

Idle == [kind |-> "idle"]
Request == [kind: {"patch", "confirm", "refund_call", "refund_commit",
                   "dispatch", "delivered"},
            order: Orders, seen: Statuses, to: Statuses]

(* overwrite : a write assumed a status the row no longer had               *)
(* unsettled : Stripe's answer to a refund was not COMPLETED                *)
(* revived   : a delivery event moved an order that was REFUNDED/DELIVERED  *)
(* reordered : charge.refunded was processed before the payment was         *)
Mishaps == {"overwrite", "unsettled", "revived", "reordered"}

SessionStates == {"none", "open", "unpaid", "paid", "refunding", "refunded"}
Collected == {"paid", "refunding", "refunded"}

TypeOK ==
    /\ status \in [Orders -> Statuses]
    /\ checkout \in [Orders -> {"idle", "charging", "charged", "done"}]
    /\ session \in [Orders -> SessionStates]
    /\ chargeRef \subseteq Card
    /\ intent \subseteq Card
    /\ sent \subseteq Event
    /\ processed \subseteq sent
    /\ req \in [Slots -> Request \cup {Idle}]
    /\ delivery \in [Orders -> NormalizedStates \cup {"none"}]
    /\ picked \subseteq Courier
    /\ booked \subseteq Courier
    /\ sales \in [Orders -> Nat]
    /\ restocks \in [Orders -> Nat]
    /\ charge \in [Orders -> {"none", "OWED", "COLLECTED", "WAIVED"}]
    /\ credit \subseteq Manual
    /\ suspects \subseteq Card
    /\ flagged \subseteq Card
    /\ aged \subseteq Card
    /\ unseen \subseteq Card
    /\ mishaps \in [Orders -> SUBSET Mishaps]

Init ==
    /\ status = [o \in Orders |-> "none"]
    /\ checkout = [o \in Orders |-> "idle"]
    /\ session = [o \in Orders |-> "none"]
    /\ chargeRef = {} /\ intent = {}
    /\ sent = {} /\ processed = {}
    /\ req = [s \in Slots |-> Idle]
    /\ delivery = [o \in Orders |-> "none"]
    /\ picked = {} /\ booked = {}
    /\ sales = [o \in Orders |-> 0]
    /\ restocks = [o \in Orders |-> 0]
    /\ charge = [o \in Orders |-> "none"]
    /\ credit = {} /\ suspects = {} /\ flagged = {} /\ aged = {} /\ unseen = {}
    /\ mishaps = [o \in Orders |-> {}]

-----------------------------------------------------------------------------
(* Effects shared by several handlers.                                      *)

\* History only: record that o went through m when `cond` holds.
NoteWhen(cond, o, m) ==
    mishaps' = IF cond THEN [mishaps EXCEPT ![o] = @ \cup {m}] ELSE mishaps

\* applyOrderPaidEffects: it trusts its caller to have checked PENDING.
PaidEffects(o) ==
    /\ status' = [status EXCEPT ![o] = "PAID"]
    /\ sales' = [sales EXCEPT ![o] = @ + 1]
    /\ charge' = IF o \in Manual /\ charge[o] = "none"
                 THEN [charge EXCEPT ![o] = "OWED"] ELSE charge
    /\ delivery' = IF o \notin Pickup /\ delivery[o] = "none"
                   THEN [delivery EXCEPT ![o] = "PENDING"] ELSE delivery

\* Mutant of AlreadyClosed: the bail-out forgets REFUNDED itself.
ClosedButNotRefunded(o) == status[o] \in {"CANCELLED", "EXPIRED"}

\* Mutant of AlreadyClosed: a delivered order is taken for a finished one.
ClosedOrDelivered(o) == status[o] \in {"REFUNDED", "CANCELLED", "EXPIRED", "DELIVERED"}

\* The statuses applyOrderRefundedEffects bails out on.
AlreadyClosed(o) == status[o] \in {"REFUNDED", "CANCELLED", "EXPIRED"}

\* The SALE charge is waived while still OWED; once collected it is credited.
UnwindCommission(o) ==
    /\ charge' = IF charge[o] = "OWED" THEN [charge EXCEPT ![o] = "WAIVED"] ELSE charge
    /\ credit' = IF charge[o] = "COLLECTED" THEN credit \cup {o} ELSE credit

\* applyOrderRefundedEffects: re-reads the status inside its transaction.
RefundEffects(o) ==
    IF AlreadyClosed(o)
    THEN UNCHANGED <<status, restocks, charge, credit>>
    ELSE /\ status' = [status EXCEPT ![o] = "REFUNDED"]
         /\ restocks' = [restocks EXCEPT ![o] = @ + 1]
         /\ UnwindCommission(o)

\* recordTransition: an illegal move changes nothing but the event history.
RecordTransition(o, to, actor) ==
    IF delivery[o] # "none" /\ CanTransition(delivery[o], to, actor)
    THEN /\ delivery' = [delivery EXCEPT ![o] = to]
         /\ status' = [status EXCEPT ![o] = OrderStatusAfter(to, @)]
         /\ NoteWhen(/\ status[o] \in {"REFUNDED", "DELIVERED"}
                     /\ OrderStatusAfter(to, status[o]) # status[o], o, "revived")
    ELSE UNCHANGED <<delivery, status, mishaps>>

-----------------------------------------------------------------------------
(* POST /api/orders                                                         *)

CreateManual(o) ==
    /\ o \in Manual /\ checkout[o] = "idle"
    /\ status' = [status EXCEPT ![o] = "PENDING"]
    /\ checkout' = [checkout EXCEPT ![o] = "done"]
    /\ UNCHANGED <<chargeRef, stripeVars, webhookVars, req, deliveryVars,
                   ledgerVars, auditVars, mishaps>>

CreateCard(o) ==
    /\ o \in Card /\ checkout[o] = "idle"
    /\ status' = [status EXCEPT ![o] = "PENDING"]
    /\ checkout' = [checkout EXCEPT ![o] = "charging"]
    /\ UNCHANGED <<chargeRef, stripeVars, webhookVars, req, deliveryVars,
                   ledgerVars, auditVars, mishaps>>

\* Stripe creates the Checkout Session; its id is not stored yet.
ChargeSucceeds(o) ==
    /\ checkout[o] = "charging"
    /\ checkout' = [checkout EXCEPT ![o] = "charged"]
    /\ session' = [session EXCEPT ![o] = "open"]
    /\ UNCHANGED <<status, chargeRef, sent, webhookVars, req, deliveryVars,
                   ledgerVars, auditVars, mishaps>>

\* The providerChargeId/paymentUrl update: from here the buyer has a URL.
PersistRef(o) ==
    /\ checkout[o] = "charged"
    /\ checkout' = [checkout EXCEPT ![o] = "done"]
    /\ chargeRef' = chargeRef \cup {o}
    /\ UNCHANGED <<status, stripeVars, webhookVars, req, deliveryVars,
                   ledgerVars, auditVars, mishaps>>

\* The breaker is open, the charge throws, or storing the reference throws:
\* the row becomes FAILED whatever its status is by then.
CheckoutFails(o) ==
    /\ checkout[o] \in {"charging", "charged"}
    /\ checkout' = [checkout EXCEPT ![o] = "done"]
    /\ status' = [status EXCEPT ![o] = "FAILED"]
    /\ NoteWhen(status[o] # "PENDING", o, "overwrite")
    /\ UNCHANGED <<chargeRef, stripeVars, webhookVars, req, deliveryVars,
                   ledgerVars, auditVars>>

\* The server dies in the middle of the request.
CheckoutCrashes(o) ==
    /\ checkout[o] \in {"charging", "charged"}
    /\ checkout' = [checkout EXCEPT ![o] = "done"]
    /\ UNCHANGED <<status, chargeRef, stripeVars, webhookVars, req, deliveryVars,
                   ledgerVars, auditVars, mishaps>>

-----------------------------------------------------------------------------
(* Stripe and the buyer (external).  An event, once emitted, can be         *)
(* delivered late, in any order and more than once.                         *)

Emit(kind, o, final) ==
    \E id \in EventIds : sent' = sent \cup {[kind |-> kind, order |-> o, id |-> id, final |-> final]}

\* History only: the money came in when no run was left to ask about it.
NoteIfTooLate(o) ==
    unseen' = IF o \in aged \ suspects THEN unseen \cup {o} ELSE unseen

BuyerPays(o) ==
    /\ session[o] = "open" /\ o \in chargeRef
    /\ session' = [session EXCEPT ![o] = "paid"]
    /\ Emit("paid", o, TRUE)
    /\ NoteIfTooLate(o)
    /\ UNCHANGED <<status, checkoutVars, webhookVars, req, deliveryVars,
                   ledgerVars, suspects, flagged, aged, mishaps>>

\* A delayed payment method: the session completes, the money is not there yet.
BuyerCompletesUnpaid(o) ==
    /\ session[o] = "open" /\ o \in chargeRef
    /\ session' = [session EXCEPT ![o] = "unpaid"]
    /\ Emit("paid", o, FALSE)
    /\ UNCHANGED <<status, checkoutVars, webhookVars, req, deliveryVars,
                   ledgerVars, auditVars, mishaps>>

\* The delayed payment arrives; its event type is none the webhook handles.
DelayedPaymentSettles(o) ==
    /\ session[o] = "unpaid"
    /\ session' = [session EXCEPT ![o] = "paid"]
    /\ NoteIfTooLate(o)
    /\ UNCHANGED <<status, sent, checkoutVars, webhookVars, req, deliveryVars,
                   ledgerVars, suspects, flagged, aged, mishaps>>

\* Stripe sends the same fact again under another event id.
StripeResends(e) ==
    /\ e \in sent
    /\ Emit(e.kind, e.order, e.final)
    /\ UNCHANGED <<status, session, checkoutVars, webhookVars, req, deliveryVars,
                   ledgerVars, auditVars, mishaps>>

\* A refund issued on the Stripe dashboard, or a pending one that completes.
MoneyReturned(o) ==
    /\ session[o] \in {"paid", "refunding"}
    /\ session' = [session EXCEPT ![o] = "refunded"]
    /\ Emit("refunded", o, TRUE)
    /\ UNCHANGED <<status, checkoutVars, webhookVars, req, deliveryVars,
                   ledgerVars, auditVars, mishaps>>

\* charge.refunded also fires, with refunded=false, for a partial refund.
PartialRefund(o) ==
    /\ session[o] = "paid"
    /\ Emit("refunded", o, FALSE)
    /\ UNCHANGED <<status, session, checkoutVars, webhookVars, req, deliveryVars,
                   ledgerVars, auditVars, mishaps>>

\* A pending refund fails at the bank: the platform keeps the money.
RefundFailsLater(o) ==
    /\ session[o] = "refunding"
    /\ session' = [session EXCEPT ![o] = "paid"]
    /\ UNCHANGED <<status, sent, checkoutVars, webhookVars, req, deliveryVars,
                   ledgerVars, auditVars, mishaps>>

-----------------------------------------------------------------------------
(* POST /api/webhooks/stripe: one Serializable transaction per delivery.  A *)
(* delivery that aborts changes nothing and Stripe sends it again.          *)

\* WebhookLog row with processedAt: the delivery is acknowledged and ignored.
Deduped(e) == e \in processed

\* Mutant of AcceptsPayment: the order's status is not looked at.
AcceptsAnyStatus(e) == e.order \in chargeRef /\ e.final

\* onPaid's tests on the order row and on the session.
AcceptsPayment(e) ==
    /\ e.order \in chargeRef
    /\ status[e.order] = "PENDING"
    /\ e.final

DeliverPaid(e) ==
    /\ e \in sent /\ e.kind = "paid" /\ ~Deduped(e)
    /\ processed' = processed \cup {e}
    /\ IF AcceptsPayment(e)
       THEN /\ PaidEffects(e.order)
            /\ intent' = intent \cup {e.order}
       ELSE UNCHANGED <<status, sales, charge, delivery, intent>>
    /\ UNCHANGED <<stripeVars, checkoutVars, req, picked, booked, restocks,
                   credit, auditVars, mishaps>>

\* onRefunded's test: a full refund of a payment some order recorded.
AcceptsRefund(e) == e.final /\ e.order \in intent

DeliverRefunded(e) ==
    /\ e \in sent /\ e.kind = "refunded" /\ ~Deduped(e)
    /\ processed' = processed \cup {e}
    /\ IF AcceptsRefund(e)
       THEN RefundEffects(e.order)
       ELSE UNCHANGED <<status, restocks, charge, credit>>
    /\ NoteWhen(e.final /\ e.order \notin intent, e.order, "reordered")
    /\ UNCHANGED <<stripeVars, checkoutVars, intent, req, deliveryVars, sales,
                   auditVars>>

-----------------------------------------------------------------------------
(* The seller's requests.  Each reads the order before it opens its         *)
(* transaction; `seen` is what it read.                                     *)

Start(s, kind, o, to) ==
    /\ req[s] = Idle
    /\ req' = [req EXCEPT ![s] = [kind |-> kind, order |-> o,
                                  seen |-> status[o], to |-> to]]
    /\ UNCHANGED <<status, stripeVars, checkoutVars, webhookVars, deliveryVars,
                   ledgerVars, auditVars, mishaps>>

Finish(s) == req' = [req EXCEPT ![s] = Idle]

\* The server dies, the transaction aborts, or the request answers an error.
RequestDies(s) ==
    /\ req[s] # Idle
    /\ Finish(s)
    /\ UNCHANGED <<status, stripeVars, checkoutVars, webhookVars, deliveryVars,
                   ledgerVars, auditVars, mishaps>>

\* PATCH /api/orders/[id]
ReadPatch(s, o) == \E to \in Transitions[status[o]] : Start(s, "patch", o, to)

\* A read-committed UPDATE by id, without a test of the current status.
CommitPatch(s) ==
    /\ req[s].kind = "patch"
    /\ LET o == req[s].order IN
       /\ status' = [status EXCEPT ![o] = req[s].to]
       /\ NoteWhen(status[o] # req[s].seen, o, "overwrite")
    /\ Finish(s)
    /\ UNCHANGED <<stripeVars, checkoutVars, webhookVars, deliveryVars,
                   ledgerVars, auditVars>>

\* POST /api/orders/[id]/confirm-payment
ReadConfirm(s, o) ==
    /\ o \in Manual /\ status[o] = "PENDING"
    /\ Start(s, "confirm", o, "PAID")

\* Serializable, but the PENDING test stayed outside the transaction.
CommitConfirm(s) ==
    /\ req[s].kind = "confirm"
    /\ LET o == req[s].order IN
       /\ PaidEffects(o)
       /\ NoteWhen(status[o] # "PENDING", o, "overwrite")
    /\ Finish(s)
    /\ UNCHANGED <<stripeVars, checkoutVars, webhookVars, picked, booked, restocks,
                   credit, auditVars>>

\* POST /api/orders/[id]/refund: a card order's money goes back first.
ReadRefund(s, o) ==
    /\ status[o] \in PaidStatuses
    /\ \/ o \in Manual /\ Start(s, "refund_commit", o, "REFUNDED")
       \/ o \in chargeRef /\ Start(s, "refund_call", o, "REFUNDED")

\* Stripe refuses to refund a charge twice: the request then answers 502.
\* RefundResult.status is returned but the route does not look at it.
StripeRefunds(s, result) ==
    /\ req[s].kind = "refund_call"
    /\ LET o == req[s].order IN
       /\ session[o] = "paid"
       /\ session' = [session EXCEPT ![o] = CASE result = "COMPLETED" -> "refunded"
                                              [] result = "PENDING" -> "refunding"
                                              [] result = "FAILED" -> "paid"]
       /\ IF result = "COMPLETED" THEN Emit("refunded", o, TRUE) ELSE UNCHANGED sent
       /\ NoteWhen(result # "COMPLETED", o, "unsettled")
    /\ req' = [req EXCEPT ![s].kind = "refund_commit"]
    /\ UNCHANGED <<status, checkoutVars, webhookVars, deliveryVars, ledgerVars, auditVars>>

CommitRefund(s) ==
    /\ req[s].kind = "refund_commit"
    /\ RefundEffects(req[s].order)
    /\ Finish(s)
    /\ UNCHANGED <<stripeVars, checkoutVars, webhookVars, deliveryVars, sales,
                   auditVars, mishaps>>

-----------------------------------------------------------------------------
(* Delivery: the seller's delivery routes, fulfillment-tick, the couriers.  *)

\* POST /api/orders/[id]/delivery
ReadDispatch(s, o) ==
    /\ o \notin Pickup /\ status[o] = "READY"
    /\ delivery[o] \in {"PENDING", "FAILED"}
    /\ Start(s, "dispatch", o, "OUT_FOR_DELIVERY")

\* createFulfillment for the seller.  A self-delivery leaves; a courier is
\* booked, although no MERCHANT transition leads to REQUESTED.
CommitDispatch(s) ==
    /\ req[s].kind = "dispatch"
    /\ LET o == req[s].order IN
       IF o \in Courier
       THEN /\ booked' = booked \cup {o}
            /\ RecordTransition(o, "REQUESTED", "MERCHANT")
       ELSE /\ UNCHANGED booked
            /\ IF delivery[o] = "PENDING"
               THEN RecordTransition(o, "OUT_FOR_DELIVERY", "MERCHANT")
               ELSE UNCHANGED <<delivery, status, mishaps>>
    /\ Finish(s)
    /\ UNCHANGED <<stripeVars, checkoutVars, webhookVars, picked, ledgerVars, auditVars>>

\* PATCH /api/orders/[id]/delivery: "Mark delivered", self-delivery only.
ReadDelivered(s, o) ==
    /\ o \notin Courier /\ status[o] = "OUT_FOR_DELIVERY"
    /\ delivery[o] \notin {"none", "DELIVERED"}
    /\ Start(s, "delivered", o, "DELIVERED")

CommitDelivered(s) ==
    /\ req[s].kind = "delivered"
    /\ RecordTransition(req[s].order, "DELIVERED", "MERCHANT")
    /\ Finish(s)
    /\ UNCHANGED <<stripeVars, checkoutVars, webhookVars, picked, booked,
                   ledgerVars, auditVars>>

\* POST /api/orders/[id]/delivery/cancel; a booked courier may also refuse.
CancelDelivery(o) ==
    /\ delivery[o] \notin {"none", "CANCELLED", "DELIVERED"}
    /\ RecordTransition(o, "CANCELLED", "MERCHANT")
    /\ UNCHANGED <<stripeVars, checkoutVars, webhookVars, req, picked, booked,
                   ledgerVars, auditVars>>

\* fulfillment-tick job A selects its batch ...
TickSelects(o) ==
    /\ o \in Courier /\ delivery[o] = "PENDING" /\ status[o] = "READY"
    /\ picked' = picked \cup {o}
    /\ UNCHANGED <<status, stripeVars, checkoutVars, webhookVars, req, delivery,
                   booked, ledgerVars, auditVars, mishaps>>

\* ... and dispatches it later.  The courier accepts, the attempt fails, or the
\* attempts run out; a call that timed out may have booked the courier all the
\* same.  Whether a retry books a second one is CourierDispatch's question.
TickDispatches(o) ==
    /\ o \in picked
    /\ picked' = picked \ {o}
    /\ \/ delivery[o] # "PENDING" /\ UNCHANGED <<booked, delivery, status, mishaps>>
       \/ /\ delivery[o] = "PENDING"
          /\ booked' = booked \cup {o}
          /\ RecordTransition(o, "REQUESTED", "SYSTEM")
       \/ /\ delivery[o] = "PENDING"
          /\ booked' \in {booked, booked \cup {o}}
          /\ \/ RecordTransition(o, "FAILED", "SYSTEM")
             \/ UNCHANGED <<delivery, status, mishaps>>
    /\ UNCHANGED <<stripeVars, checkoutVars, webhookVars, req, ledgerVars, auditVars>>

\* A courier webhook; a poll of fulfillment-tick folds the same way.
CourierReports(o, to) ==
    /\ o \in booked
    /\ RecordTransition(o, to, "PROVIDER")
    /\ UNCHANGED <<stripeVars, checkoutVars, webhookVars, req, picked, booked,
                   ledgerVars, auditVars>>

-----------------------------------------------------------------------------
(* Crons and the buyer's failed page.                                       *)

\* Mutant of Expire: only orders that got as far as a payment URL expire.
ExpireWithUrl(o) ==
    /\ status[o] = "PENDING" /\ o \in chargeRef
    /\ status' = [status EXCEPT ![o] = "EXPIRED"]
    /\ UNCHANGED <<stripeVars, checkoutVars, webhookVars, req, deliveryVars,
                   ledgerVars, auditVars, mishaps>>

\* order-expiration, one row past its deadline: UPDATE ... WHERE status = 'PENDING'.
Expire(o) ==
    /\ status[o] = "PENDING"
    /\ status' = [status EXCEPT ![o] = "EXPIRED"]
    /\ UNCHANGED <<stripeVars, checkoutVars, webhookVars, req, deliveryVars,
                   ledgerVars, auditVars, mishaps>>

\* cancelAbandonedOrder: the buyer comes back to the failed page.
CancelAbandoned(o) ==
    /\ status[o] = "PENDING"
    /\ status' = [status EXCEPT ![o] = "CANCELLED"]
    /\ UNCHANGED <<stripeVars, checkoutVars, webhookVars, req, deliveryVars,
                   ledgerVars, auditVars, mishaps>>

\* Mutant of Eligible: only PENDING orders are compared with Stripe.
PendingOnly(o) == status[o] = "PENDING" /\ o \in chargeRef

\* What findEligibleOrders asks of the row, the window of its expiresAt aside.
Eligible(o) == status[o] \in {"PENDING", "EXPIRED"} /\ o \in chargeRef

\* payment-reconciliation, detection only.  A run selects the order while its
\* deadline is in the look-back window, if the batch, oldest first, has room ...
ReconcileSelects(o) ==
    /\ o \notin aged \cup flagged \cup suspects
    /\ Eligible(o)
    /\ suspects' = suspects \cup {o}
    /\ UNCHANGED <<status, stripeVars, checkoutVars, webhookVars, req, deliveryVars,
                   ledgerVars, flagged, aged, unseen, mishaps>>

\* ... and so does the last run before the deadline leaves the window, or its batch
\* too is full of older orders.
WindowCloses(o) ==
    /\ o \notin aged \cup flagged
    /\ Eligible(o)
    /\ aged' = aged \cup {o}
    /\ \/ suspects' = suspects \cup {o} /\ UNCHANGED unseen
       \/ unseen' = unseen \cup ({o} \ suspects) /\ UNCHANGED suspects
    /\ UNCHANGED <<status, stripeVars, checkoutVars, webhookVars, req, deliveryVars,
                   ledgerVars, flagged, mishaps>>

\* It asks Stripe later, where payment_status stays "paid" after a refund.  When
\* Stripe gives no answer, or the cron dies, it is for the next run to ask.
ReconcileChecks(o) ==
    /\ o \in suspects
    /\ suspects' = suspects \ {o}
    /\ \/ /\ flagged' = IF session[o] \in Collected THEN flagged \cup {o} ELSE flagged
          /\ UNCHANGED unseen
       \/ /\ unseen' = unseen \cup ({o} \cap aged)
          /\ UNCHANGED flagged
    /\ UNCHANGED <<status, stripeVars, checkoutVars, webhookVars, req, deliveryVars,
                   ledgerVars, aged, mishaps>>

\* The collection and waiver of an OWED commission (withdrawal settlement,
\* monthly sweep, admin waiver), each guarded by status = 'OWED'.
ResolveCommission(o) ==
    /\ charge[o] = "OWED"
    /\ \E to \in {"COLLECTED", "WAIVED"} : charge' = [charge EXCEPT ![o] = to]
    /\ UNCHANGED <<status, stripeVars, checkoutVars, webhookVars, req, deliveryVars,
                   sales, restocks, credit, auditVars, mishaps>>

-----------------------------------------------------------------------------

Checkout(o) ==
    \/ CreateManual(o) \/ CreateCard(o) \/ ChargeSucceeds(o)
    \/ PersistRef(o) \/ CheckoutFails(o) \/ CheckoutCrashes(o)

Stripe(o) ==
    \/ BuyerPays(o) \/ BuyerCompletesUnpaid(o) \/ DelayedPaymentSettles(o)
    \/ MoneyReturned(o) \/ PartialRefund(o) \/ RefundFailsLater(o)

Deliver(e) == DeliverPaid(e) \/ DeliverRefunded(e)

Seller(s) ==
    \/ RequestDies(s)
    \/ \E o \in Orders : \/ ReadPatch(s, o) \/ ReadConfirm(s, o) \/ ReadRefund(s, o)
                         \/ ReadDispatch(s, o) \/ ReadDelivered(s, o)
    \/ CommitPatch(s) \/ CommitConfirm(s) \/ CommitRefund(s)
    \/ CommitDispatch(s) \/ CommitDelivered(s)
    \/ \E result \in RefundResults : StripeRefunds(s, result)

Fulfil(o) ==
    \/ CancelDelivery(o) \/ TickSelects(o) \/ TickDispatches(o)
    \/ \E to \in CourierStates : CourierReports(o, to)

Housekeeping(o) ==
    \/ Expire(o) \/ CancelAbandoned(o) \/ ResolveCommission(o)
    \/ ReconcileSelects(o) \/ WindowCloses(o) \/ ReconcileChecks(o)

Next ==
    \/ \E o \in Orders : Checkout(o) \/ Stripe(o) \/ Fulfil(o) \/ Housekeeping(o)
    \/ \E e \in sent : StripeResends(e) \/ Deliver(e)
    \/ \E s \in Slots : Seller(s)

Spec == Init /\ [][Next]_vars

(* Stripe retries a delivery until it is acknowledged, and the crons run -  *)
(* reconciliation at least once while an order is in its window - but no    *)
(* order is sure of a place in a batch, nor a question of Stripe's answer.  *)
Fairness ==
    /\ \A e \in Event : WF_vars(Deliver(e))
    /\ \A o \in Orders : /\ WF_vars(Expire(o))
                      /\ WF_vars(WindowCloses(o)) /\ WF_vars(ReconcileChecks(o))

FairSpec == Spec /\ Fairness

-----------------------------------------------------------------------------
(* Properties.                                                              *)

\* No stale write and no late delivery event has touched the order.
Regular(o) == mishaps[o] \cap {"overwrite", "revived"} = {}

\* However often and in whatever order Stripe delivers, resends or reorders its
\* events, and whatever the seller, the buyer and the crons do meanwhile, the paid
\* effects (stock, customer totals, emails) of a card order run at most once, and
\* only when its money was collected ...
SaleIsBacked(o) == sales[o] <= IF session[o] \in Collected THEN 1 ELSE 0

\* ... and it is REFUNDED, its items back in stock, only when Stripe returned the
\* money, or answered the refund with something the route takes for success.
RefundIsBacked(o) ==
    status[o] = "REFUNDED" \/ restocks[o] > 0
        => session[o] = "refunded" \/ "unsettled" \in mishaps[o]

\* What was sold and refunded by card agrees with the money at Stripe.
CardMoneyAddsUp == \A o \in Card : SaleIsBacked(o) /\ RefundIsBacked(o)

\* The stock ledger agrees with the status: one SALE row exactly for an order
\* that was paid, one REFUND_RESTOCK row exactly for one that was refunded.  So
\* stale writes and late delivery events are the only ways the paid or the
\* refund effects can be applied twice or against the wrong status.
LedgerMatchesStatus ==
    \A o \in Orders : Regular(o) =>
        /\ sales[o] = IF status[o] \in PaidStatuses \cup {"REFUNDED"} THEN 1 ELSE 0
        /\ restocks[o] = IF status[o] = "REFUNDED" THEN 1 ELSE 0

\* The platform's commission on a refunded Cash App / Zelle order is released
\* exactly once: waived if it was still owed, credited if it had been
\* collected, whenever the collection ran relative to the refund.
CommissionReleasedOnce ==
    \A o \in Manual :
        /\ status[o] = "REFUNDED" => (charge[o] = "WAIVED") # (o \in credit)
        /\ o \in credit => charge[o] = "COLLECTED"

LegalMove(old, new) ==
    \/ old = "none" /\ new = "PENDING"
    \/ old = "PENDING" /\ new \in {"PAID", "FAILED", "CANCELLED", "EXPIRED"}
    \/ old \in PaidStatuses /\ new \in Transitions[old] \cup {"REFUNDED"}
    \/ old \in PaidStatuses \ {"DELIVERED"} /\ new \in {"OUT_FOR_DELIVERY", "DELIVERED"}
    \/ old = "OUT_FOR_DELIVERY" /\ new = "READY"

LegalStep ==
    \A o \in Orders : status'[o] = status[o] \/ LegalMove(status[o], status'[o]) \/ ~Regular(o)'

\* No handler takes an order along an edge outside its lifecycle: closed orders
\* stay closed, nothing is un-delivered, nothing is refunded before it was paid
\* or cancelled after, except through a stale write or a late delivery event.
StatusMovesAreLegal == [][LegalStep]_vars

\* What the store's account shows of an order.
Account(o) == INSTANCE OrderAccount WITH
    owes <- o \in Manual,
    money <- CASE status[o] \in PaidStatuses -> "paid"
               [] status[o] = "REFUNDED" -> "refunded"
               [] OTHER -> "pending",
    commission <- charge[o],
    credited <- o \in credit

AccountsStep ==
    \A o \in Orders : Regular(o)' => [Account(o)!Next]_(Account(o)!accountVars)

\* Refinement of OrderAccount, order by order: every way an order is paid, closed,
\* delivered or refunded is, for the account, a payment, a refund or nothing,
\* and its commission follows, unless a stale write or a late delivery event
\* has touched the order.
KeepsAccounts == (\A o \in Orders : Account(o)!Init) /\ [][AccountsStep]_vars

\* Liveness, under Fairness.  Collected money is not forgotten: the order is paid,
\* or reconciliation flags it, or the money goes back - unless the order was
\* CANCELLED or FAILED, which reconciliation does not look at, or the money came in
\* after its last run had looked, or that run had no place for the order in its
\* batch or no answer from Stripe.
CollectedIsAccounted ==
    \A o \in Card :
        session[o] = "paid" ~> \/ sales[o] > 0 \/ o \in flagged
                               \/ session[o] = "refunded"
                               \/ status[o] \in {"CANCELLED", "FAILED"}
                               \/ o \in unseen

\* A refund made at Stripe reaches the order, whoever made it and however late
\* the event, unless the event was processed before the payment's, or a stale
\* write or late delivery event reopened the order.
RefundReachesOrder ==
    \A o \in Card :
        session[o] = "refunded" /\ sales[o] > 0
            ~> status[o] = "REFUNDED" \/ "reordered" \in mishaps[o] \/ ~Regular(o)

\* No order stays PENDING for ever, even when its checkout died half-way.
PendingCloses == \A o \in Orders : status[o] = "PENDING" ~> status[o] # "PENDING"

-----------------------------------------------------------------------------
(* What the repository says of itself and the code does not do; each is     *)
(* checked by a run that expects a counterexample.                          *)

\* api/orders/[id]/route.ts:36 "CANCELLED is deliberately NOT a reachable target
\* from any of the post-payment states".
PaidIsNeverCancelled ==
    [][\A o \in Orders : status[o] \in PaidStatuses => status'[o] # "CANCELLED"]_vars

\* refund/route.ts:10 "a failed Stripe refund must never leave the order looking
\* refunded when it isn't".
RefundedMeansReturned ==
    \A o \in Card : status[o] = "REFUNDED" => session[o] = "refunded"
=============================================================================
