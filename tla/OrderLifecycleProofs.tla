------------------------ MODULE OrderLifecycleProofs ------------------------
(***************************************************************************)
(* Proofs about OrderLifecycle for every set of orders, request slots,     *)
(* event ids, refund answers and courier reports: types, money, the stock  *)
(* ledger, the legal moves of Order.status, the commission, the account of *)
(* OrderAccount, and the delivery that only advances.                      *)
(***************************************************************************)
EXTENDS OrderLifecycle, TLAPS

-----------------------------------------------------------------------------
(* Operators of the delivery rules.                                         *)

\* A delivery event leaves the order in one of its statuses, and a status it
\* changes becomes one of the paid ones.
LEMMA OrderStatusAfterPaid ==
    ASSUME NEW to \in NormalizedStates, NEW old \in Statuses
    PROVE  /\ OrderStatusAfter(to, old) \in Statuses
           /\ OrderStatusAfter(to, old) # old => OrderStatusAfter(to, old) \in PaidStatuses
BY DEF OrderStatusAfter, NormalizedStates, Statuses, PaidStatuses, ClosedStatuses

\* The seller's table leads to CANCELLED from PENDING, else from a paid status
\* to another one.
LEMMA TransitionsShape ==
    ASSUME NEW old \in Statuses, NEW to \in Transitions[old]
    PROVE  \/ old = "PENDING" /\ to = "CANCELLED"
           \/ old \in PaidStatuses /\ to \in PaidStatuses
BY DEF Transitions, Statuses, PaidStatuses, ClosedStatuses

-----------------------------------------------------------------------------
(* Type correctness.                                                        *)

\* Only card orders have a Checkout Session and a request in progress at Stripe.
CardOnly == \A o \in Orders \ Card : checkout[o] \in {"idle", "done"} /\ session[o] = "none"

\* Only manual orders owe a commission.
ManualOnly == \A o \in Card : charge[o] = "none"

\* What a request in flight read when it started.
RequestShape ==
    \A s \in Slots :
        /\ req[s].kind = "patch" => req[s].to \in Transitions[req[s].seen]
        /\ req[s].kind = "confirm" => req[s].order \in Manual
        /\ req[s].kind = "refund_call" => req[s].order \in Card

TypeInv == TypeOK /\ CardOnly /\ ManualOnly /\ RequestShape

\* An event joins `sent`, well typed, and none leaves it.
LEMMA EmitTyped ==
    ASSUME TypeOK, NEW o \in Card, NEW final \in BOOLEAN,
           NEW kind \in {"paid", "refunded"}, Emit(kind, o, final)
    PROVE  sent' \subseteq Event /\ sent \subseteq sent'
BY DEF TypeOK, Emit, Event

\* Noting a mishap keeps the history typed.
LEMMA NoteTyped ==
    ASSUME TypeOK, NEW o \in Orders, NEW m \in Mishaps, NEW cond, NoteWhen(cond, o, m)
    PROVE  mishaps' \in [Orders -> SUBSET Mishaps]
BY DEF TypeOK, NoteWhen

\* recordTransition writes only delivery states and order statuses.
LEMMA RecordTransitionTyped ==
    ASSUME TypeOK, NEW o \in Orders, NEW to \in NormalizedStates, NEW actor,
           RecordTransition(o, to, actor)
    PROVE  /\ status' \in [Orders -> Statuses]
           /\ delivery' \in [Orders -> NormalizedStates \cup {"none"}]
           /\ mishaps' \in [Orders -> SUBSET Mishaps]
<1>1. OrderStatusAfter(to, status[o]) \in Statuses
  BY OrderStatusAfterPaid DEF TypeOK
<1> QED BY <1>1 DEF TypeOK, RecordTransition, NoteWhen, Mishaps

\* The paid effects keep rows typed and give no commission to card orders.
LEMMA PaidEffectsTyped ==
    ASSUME TypeOK, NEW o \in Orders, PaidEffects(o)
    PROVE  /\ status' \in [Orders -> Statuses]
           /\ sales' \in [Orders -> Nat]
           /\ charge' \in [Orders -> {"none", "OWED", "COLLECTED", "WAIVED"}]
           /\ delivery' \in [Orders -> NormalizedStates \cup {"none"}]
           /\ ManualOnly => ManualOnly'
BY OrdersAssumption DEF TypeOK, PaidEffects, Statuses, PaidStatuses, NormalizedStates, ManualOnly, Orders

\* The refund effects keep rows typed and credit only manual orders.
LEMMA RefundEffectsTyped ==
    ASSUME TypeOK, ManualOnly, NEW o \in Orders, RefundEffects(o)
    PROVE  /\ status' \in [Orders -> Statuses]
           /\ restocks' \in [Orders -> Nat]
           /\ charge' \in [Orders -> {"none", "OWED", "COLLECTED", "WAIVED"}]
           /\ credit' \subseteq Manual
           /\ ManualOnly'
BY DEF TypeOK, RefundEffects, UnwindCommission, Statuses, ClosedStatuses, ManualOnly, Orders

\* What a request has read is well typed, and the other slots keep theirs.
LEMMA StartTyped ==
    ASSUME TypeInv, NEW s \in Slots, NEW o \in Orders, NEW to \in Statuses,
           NEW kind \in {"patch", "confirm", "refund_call", "refund_commit",
                         "dispatch", "delivered"},
           kind = "patch" => to \in Transitions[status[o]],
           kind = "confirm" => o \in Manual,
           kind = "refund_call" => o \in Card,
           Start(s, kind, o, to)
    PROVE  TypeInv'
<1> USE DEF TypeInv, TypeOK, CardOnly, ManualOnly, RequestShape, stripeVars,
            checkoutVars, webhookVars, deliveryVars, ledgerVars, auditVars
<1>1. req' \in [Slots -> Request \cup {Idle}]
  BY DEF Start, Request
<1>2. RequestShape'
  BY DEF Start
<1> QED BY <1>1, <1>2 DEF Start

\* A delivery event moves an order only to a paid status, and only an order that
\* has a Delivery row; the history only grows.
DeliveryFrame ==
    \A p \in Orders :
        /\ status'[p] # status[p] => status'[p] \in PaidStatuses /\ delivery[p] # "none"
        /\ delivery'[p] = "none" <=> delivery[p] = "none"
        /\ mishaps[p] \subseteq mishaps'[p]

\* recordTransition, whoever calls it, changes orders as DeliveryFrame says.
LEMMA RecordTransitionFrame ==
    ASSUME TypeOK, NEW o \in Orders, NEW to \in NormalizedStates, NEW actor,
           RecordTransition(o, to, actor)
    PROVE  DeliveryFrame
<1>1. /\ OrderStatusAfter(to, status[o]) # status[o]
             => OrderStatusAfter(to, status[o]) \in PaidStatuses
      /\ to # "none"
  BY OrderStatusAfterPaid DEF TypeOK, NormalizedStates
<1> QED BY <1>1 DEF TypeOK, RecordTransition, NoteWhen, DeliveryFrame

\* TypeInv is inductive; TypeOK alone is not, since what a handler stores depends
\* on the kind of order it runs for.
THEOREM TypeInvariant == Spec => []TypeInv
<1> USE OrdersAssumption DEF Orders
<1>1. Init => TypeInv
  BY DEF Init, TypeInv, TypeOK, CardOnly, ManualOnly, RequestShape, Statuses,
         SessionStates, Mishaps, Request, Idle
<1>2. TypeInv /\ [Next]_vars => TypeInv'
  <2> SUFFICES ASSUME TypeInv, [Next]_vars
               PROVE  TypeInv'
    OBVIOUS
  <2> USE DEF vars, stripeVars, checkoutVars, webhookVars, deliveryVars, ledgerVars,
              auditVars,
              TypeInv, TypeOK, CardOnly, ManualOnly, RequestShape
  <2>1. CASE UNCHANGED vars
    BY <2>1
  <2>2. ASSUME NEW o \in Orders, Checkout(o)
        PROVE  TypeInv'
    <3>1. CASE CreateManual(o)
      BY <3>1 DEF CreateManual, Statuses
    <3>2. CASE CreateCard(o)
      BY <3>2 DEF CreateCard, Statuses
    <3>3. CASE ChargeSucceeds(o)
      BY <3>3 DEF ChargeSucceeds, SessionStates
    <3>4. CASE PersistRef(o)
      BY <3>4 DEF PersistRef
    <3>5. CASE CheckoutFails(o)
      BY <3>5, NoteTyped DEF CheckoutFails, Statuses, ClosedStatuses, Mishaps
    <3>6. CASE CheckoutCrashes(o)
      BY <3>6 DEF CheckoutCrashes
    <3> QED BY <2>2, <3>1, <3>2, <3>3, <3>4, <3>5, <3>6 DEF Checkout
  <2>3. ASSUME NEW o \in Orders, Stripe(o)
        PROVE  TypeInv'
    <3>1. CASE BuyerPays(o)
      BY <3>1, EmitTyped DEF BuyerPays, NoteIfTooLate, SessionStates
    <3>2. CASE BuyerCompletesUnpaid(o)
      BY <3>2, EmitTyped DEF BuyerCompletesUnpaid, SessionStates
    <3>3. CASE DelayedPaymentSettles(o)
      BY <3>3 DEF DelayedPaymentSettles, NoteIfTooLate, SessionStates
    <3>4. CASE MoneyReturned(o)
      BY <3>4, EmitTyped DEF MoneyReturned, SessionStates
    <3>5. CASE PartialRefund(o)
      BY <3>5, EmitTyped DEF PartialRefund
    <3>6. CASE RefundFailsLater(o)
      BY <3>6 DEF RefundFailsLater, SessionStates
    <3> QED BY <2>3, <3>1, <3>2, <3>3, <3>4, <3>5, <3>6 DEF Stripe
  <2>4. ASSUME NEW o \in Orders, Fulfil(o)
        PROVE  TypeInv'
    <3>1. CASE CancelDelivery(o)
      BY <3>1, RecordTransitionTyped DEF CancelDelivery, NormalizedStates
    <3>2. CASE TickSelects(o)
      BY <3>2 DEF TickSelects
    <3>3. CASE TickDispatches(o)
      <4>1. /\ status' \in [Orders -> Statuses]
            /\ delivery' \in [Orders -> NormalizedStates \cup {"none"}]
            /\ mishaps' \in [Orders -> SUBSET Mishaps]
        BY <3>3, RecordTransitionTyped DEF TickDispatches, NormalizedStates
      <4> QED BY <3>3, <4>1 DEF TickDispatches
    <3>4. ASSUME NEW to \in CourierStates, CourierReports(o, to)
          PROVE  TypeInv'
      BY <3>4, RecordTransitionTyped, CourierAssumption DEF CourierReports
    <3> QED BY <2>4, <3>1, <3>2, <3>3, <3>4 DEF Fulfil
  <2>5. ASSUME NEW o \in Orders, Housekeeping(o)
        PROVE  TypeInv'
    <3>1. CASE Expire(o)
      BY <3>1 DEF Expire, Statuses, ClosedStatuses
    <3>2. CASE CancelAbandoned(o)
      BY <3>2 DEF CancelAbandoned, Statuses, ClosedStatuses
    <3>3. CASE ReconcileSelects(o) \/ WindowCloses(o) \/ ReconcileChecks(o)
      BY <3>3 DEF ReconcileSelects, WindowCloses, ReconcileChecks, Eligible
    <3>4. CASE ResolveCommission(o)
      BY <3>4 DEF ResolveCommission
    <3> QED BY <2>5, <3>1, <3>2, <3>3, <3>4 DEF Housekeeping
  <2>6. ASSUME NEW e \in sent, StripeResends(e) \/ Deliver(e)
        PROVE  TypeInv'
    <3>0. e \in Event
      OBVIOUS
    <3>1. CASE StripeResends(e)
      <4>1. sent' \subseteq Event /\ sent \subseteq sent'
        BY <3>0, <3>1, EmitTyped DEF StripeResends, Event
      <4> QED BY <3>1, <4>1 DEF StripeResends
    <3>2. CASE DeliverPaid(e)
      <4>1. CASE AcceptsPayment(e)
        BY <3>0, <3>2, <4>1, PaidEffectsTyped DEF DeliverPaid, Event
      <4>2. CASE ~AcceptsPayment(e)
        BY <3>2, <4>2 DEF DeliverPaid
      <4> QED BY <4>1, <4>2
    <3>3. CASE DeliverRefunded(e)
      <4>1. mishaps' \in [Orders -> SUBSET Mishaps]
        BY <3>0, <3>3, NoteTyped DEF DeliverRefunded, Event, Mishaps
      <4>2. CASE AcceptsRefund(e)
        BY <3>0, <3>3, <4>1, <4>2, RefundEffectsTyped DEF DeliverRefunded, Event
      <4>3. CASE ~AcceptsRefund(e)
        BY <3>3, <4>1, <4>3 DEF DeliverRefunded
      <4> QED BY <4>2, <4>3
    <3> QED BY <2>6, <3>1, <3>2, <3>3 DEF Deliver
  <2>7. ASSUME NEW s \in Slots, Seller(s)
        PROVE  TypeInv'
    <3>1. CASE RequestDies(s)
      BY <3>1 DEF RequestDies, Finish, Idle
    <3>2. ASSUME NEW o \in Orders, ReadPatch(s, o)
          PROVE  TypeInv'
      <4>1. PICK to \in Transitions[status[o]] : Start(s, "patch", o, to)
        BY <3>2 DEF ReadPatch
      <4>2. to \in Statuses
        BY TransitionsShape DEF Statuses, ClosedStatuses
      <4> QED BY <4>1, <4>2, StartTyped
    <3>3. ASSUME NEW o \in Orders, ReadConfirm(s, o)
          PROVE  TypeInv'
      BY <3>3, StartTyped DEF ReadConfirm, Statuses, PaidStatuses
    <3>4. ASSUME NEW o \in Orders, ReadRefund(s, o)
          PROVE  TypeInv'
      BY <3>4, StartTyped DEF ReadRefund, Statuses, ClosedStatuses
    <3>5. ASSUME NEW o \in Orders, ReadDispatch(s, o)
          PROVE  TypeInv'
      BY <3>5, StartTyped DEF ReadDispatch, Statuses, PaidStatuses
    <3>6. ASSUME NEW o \in Orders, ReadDelivered(s, o)
          PROVE  TypeInv'
      BY <3>6, StartTyped DEF ReadDelivered, Statuses, PaidStatuses
    <3>7. CASE CommitPatch(s)
      <4>1. req[s].order \in Orders /\ req[s].to \in Statuses
        BY <3>7 DEF CommitPatch, Request, Idle
      <4> QED BY <3>7, <4>1, NoteTyped DEF CommitPatch, Finish, Idle, Mishaps
    <3>8. CASE CommitConfirm(s)
      <4>1. req[s].order \in Orders
        BY <3>8 DEF CommitConfirm
      <4> QED BY <3>8, <4>1, PaidEffectsTyped, NoteTyped DEF CommitConfirm, Finish, Idle, Mishaps
    <3>9. CASE CommitRefund(s)
      <4>1. req[s].order \in Orders
        BY <3>9 DEF CommitRefund, Request, Idle
      <4> QED BY <3>9, <4>1, RefundEffectsTyped DEF CommitRefund, Finish, Idle
    <3>10. CASE CommitDispatch(s)
      <4>1. req[s].order \in Orders
        BY <3>10 DEF CommitDispatch, Request, Idle
      <4>2. /\ status' \in [Orders -> Statuses]
            /\ delivery' \in [Orders -> NormalizedStates \cup {"none"}]
            /\ mishaps' \in [Orders -> SUBSET Mishaps]
        BY <3>10, <4>1, RecordTransitionTyped DEF CommitDispatch, NormalizedStates
      <4> QED BY <3>10, <4>1, <4>2 DEF CommitDispatch, Finish, Idle
    <3>11. CASE CommitDelivered(s)
      <4>1. req[s].order \in Orders
        BY <3>11 DEF CommitDelivered, Request, Idle
      <4> QED BY <3>11, <4>1, RecordTransitionTyped DEF CommitDelivered, Finish, Idle, NormalizedStates
    <3>12. ASSUME NEW result \in RefundResults, StripeRefunds(s, result)
           PROVE  TypeInv'
      <4>1. req[s] \in Request /\ req[s].order \in Card
        BY <3>12 DEF StripeRefunds, Idle
      <4>2. [req[s] EXCEPT !.kind = "refund_commit"] \in Request
        BY <4>1 DEF Request
      <4>3. session' \in [Orders -> SessionStates]
        BY <3>12, <4>1, StripeAssumption DEF StripeRefunds, SessionStates
      <4>4. sent' \subseteq Event /\ sent \subseteq sent'
        BY <3>12, <4>1, EmitTyped DEF StripeRefunds
      <4>5. mishaps' \in [Orders -> SUBSET Mishaps]
        BY <3>12, <4>1, NoteTyped DEF StripeRefunds, Mishaps
      <4>6. req' \in [Slots -> Request \cup {Idle}] /\ RequestShape'
        BY <3>12, <4>1, <4>2 DEF StripeRefunds
      <4> QED BY <3>12, <4>1, <4>3, <4>4, <4>5, <4>6 DEF StripeRefunds
    <3> QED BY <2>7, <3>1, <3>2, <3>3, <3>4, <3>5, <3>6, <3>7, <3>8, <3>9, <3>10,
               <3>11, <3>12 DEF Seller
  <2> QED BY <2>1, <2>2, <2>3, <2>4, <2>5, <2>6, <2>7 DEF Next
<1> QED BY <1>1, <1>2, PTL DEF Spec

\* Every reachable state is well typed: no handler writes a status, or stores a
\* request or an event, outside the enumerations of the schema.
THEOREM TypeCorrect == Spec => []TypeOK
<1>1. TypeInv => TypeOK BY DEF TypeInv
<1> QED BY <1>1, TypeInvariant, PTL

-----------------------------------------------------------------------------
(* The money of a card order: CardMoneyAddsUp.                             *)

\* What an event claims is, and stays, true at Stripe.
EventsTellTruth ==
    \A e \in sent : e.final =>
        /\ e.kind = "paid" => session[e.order] \in Collected
        /\ e.kind = "refunded" => session[e.order] = "refunded"

NoSessionBeforeCharge ==
    \A o \in Card : checkout[o] \in {"idle", "charging"} => session[o] = "none"

\* A card order is PENDING only after its creation, and then nothing was sold.
PendingIsUnsold ==
    \A o \in Card : /\ checkout[o] = "idle" => status[o] # "PENDING" /\ sales[o] = 0
                    /\ status[o] = "PENDING" => sales[o] = 0

\* A refund request on its way to the database has Stripe's answer.
RefundWasAnswered ==
    \A s \in Slots : req[s].kind = "refund_commit" /\ req[s].order \in Card
        => \/ session[req[s].order] = "refunded"
           \/ "unsettled" \in mishaps[req[s].order]

\* CardMoneyAddsUp, conjunct by conjunct.
CardPaidOnce == \A o \in Card : sales[o] <= 1

SaleNeedsMoney == \A o \in Card : sales[o] > 0 => session[o] \in Collected

RefundNeedsMoney == \A o \in Card : RefundIsBacked(o)

MoneyInv ==
    /\ EventsTellTruth /\ NoSessionBeforeCharge /\ PendingIsUnsold /\ RefundWasAnswered
    /\ CardPaidOnce /\ SaleNeedsMoney /\ RefundNeedsMoney

\* The events, the sessions and the order rows of card orders stay consistent.
THEOREM MoneyInvariant == Spec => []MoneyInv
<1> USE OrdersAssumption DEF Orders
<1>1. Init => MoneyInv
  BY DEF Init, MoneyInv, EventsTellTruth, NoSessionBeforeCharge, PendingIsUnsold,
         RefundWasAnswered, CardPaidOnce, SaleNeedsMoney, RefundNeedsMoney,
         RefundIsBacked, Idle
<1>2. MoneyInv /\ TypeInv /\ [Next]_vars => MoneyInv'
  <2> SUFFICES ASSUME MoneyInv, TypeInv, [Next]_vars
               PROVE  MoneyInv'
    OBVIOUS
  <2> USE DEF vars, stripeVars, checkoutVars, webhookVars, deliveryVars, ledgerVars,
              auditVars,
              TypeInv, TypeOK, CardOnly, RequestShape, MoneyInv, EventsTellTruth,
              NoSessionBeforeCharge, PendingIsUnsold, RefundWasAnswered, CardPaidOnce,
              SaleNeedsMoney, RefundNeedsMoney, RefundIsBacked, Collected
  <2>1. CASE UNCHANGED vars
    BY <2>1
  <2>2. ASSUME NEW o \in Orders, Checkout(o)
        PROVE  MoneyInv'
    <3>1. CASE CreateManual(o)
      BY <3>1 DEF CreateManual
    <3>2. CASE CreateCard(o)
      BY <3>2 DEF CreateCard
    <3>3. CASE ChargeSucceeds(o)
      BY <3>3 DEF ChargeSucceeds
    <3>4. CASE PersistRef(o)
      BY <3>4 DEF PersistRef
    <3>5. CASE CheckoutFails(o)
      BY <3>5 DEF CheckoutFails, NoteWhen
    <3>6. CASE CheckoutCrashes(o)
      BY <3>6 DEF CheckoutCrashes
    <3> QED BY <2>2, <3>1, <3>2, <3>3, <3>4, <3>5, <3>6 DEF Checkout
  <2>3. ASSUME NEW o \in Orders, Stripe(o)
        PROVE  MoneyInv'
    <3>1. CASE BuyerPays(o)
      BY <3>1 DEF BuyerPays, Emit
    <3>2. CASE BuyerCompletesUnpaid(o)
      BY <3>2 DEF BuyerCompletesUnpaid, Emit
    <3>3. CASE DelayedPaymentSettles(o)
      BY <3>3 DEF DelayedPaymentSettles
    <3>4. CASE MoneyReturned(o)
      BY <3>4 DEF MoneyReturned, Emit
    <3>5. CASE PartialRefund(o)
      BY <3>5 DEF PartialRefund, Emit
    <3>6. CASE RefundFailsLater(o)
      BY <3>6 DEF RefundFailsLater
    <3> QED BY <2>3, <3>1, <3>2, <3>3, <3>4, <3>5, <3>6 DEF Stripe
  <2>4. ASSUME NEW o \in Orders, Fulfil(o)
        PROVE  MoneyInv'
    <3>1. CASE CancelDelivery(o)
      BY <3>1, RecordTransitionFrame DEF CancelDelivery, DeliveryFrame, NormalizedStates, PaidStatuses
    <3>2. CASE TickSelects(o)
      BY <3>2 DEF TickSelects
    <3>3. CASE TickDispatches(o)
      <4>1. UNCHANGED <<delivery, status, mishaps>> => DeliveryFrame
        BY DEF DeliveryFrame
      <4>2. DeliveryFrame
        BY <3>3, <4>1, RecordTransitionFrame DEF TickDispatches, NormalizedStates
      <4> QED BY <3>3, <4>2 DEF TickDispatches, DeliveryFrame, PaidStatuses
    <3>4. ASSUME NEW to \in CourierStates, CourierReports(o, to)
          PROVE  MoneyInv'
      BY <3>4, RecordTransitionFrame, CourierAssumption DEF CourierReports, DeliveryFrame, PaidStatuses
    <3> QED BY <2>4, <3>1, <3>2, <3>3, <3>4 DEF Fulfil
  <2>5. ASSUME NEW o \in Orders, Housekeeping(o)
        PROVE  MoneyInv'
    <3>1. CASE Expire(o)
      BY <3>1 DEF Expire
    <3>2. CASE CancelAbandoned(o)
      BY <3>2 DEF CancelAbandoned
    <3>3. CASE ReconcileSelects(o) \/ WindowCloses(o) \/ ReconcileChecks(o)
      BY <3>3 DEF ReconcileSelects, WindowCloses, ReconcileChecks
    <3>4. CASE ResolveCommission(o)
      BY <3>4 DEF ResolveCommission
    <3> QED BY <2>5, <3>1, <3>2, <3>3, <3>4 DEF Housekeeping
  <2>6. ASSUME NEW e \in sent, StripeResends(e) \/ Deliver(e)
        PROVE  MoneyInv'
    <3>1. CASE StripeResends(e)
      BY <3>1 DEF StripeResends, Emit
    <3>2. CASE DeliverPaid(e)
      BY <3>2 DEF DeliverPaid, PaidEffects, AcceptsPayment
    <3>3. CASE DeliverRefunded(e)
      BY <3>3 DEF DeliverRefunded, RefundEffects, AlreadyClosed, UnwindCommission, AcceptsRefund, NoteWhen
    <3> QED BY <2>6, <3>1, <3>2, <3>3 DEF Deliver
  <2>7. ASSUME NEW s \in Slots, Seller(s)
        PROVE  MoneyInv'
    <3>1. CASE RequestDies(s)
      BY <3>1 DEF RequestDies, Finish, Idle
    <3>2. CASE \E o \in Orders : ReadPatch(s, o)
      BY <3>2 DEF ReadPatch, Start
    <3>3. CASE \E o \in Orders : ReadConfirm(s, o)
      BY <3>3 DEF ReadConfirm, Start
    <3>4. CASE \E o \in Orders : ReadRefund(s, o)
      BY <3>4 DEF ReadRefund, Start
    <3>5. CASE \E o \in Orders : ReadDispatch(s, o)
      BY <3>5 DEF ReadDispatch, Start
    <3>6. CASE \E o \in Orders : ReadDelivered(s, o)
      BY <3>6 DEF ReadDelivered, Start
    <3>7. CASE CommitPatch(s)
      <4>1. req[s].to \in PaidStatuses \cup {"CANCELLED"}
        BY <3>7, TransitionsShape DEF CommitPatch, Request, Idle
      <4> QED BY <3>7, <4>1 DEF CommitPatch, NoteWhen, Finish, Idle, Request, PaidStatuses
    <3>8. CASE CommitConfirm(s)
      BY <3>8 DEF CommitConfirm, PaidEffects, NoteWhen, Finish, Idle
    <3>9. CASE CommitRefund(s)
      BY <3>9 DEF CommitRefund, RefundEffects, Request, Finish, Idle
    <3>10. CASE CommitDispatch(s)
      <4>1. req[s].order \in Orders
        BY <3>10 DEF CommitDispatch, Request, Idle
      <4>2. UNCHANGED <<delivery, status, mishaps>> => DeliveryFrame
        BY DEF DeliveryFrame
      <4>3. DeliveryFrame
        BY <3>10, <4>1, <4>2, RecordTransitionFrame DEF CommitDispatch, NormalizedStates
      <4> QED BY <3>10, <4>3 DEF CommitDispatch, DeliveryFrame, Finish, Idle, PaidStatuses
    <3>11. CASE CommitDelivered(s)
      <4>1. req[s].order \in Orders
        BY <3>11 DEF CommitDelivered, Request, Idle
      <4>2. UNCHANGED <<delivery, status, mishaps>> => DeliveryFrame
        BY DEF DeliveryFrame
      <4>3. DeliveryFrame
        BY <3>11, <4>1, <4>2, RecordTransitionFrame DEF CommitDelivered, NormalizedStates
      <4> QED BY <3>11, <4>3 DEF CommitDelivered, DeliveryFrame, Finish, Idle, PaidStatuses
    <3>12. ASSUME NEW result \in RefundResults, StripeRefunds(s, result)
           PROVE  MoneyInv'
      <4>1. req[s].order \in Card
        BY <3>12 DEF StripeRefunds
      <4>2. \A p \in Card : /\ session'[p] # session[p] => p = req[s].order /\ session[p] = "paid"
                           /\ mishaps[p] \subseteq mishaps'[p]
        BY <3>12, <4>1 DEF StripeRefunds, NoteWhen
      <4>3. session'[req[s].order] = "refunded" \/ "unsettled" \in mishaps'[req[s].order]
        BY <3>12, <4>1 DEF StripeRefunds, NoteWhen
      <4>4. session'[req[s].order] \in Collected
        BY <3>12, <4>1, StripeAssumption DEF StripeRefunds
      <4>5. EventsTellTruth'
        <5>1. ASSUME NEW e \in sent
              PROVE  e.final => /\ e.kind = "paid" => session'[e.order] \in Collected
                                /\ e.kind = "refunded" => session'[e.order] = "refunded"
          BY <4>2, <4>4 DEF Event
        <5>2. CASE result = "COMPLETED"
          <6>1. PICK id \in EventIds : sent' = sent \cup {[kind |-> "refunded", order |-> req[s].order, id |-> id, final |-> TRUE]}
            BY <3>12, <5>2 DEF StripeRefunds, Emit
          <6>2. session'[req[s].order] = "refunded"
            BY <3>12, <4>1, <5>2 DEF StripeRefunds
          <6> QED BY <5>1, <6>1, <6>2
        <5>3. CASE result # "COMPLETED"
          BY <3>12, <5>1, <5>3 DEF StripeRefunds
        <5> QED BY <5>2, <5>3
      <4>6. RefundWasAnswered'
        <5>1. req' = [req EXCEPT ![s] = [req[s] EXCEPT !.kind = "refund_commit"]] /\ req[s] \in Request
          BY <3>12 DEF StripeRefunds, Idle
        <5>2. \A t \in Slots \ {s} : req'[t] = req[t]
          BY <5>1
        <5>3. req'[s].order = req[s].order
          BY <5>1 DEF Request
        <5> QED BY <4>1, <4>2, <4>3, <5>2, <5>3 DEF Request, Idle
      <4>7. RefundNeedsMoney' /\ SaleNeedsMoney'
        BY <3>12, <4>2, <4>4 DEF StripeRefunds
      <4>8. NoSessionBeforeCharge' /\ PendingIsUnsold' /\ CardPaidOnce'
        BY <3>12, <4>2 DEF StripeRefunds
      <4> QED BY <4>5, <4>6, <4>7, <4>8
    <3> QED BY <2>7, <3>1, <3>2, <3>3, <3>4, <3>5, <3>6, <3>7, <3>8, <3>9, <3>10, <3>11, <3>12 DEF Seller
  <2> QED BY <2>1, <2>2, <2>3, <2>4, <2>5, <2>6, <2>7 DEF Next
<1> QED BY <1>1, <1>2, TypeInvariant, PTL DEF Spec

\* However Stripe delivers its events and whatever runs meanwhile, the paid effects of
\* a card order run at most once and only for collected money, and it is refunded or
\* restocked only when the money is back or Stripe answered something short of COMPLETED.
THEOREM CardMoneyAddsUpAlways == Spec => []CardMoneyAddsUp
<1>1. MoneyInv /\ TypeInv => CardMoneyAddsUp
  <2> SUFFICES ASSUME MoneyInv, TypeInv, NEW o \in Card
               PROVE  SaleIsBacked(o) /\ RefundIsBacked(o)
    BY DEF CardMoneyAddsUp
  <2>1. sales[o] \in Nat
    BY DEF TypeInv, TypeOK, Orders
  <2>2. SaleIsBacked(o)
    BY <2>1 DEF MoneyInv, CardPaidOnce, SaleNeedsMoney, SaleIsBacked
  <2> QED BY <2>2 DEF MoneyInv, RefundNeedsMoney
<1> QED BY <1>1, MoneyInvariant, TypeInvariant, PTL

-----------------------------------------------------------------------------
(* The ledgers of every order: LedgerMatchesStatus, CommissionReleasedOnce. *)

\* The statuses that only a payment leads to.
EverPaid == PaidStatuses \cup {"REFUNDED"}

\* Only a paid order has a Delivery, a recorded payment or a refund in progress.
PaidTraces ==
    \A o \in Orders : Regular(o) =>
        /\ checkout[o] = "idle" => status[o] = "none"
        /\ delivery[o] # "none" \/ o \in intent => status[o] \in EverPaid
        /\ \A s \in Slots : req[s].kind \in {"refund_call", "refund_commit"} /\ req[s].order = o
                            => status[o] \in EverPaid

LedgerInv == PaidTraces /\ LedgerMatchesStatus

\* How a delivery event that leaves the order regular may move it.
DeliveryMoves ==
    \A p \in Orders :
        /\ delivery'[p] = "none" <=> delivery[p] = "none"
        /\ Regular(p)' => Regular(p)
        /\ Regular(p)' /\ status'[p] # status[p] =>
             /\ delivery[p] # "none" /\ status[p] \notin {"REFUNDED", "DELIVERED"}
             /\ \/ status'[p] \in {"OUT_FOR_DELIVERY", "DELIVERED"}
                \/ status[p] = "OUT_FOR_DELIVERY" /\ status'[p] = "READY"

\* recordTransition, whoever calls it, moves orders as DeliveryMoves says.
LEMMA RecordTransitionMoves ==
    ASSUME TypeOK, NEW o \in Orders, NEW to \in NormalizedStates, NEW actor,
           RecordTransition(o, to, actor)
    PROVE  DeliveryMoves
<1>1. /\ to # "none"
      /\ OrderStatusAfter(to, status[o]) # status[o]
             => \/ OrderStatusAfter(to, status[o]) \in {"OUT_FOR_DELIVERY", "DELIVERED"}
                \/ status[o] = "OUT_FOR_DELIVERY" /\ OrderStatusAfter(to, status[o]) = "READY"
  BY DEF OrderStatusAfter, NormalizedStates
<1>2. CASE UNCHANGED <<delivery, status, mishaps>>
  BY <1>2 DEF DeliveryMoves, Regular
<1>3. CASE delivery[o] # "none" /\ CanTransition(delivery[o], to, actor)
  <2>1. \A p \in Orders : /\ delivery'[p] = IF p = o THEN to ELSE delivery[p]
                         /\ status'[p] = IF p = o THEN OrderStatusAfter(to, status[p]) ELSE status[p]
    BY <1>3 DEF RecordTransition, TypeOK
  <2>2. \A p \in Orders : Regular(p)' =>
           /\ Regular(p)
           /\ p = o => \/ OrderStatusAfter(to, status[o]) = status[o]
                      \/ status[o] \notin {"REFUNDED", "DELIVERED"}
    BY <1>3 DEF RecordTransition, TypeOK, NoteWhen, Regular
  <2> QED BY <1>1, <1>3, <2>1, <2>2 DEF DeliveryMoves
<1> QED BY <1>2, <1>3 DEF RecordTransition

\* A delivery event, on its own or as the end of a request, preserves LedgerInv.
LEMMA DeliveryKeepsLedger ==
    ASSUME LedgerInv, TypeOK, DeliveryMoves,
           UNCHANGED <<checkout, intent, sales, restocks>>,
           \A s \in Slots : req'[s] \in {req[s], Idle}
    PROVE  LedgerInv'
BY DEF LedgerInv, PaidTraces, LedgerMatchesStatus, DeliveryMoves, TypeOK, EverPaid,
       PaidStatuses, Idle

\* The stock ledger and the traces of a payment agree with the status.
THEOREM LedgerInvariant == Spec => []LedgerInv
<1> USE OrdersAssumption DEF Orders
<1>1. Init => LedgerInv
  BY DEF Init, LedgerInv, PaidTraces, LedgerMatchesStatus, Regular, EverPaid, PaidStatuses, Idle
<1>2. LedgerInv /\ TypeInv /\ [Next]_vars => LedgerInv'
  <2> SUFFICES ASSUME LedgerInv, TypeInv, [Next]_vars
               PROVE  LedgerInv'
    OBVIOUS
  <2> USE DEF vars, stripeVars, checkoutVars, webhookVars, deliveryVars, ledgerVars,
              auditVars,
              TypeInv, TypeOK, RequestShape, LedgerInv, PaidTraces,
              LedgerMatchesStatus, Regular, EverPaid
  <2>1. CASE UNCHANGED vars
    BY <2>1
  <2>2. ASSUME NEW o \in Orders, Checkout(o)
        PROVE  LedgerInv'
    <3>1. CASE CreateManual(o)
      BY <3>1 DEF CreateManual, PaidStatuses
    <3>2. CASE CreateCard(o)
      BY <3>2 DEF CreateCard, PaidStatuses
    <3>3. CASE ChargeSucceeds(o)
      BY <3>3 DEF ChargeSucceeds
    <3>4. CASE PersistRef(o)
      BY <3>4 DEF PersistRef
    <3>5. CASE CheckoutFails(o)
      <4>1. \A p \in Orders : Regular(p)' => Regular(p) /\ (p = o => status[o] = "PENDING")
        BY <3>5 DEF CheckoutFails, NoteWhen
      <4>2. \A p \in Orders : status'[p] = IF p = o THEN "FAILED" ELSE status[p]
        BY <3>5 DEF CheckoutFails
      <4> QED BY <3>5, <4>1, <4>2 DEF CheckoutFails, PaidStatuses
    <3>6. CASE CheckoutCrashes(o)
      BY <3>6 DEF CheckoutCrashes
    <3> QED BY <2>2, <3>1, <3>2, <3>3, <3>4, <3>5, <3>6 DEF Checkout
  <2>3. ASSUME NEW o \in Orders, Stripe(o)
        PROVE  LedgerInv'
    <3>1. CASE BuyerPays(o)
      BY <3>1 DEF BuyerPays, Emit
    <3>2. CASE BuyerCompletesUnpaid(o)
      BY <3>2 DEF BuyerCompletesUnpaid, Emit
    <3>3. CASE DelayedPaymentSettles(o)
      BY <3>3 DEF DelayedPaymentSettles
    <3>4. CASE MoneyReturned(o)
      BY <3>4 DEF MoneyReturned, Emit
    <3>5. CASE PartialRefund(o)
      BY <3>5 DEF PartialRefund, Emit
    <3>6. CASE RefundFailsLater(o)
      BY <3>6 DEF RefundFailsLater
    <3> QED BY <2>3, <3>1, <3>2, <3>3, <3>4, <3>5, <3>6 DEF Stripe
  <2>4. ASSUME NEW o \in Orders, Fulfil(o)
        PROVE  LedgerInv'
    <3>1. CASE CancelDelivery(o)
      BY <3>1, RecordTransitionMoves, DeliveryKeepsLedger DEF CancelDelivery, NormalizedStates
    <3>2. CASE TickSelects(o)
      BY <3>2 DEF TickSelects
    <3>3. CASE TickDispatches(o)
      <4>1. UNCHANGED <<delivery, status, mishaps>> => DeliveryMoves
        BY DEF DeliveryMoves
      <4>2. DeliveryMoves
        BY <3>3, <4>1, RecordTransitionMoves DEF TickDispatches, NormalizedStates
      <4> QED BY <3>3, <4>2, DeliveryKeepsLedger DEF TickDispatches
    <3>4. ASSUME NEW to \in CourierStates, CourierReports(o, to)
          PROVE  LedgerInv'
      BY <3>4, RecordTransitionMoves, DeliveryKeepsLedger, CourierAssumption DEF CourierReports
    <3> QED BY <2>4, <3>1, <3>2, <3>3, <3>4 DEF Fulfil
  <2>5. ASSUME NEW o \in Orders, Housekeeping(o)
        PROVE  LedgerInv'
    <3>1. CASE Expire(o)
      BY <3>1 DEF Expire, PaidStatuses
    <3>2. CASE CancelAbandoned(o)
      BY <3>2 DEF CancelAbandoned, PaidStatuses
    <3>3. CASE ReconcileSelects(o) \/ WindowCloses(o) \/ ReconcileChecks(o)
      BY <3>3 DEF ReconcileSelects, WindowCloses, ReconcileChecks
    <3>4. CASE ResolveCommission(o)
      BY <3>4 DEF ResolveCommission
    <3> QED BY <2>5, <3>1, <3>2, <3>3, <3>4 DEF Housekeeping
  <2>6. ASSUME NEW e \in sent, StripeResends(e) \/ Deliver(e)
        PROVE  LedgerInv'
    <3>1. CASE StripeResends(e)
      BY <3>1 DEF StripeResends, Emit
    <3>2. CASE DeliverPaid(e)
      BY <3>2 DEF DeliverPaid, PaidEffects, AcceptsPayment, PaidStatuses
    <3>3. CASE DeliverRefunded(e)
      BY <3>3 DEF DeliverRefunded, RefundEffects, AlreadyClosed, UnwindCommission, AcceptsRefund, NoteWhen, PaidStatuses
    <3> QED BY <2>6, <3>1, <3>2, <3>3 DEF Deliver
  <2>7. ASSUME NEW s \in Slots, Seller(s)
        PROVE  LedgerInv'
    <3>1. CASE RequestDies(s)
      BY <3>1 DEF RequestDies, Finish, Idle
    <3>2. CASE \E o \in Orders : ReadPatch(s, o)
      BY <3>2 DEF ReadPatch, Start
    <3>3. CASE \E o \in Orders : ReadConfirm(s, o)
      BY <3>3 DEF ReadConfirm, Start
    <3>4. CASE \E o \in Orders : ReadRefund(s, o)
      BY <3>4 DEF ReadRefund, Start
    <3>5. CASE \E o \in Orders : ReadDispatch(s, o)
      BY <3>5 DEF ReadDispatch, Start
    <3>6. CASE \E o \in Orders : ReadDelivered(s, o)
      BY <3>6 DEF ReadDelivered, Start
    <3>7. CASE CommitPatch(s)
      <4> DEFINE p == req[s].order
      <4>1. req[s] \in Request
        BY <3>7 DEF CommitPatch, Idle
      <4>2. \/ req[s].seen = "PENDING" /\ req[s].to = "CANCELLED"
            \/ req[s].seen \in PaidStatuses /\ req[s].to \in PaidStatuses
        BY <3>7, <4>1, TransitionsShape DEF CommitPatch, Request
      <4>3. \A o \in Orders : Regular(o)' => Regular(o) /\ (o = p => status[p] = req[s].seen)
        BY <3>7, <4>1 DEF CommitPatch, NoteWhen, Request
      <4>4. \A o \in Orders : status'[o] = IF o = p THEN req[s].to ELSE status[o]
        BY <3>7 DEF CommitPatch
      <4>5. \A t \in Slots : req'[t] \in {req[t], Idle}
        BY <3>7 DEF CommitPatch, Finish
      <4>6. UNCHANGED <<checkout, intent, delivery, sales, restocks>>
        BY <3>7 DEF CommitPatch
      <4> QED BY <4>1, <4>2, <4>3, <4>4, <4>5, <4>6 DEF PaidStatuses, Idle, Request
    <3>8. CASE CommitConfirm(s)
      <4> DEFINE p == req[s].order
      <4>1. \A o \in Orders : Regular(o)' => Regular(o) /\ (o = p => status[p] = "PENDING")
        BY <3>8 DEF CommitConfirm, NoteWhen
      <4>2. \A o \in Orders :
               /\ status'[o] = IF o = p THEN "PAID" ELSE status[o]
               /\ sales'[o] = IF o = p THEN sales[o] + 1 ELSE sales[o]
               /\ o # p => delivery'[o] = delivery[o]
        BY <3>8 DEF CommitConfirm, PaidEffects
      <4>3. \A t \in Slots : req'[t] \in {req[t], Idle}
        BY <3>8 DEF CommitConfirm, Finish
      <4>4. checkout' = checkout /\ intent' = intent /\ restocks' = restocks
        BY <3>8 DEF CommitConfirm
      <4> QED BY <4>1, <4>2, <4>3, <4>4 DEF PaidStatuses, Idle
    <3>9. CASE CommitRefund(s)
      BY <3>9 DEF CommitRefund, RefundEffects, AlreadyClosed, UnwindCommission, Finish, Idle, PaidStatuses
    <3>10. CASE CommitDispatch(s)
      <4>1. req[s].order \in Orders
        BY <3>10 DEF CommitDispatch, Request, Idle
      <4>2. UNCHANGED <<delivery, status, mishaps>> => DeliveryMoves
        BY DEF DeliveryMoves
      <4>3. DeliveryMoves
        BY <3>10, <4>1, <4>2, RecordTransitionMoves DEF CommitDispatch, NormalizedStates
      <4> QED BY <3>10, <4>3, DeliveryKeepsLedger DEF CommitDispatch, Finish
    <3>11. CASE CommitDelivered(s)
      <4>1. req[s].order \in Orders
        BY <3>11 DEF CommitDelivered, Request, Idle
      <4>3. DeliveryMoves
        BY <3>11, <4>1, RecordTransitionMoves DEF CommitDelivered, NormalizedStates
      <4> QED BY <3>11, <4>3, DeliveryKeepsLedger DEF CommitDelivered, Finish
    <3>12. CASE \E result \in RefundResults : StripeRefunds(s, result)
      BY <3>12 DEF StripeRefunds, Emit, NoteWhen
    <3> QED BY <2>7, <3>1, <3>2, <3>3, <3>4, <3>5, <3>6, <3>7, <3>8, <3>9, <3>10, <3>11, <3>12 DEF Seller
  <2> QED BY <2>1, <2>2, <2>3, <2>4, <2>5, <2>6, <2>7 DEF Next
<1> QED BY <1>1, <1>2, TypeInvariant, PTL DEF Spec

\* One SALE row exactly for an order that was paid, one REFUND_RESTOCK row exactly
\* for one that was refunded: only a stale write or a late delivery event can
\* apply the paid or the refund effects twice, or against the wrong status.
THEOREM LedgerMatchesStatusAlways == Spec => []LedgerMatchesStatus
<1>1. LedgerInv => LedgerMatchesStatus BY DEF LedgerInv
<1> QED BY <1>1, LedgerInvariant, PTL

-----------------------------------------------------------------------------
(* The legal moves of Order.status.                                         *)

\* The moves recordTransition makes are edges of the order's lifecycle.
LEMMA DeliveryMovesLegally ==
    ASSUME LedgerInv, TypeOK, DeliveryMoves
    PROVE  LegalStep
BY DEF LedgerInv, PaidTraces, DeliveryMoves, LegalStep, LegalMove, EverPaid, PaidStatuses

\* Closed orders stay closed, nothing is un-delivered, nothing is refunded before
\* it was paid: every step moves every order along its lifecycle, unless a stale
\* write or a late delivery event has touched the order.
THEOREM StatusMovesAlwaysLegal == Spec => StatusMovesAreLegal
<1>1. LedgerInv /\ TypeInv /\ [Next]_vars => [LegalStep]_vars
  <2> SUFFICES ASSUME LedgerInv, TypeInv, [Next]_vars
               PROVE  LegalStep
    OBVIOUS
  <2> USE DEF vars, stripeVars, checkoutVars, webhookVars, deliveryVars, ledgerVars,
              auditVars,
              TypeInv, TypeOK
  <2>1. CASE status' = status
    BY <2>1 DEF LegalStep
  <2>2. ASSUME NEW o \in Orders, Checkout(o)
        PROVE  LegalStep
    <3>1. CASE CreateManual(o) \/ CreateCard(o)
      BY <3>1 DEF CreateManual, CreateCard, LegalStep, LegalMove, LedgerInv, PaidTraces, Regular
    <3>2. CASE CheckoutFails(o)
      BY <3>2 DEF CheckoutFails, NoteWhen, LegalStep, LegalMove, Regular
    <3> QED BY <2>1, <2>2, <3>1, <3>2 DEF Checkout, ChargeSucceeds, PersistRef, CheckoutCrashes
  <2>3. ASSUME NEW o \in Orders, Stripe(o)
        PROVE  LegalStep
    BY <2>1, <2>3 DEF Stripe, BuyerPays, BuyerCompletesUnpaid, DelayedPaymentSettles,
                      MoneyReturned, PartialRefund, RefundFailsLater
  <2>4. ASSUME NEW o \in Orders, Fulfil(o)
        PROVE  LegalStep
    <3>1. CASE CancelDelivery(o)
      BY <3>1, RecordTransitionMoves, DeliveryMovesLegally DEF CancelDelivery, NormalizedStates
    <3>2. CASE TickDispatches(o)
      BY <2>1, <3>2, RecordTransitionMoves, DeliveryMovesLegally DEF TickDispatches, NormalizedStates
    <3>3. ASSUME NEW to \in CourierStates, CourierReports(o, to)
          PROVE  LegalStep
      BY <3>3, RecordTransitionMoves, DeliveryMovesLegally, CourierAssumption DEF CourierReports
    <3> QED BY <2>1, <2>4, <3>1, <3>2, <3>3 DEF Fulfil, TickSelects
  <2>5. ASSUME NEW o \in Orders, Housekeeping(o)
        PROVE  LegalStep
    <3>1. CASE Expire(o) \/ CancelAbandoned(o)
      BY <3>1 DEF Expire, CancelAbandoned, LegalStep, LegalMove
    <3> QED BY <2>1, <2>5, <3>1 DEF Housekeeping, ReconcileSelects, WindowCloses, ReconcileChecks, ResolveCommission
  <2>6. ASSUME NEW e \in sent, StripeResends(e) \/ Deliver(e)
        PROVE  LegalStep
    <3>1. CASE DeliverPaid(e)
      BY <3>1 DEF DeliverPaid, PaidEffects, AcceptsPayment, LegalStep, LegalMove
    <3>2. CASE DeliverRefunded(e)
      BY <2>1, <3>2 DEF DeliverRefunded, RefundEffects, AlreadyClosed, AcceptsRefund, NoteWhen,
            LegalStep, LegalMove, LedgerInv, PaidTraces, EverPaid, Regular
    <3> QED BY <2>1, <2>6, <3>1, <3>2 DEF Deliver, StripeResends
  <2>7. ASSUME NEW s \in Slots, Seller(s)
        PROVE  LegalStep
    <3>1. CASE CommitPatch(s)
      <4>1. req[s].order \in Orders /\ req[s].seen \in Statuses /\ req[s].to \in Transitions[req[s].seen]
        BY <3>1 DEF CommitPatch, RequestShape, Request, Idle
      <4> QED BY <3>1, <4>1, TransitionsShape DEF CommitPatch, NoteWhen, LegalStep, LegalMove, Regular
    <3>2. CASE CommitConfirm(s)
      BY <3>2 DEF CommitConfirm, PaidEffects, NoteWhen, LegalStep, LegalMove, Regular, RequestShape, Orders
    <3>3. CASE CommitRefund(s)
      BY <2>1, <3>3 DEF CommitRefund, RefundEffects, AlreadyClosed, LegalStep, LegalMove, LedgerInv,
            PaidTraces, EverPaid, Regular
    <3>4. CASE CommitDispatch(s)
      <4>1. req[s].order \in Orders
        BY <3>4 DEF CommitDispatch, Request, Idle
      <4> QED BY <2>1, <3>4, <4>1, RecordTransitionMoves, DeliveryMovesLegally DEF CommitDispatch, NormalizedStates
    <3>5. CASE CommitDelivered(s)
      <4>1. req[s].order \in Orders
        BY <3>5 DEF CommitDelivered, Request, Idle
      <4> QED BY <3>5, <4>1, RecordTransitionMoves, DeliveryMovesLegally DEF CommitDelivered, NormalizedStates
    <3> QED BY <2>1, <2>7, <3>1, <3>2, <3>3, <3>4, <3>5 DEF Seller, RequestDies, ReadPatch,
               ReadConfirm, ReadRefund, ReadDispatch, ReadDelivered, Start, StripeRefunds
  <2> QED BY <2>1, <2>2, <2>3, <2>4, <2>5, <2>6, <2>7 DEF Next
<1> QED BY <1>1, LedgerInvariant, TypeInvariant, PTL DEF Spec, StatusMovesAreLegal

-----------------------------------------------------------------------------
\* Whatever shows that a manual order was paid comes with its commission.
PaidOwesCommission ==
    \A o \in Manual : charge[o] = "none" =>
        /\ status[o] \notin EverPaid
        /\ delivery[o] = "none"
        /\ \A s \in Slots : req[s] # Idle /\ req[s].order = o
                            => \/ req[s].kind = "confirm"
                               \/ req[s].kind = "patch" /\ req[s].to = "CANCELLED"

CommissionInv == PaidOwesCommission /\ CommissionReleasedOnce
\* A delivery event, on its own or as the end of a request, preserves CommissionInv.
LEMMA DeliveryKeepsCommission ==
    ASSUME CommissionInv, TypeOK, UNCHANGED <<charge, credit>>,
           DeliveryFrame,
           \A s \in Slots : req'[s] \in {req[s], Idle}
    PROVE  CommissionInv'
BY OrdersAssumption DEF CommissionInv, PaidOwesCommission, CommissionReleasedOnce, DeliveryFrame, TypeOK,
       EverPaid, PaidStatuses, Idle, Orders

\* The commission follows the payment and the refund of a manual order.
THEOREM CommissionInvariant == Spec => []CommissionInv
<1> USE OrdersAssumption DEF Orders
<1>1. Init => CommissionInv
  BY DEF Init, CommissionInv, PaidOwesCommission, CommissionReleasedOnce, EverPaid, PaidStatuses, Idle
<1>2. CommissionInv /\ TypeInv /\ [Next]_vars => CommissionInv'
  <2> SUFFICES ASSUME CommissionInv, TypeInv, [Next]_vars
               PROVE  CommissionInv'
    OBVIOUS
  <2> USE DEF vars, stripeVars, checkoutVars, webhookVars, deliveryVars, ledgerVars,
              auditVars,
              TypeInv, TypeOK, RequestShape, CommissionInv, PaidOwesCommission,
              CommissionReleasedOnce, EverPaid
  <2>1. CASE UNCHANGED vars
    BY <2>1
  <2>2. ASSUME NEW o \in Orders, Checkout(o)
        PROVE  CommissionInv'
    <3>1. CASE CreateManual(o)
      BY <3>1 DEF CreateManual, PaidStatuses
    <3>2. CASE CreateCard(o)
      BY <3>2 DEF CreateCard
    <3>3. CASE ChargeSucceeds(o)
      BY <3>3 DEF ChargeSucceeds
    <3>4. CASE PersistRef(o)
      BY <3>4 DEF PersistRef
    <3>5. CASE CheckoutFails(o)
      BY <3>5 DEF CheckoutFails, NoteWhen, PaidStatuses
    <3>6. CASE CheckoutCrashes(o)
      BY <3>6 DEF CheckoutCrashes
    <3> QED BY <2>2, <3>1, <3>2, <3>3, <3>4, <3>5, <3>6 DEF Checkout
  <2>3. ASSUME NEW o \in Orders, Stripe(o)
        PROVE  CommissionInv'
    <3>1. CASE BuyerPays(o)
      BY <3>1 DEF BuyerPays, Emit
    <3>2. CASE BuyerCompletesUnpaid(o)
      BY <3>2 DEF BuyerCompletesUnpaid, Emit
    <3>3. CASE DelayedPaymentSettles(o)
      BY <3>3 DEF DelayedPaymentSettles
    <3>4. CASE MoneyReturned(o)
      BY <3>4 DEF MoneyReturned, Emit
    <3>5. CASE PartialRefund(o)
      BY <3>5 DEF PartialRefund, Emit
    <3>6. CASE RefundFailsLater(o)
      BY <3>6 DEF RefundFailsLater
    <3> QED BY <2>3, <3>1, <3>2, <3>3, <3>4, <3>5, <3>6 DEF Stripe
  <2>4. ASSUME NEW o \in Orders, Fulfil(o)
        PROVE  CommissionInv'
    <3>1. CASE CancelDelivery(o)
      BY <3>1, RecordTransitionFrame, DeliveryKeepsCommission DEF CancelDelivery, NormalizedStates
    <3>2. CASE TickSelects(o)
      BY <3>2 DEF TickSelects
    <3>3. CASE TickDispatches(o)
      <4>1. UNCHANGED <<delivery, status, mishaps>> => DeliveryFrame
        BY DEF DeliveryFrame
      <4>2. DeliveryFrame
        BY <3>3, <4>1, RecordTransitionFrame DEF TickDispatches, NormalizedStates
      <4> QED BY <3>3, <4>2, DeliveryKeepsCommission DEF TickDispatches
    <3>4. ASSUME NEW to \in CourierStates, CourierReports(o, to)
          PROVE  CommissionInv'
      BY <3>4, RecordTransitionFrame, DeliveryKeepsCommission, CourierAssumption DEF CourierReports
    <3> QED BY <2>4, <3>1, <3>2, <3>3, <3>4 DEF Fulfil
  <2>5. ASSUME NEW o \in Orders, Housekeeping(o)
        PROVE  CommissionInv'
    <3>1. CASE Expire(o)
      BY <3>1 DEF Expire, PaidStatuses
    <3>2. CASE CancelAbandoned(o)
      BY <3>2 DEF CancelAbandoned, PaidStatuses
    <3>3. CASE ReconcileSelects(o) \/ WindowCloses(o) \/ ReconcileChecks(o)
      BY <3>3 DEF ReconcileSelects, WindowCloses, ReconcileChecks
    <3>4. CASE ResolveCommission(o)
      BY <3>4 DEF ResolveCommission
    <3> QED BY <2>5, <3>1, <3>2, <3>3, <3>4 DEF Housekeeping
  <2>6. ASSUME NEW e \in sent, StripeResends(e) \/ Deliver(e)
        PROVE  CommissionInv'
    <3>1. CASE StripeResends(e)
      BY <3>1 DEF StripeResends, Emit
    <3>2. CASE DeliverPaid(e)
      BY <3>2 DEF DeliverPaid, PaidEffects, AcceptsPayment
    <3>3. CASE DeliverRefunded(e)
      BY <3>3 DEF DeliverRefunded, RefundEffects, AlreadyClosed, UnwindCommission, AcceptsRefund, NoteWhen
    <3> QED BY <2>6, <3>1, <3>2, <3>3 DEF Deliver
  <2>7. ASSUME NEW s \in Slots, Seller(s)
        PROVE  CommissionInv'
    <3>1. CASE RequestDies(s)
      BY <3>1 DEF RequestDies, Finish
    <3>2. ASSUME NEW o \in Orders, ReadPatch(s, o)
          PROVE  CommissionInv'
      <4>1. PICK to \in Transitions[status[o]] : Start(s, "patch", o, to)
        BY <3>2 DEF ReadPatch
      <4>2. to = "CANCELLED" \/ status[o] \in PaidStatuses
        BY TransitionsShape
      <4> QED BY <4>1, <4>2 DEF Start
    <3>3. CASE \E o \in Orders : ReadConfirm(s, o)
      BY <3>3 DEF ReadConfirm, Start
    <3>4. CASE \E o \in Orders : ReadRefund(s, o)
      BY <3>4 DEF ReadRefund, Start
    <3>5. CASE \E o \in Orders : ReadDispatch(s, o)
      BY <3>5 DEF ReadDispatch, Start
    <3>6. CASE \E o \in Orders : ReadDelivered(s, o)
      BY <3>6 DEF ReadDelivered, Start
    <3>7. CASE CommitPatch(s)
      <4> DEFINE p == req[s].order
      <4>1. req[s].to \in PaidStatuses \cup {"CANCELLED"}
        BY <3>7, TransitionsShape DEF CommitPatch, Request, Idle
      <4>2. p \in Manual /\ charge[p] = "none" => req[s].to = "CANCELLED"
        BY <3>7 DEF CommitPatch, Idle
      <4>3. \A o \in Orders : status'[o] = IF o = p THEN req[s].to ELSE status[o]
        BY <3>7 DEF CommitPatch
      <4>4. \A t \in Slots : req'[t] \in {req[t], Idle}
        BY <3>7 DEF CommitPatch, Finish
      <4>5. UNCHANGED <<charge, credit, delivery>>
        BY <3>7 DEF CommitPatch
      <4> QED BY <4>1, <4>2, <4>3, <4>4, <4>5 DEF PaidStatuses
    <3>8. CASE CommitConfirm(s)
      BY <3>8 DEF CommitConfirm, PaidEffects, NoteWhen, Finish
    <3>9. CASE CommitRefund(s)
      BY <3>9 DEF CommitRefund, RefundEffects, AlreadyClosed, UnwindCommission, Finish, Idle
    <3>10. CASE CommitDispatch(s)
      <4>1. req[s].order \in Orders
        BY <3>10 DEF CommitDispatch, Request, Idle
      <4>2. UNCHANGED <<delivery, status, mishaps>> => DeliveryFrame
        BY DEF DeliveryFrame
      <4>3. DeliveryFrame
        BY <3>10, <4>1, <4>2, RecordTransitionFrame DEF CommitDispatch, NormalizedStates
      <4> QED BY <3>10, <4>3, DeliveryKeepsCommission DEF CommitDispatch, Finish
    <3>11. CASE CommitDelivered(s)
      <4>1. req[s].order \in Orders
        BY <3>11 DEF CommitDelivered, Request, Idle
      <4>2. UNCHANGED <<delivery, status, mishaps>> => DeliveryFrame
        BY DEF DeliveryFrame
      <4>3. DeliveryFrame
        BY <3>11, <4>1, <4>2, RecordTransitionFrame DEF CommitDelivered, NormalizedStates
      <4> QED BY <3>11, <4>3, DeliveryKeepsCommission DEF CommitDelivered, Finish
    <3>12. CASE \E result \in RefundResults : StripeRefunds(s, result)
      BY <3>12 DEF StripeRefunds, Emit, NoteWhen
    <3> QED BY <2>7, <3>1, <3>2, <3>3, <3>4, <3>5, <3>6, <3>7, <3>8, <3>9, <3>10, <3>11, <3>12 DEF Seller
  <2> QED BY <2>1, <2>2, <2>3, <2>4, <2>5, <2>6, <2>7 DEF Next
<1> QED BY <1>1, <1>2, TypeInvariant, PTL DEF Spec

\* The platform's claim on a refunded manual order is released exactly once:
\* waived if it was still owed, credited if it had been collected.
THEOREM CommissionReleasedOnceAlways == Spec => []CommissionReleasedOnce
<1>1. CommissionInv => CommissionReleasedOnce BY DEF CommissionInv
<1> QED BY <1>1, CommissionInvariant, PTL

-----------------------------------------------------------------------------
(* What the store's account shows of each order: KeepsAccounts.             *)

\* The paid effects write the charge with the sale, the refund effects the credit
\* with the restock: so an order that looks unpaid owes nothing yet, and one that
\* looks paid was not credited.
ChargeNeedsSale == \A o \in Orders : charge[o] # "none" => sales[o] > 0

CreditNeedsRestock == \A o \in credit : restocks[o] > 0

AccountInv == ChargeNeedsSale /\ CreditNeedsRestock

\* Payments and refunds write both rows, and no other step touches these tables.
THEOREM AccountInvariant == Spec => []AccountInv
<1> USE OrdersAssumption DEF Orders
<1>1. Init => AccountInv
  BY DEF Init, AccountInv, ChargeNeedsSale, CreditNeedsRestock
<1>2. AccountInv /\ TypeInv /\ [Next]_vars => AccountInv'
  <2> SUFFICES ASSUME AccountInv, TypeInv, [Next]_vars
               PROVE  AccountInv'
    OBVIOUS
  <2> USE DEF vars, ledgerVars, TypeInv, TypeOK, RequestShape, AccountInv, ChargeNeedsSale, CreditNeedsRestock
  <2>1. CASE UNCHANGED ledgerVars
    BY <2>1
  <2>2. ASSUME NEW o \in Orders, Checkout(o) \/ Stripe(o) \/ Fulfil(o)
        PROVE  UNCHANGED ledgerVars
    BY <2>2 DEF Checkout, CreateManual, CreateCard, ChargeSucceeds, PersistRef, CheckoutFails,
          CheckoutCrashes, Stripe, BuyerPays, BuyerCompletesUnpaid, DelayedPaymentSettles,
          MoneyReturned, PartialRefund, RefundFailsLater, Fulfil, CancelDelivery, TickSelects,
          TickDispatches, CourierReports
  <2>3. ASSUME NEW o \in Orders, Housekeeping(o)
        PROVE  AccountInv'
    <3>1. CASE ResolveCommission(o)
      BY <3>1 DEF ResolveCommission
    <3> QED BY <2>1, <2>3, <3>1 DEF Housekeeping, Expire, CancelAbandoned, ReconcileSelects, WindowCloses, ReconcileChecks
  <2>4. ASSUME NEW o \in Orders, PaidEffects(o), UNCHANGED <<restocks, credit>>
        PROVE  AccountInv'
    BY <2>4 DEF PaidEffects
  <2>5. ASSUME NEW o \in Orders, RefundEffects(o), UNCHANGED sales
        PROVE  AccountInv'
    BY <2>5 DEF RefundEffects, UnwindCommission
  <2>6. ASSUME NEW e \in sent, StripeResends(e) \/ Deliver(e)
        PROVE  AccountInv'
    <3>1. e.order \in Orders
      BY DEF Event
    <3> QED BY <2>1, <2>4, <2>5, <2>6, <3>1 DEF StripeResends, Deliver, DeliverPaid, DeliverRefunded
  <2>7. ASSUME NEW s \in Slots, Seller(s)
        PROVE  AccountInv'
    <3>1. CASE CommitConfirm(s)
      BY <2>4, <3>1 DEF CommitConfirm, Request, Idle
    <3>2. CASE CommitRefund(s)
      BY <2>5, <3>2 DEF CommitRefund, Request, Idle
    <3> QED BY <2>1, <2>7, <3>1, <3>2 DEF Seller, RequestDies, ReadPatch, ReadConfirm, ReadRefund,
               ReadDispatch, ReadDelivered, Start, CommitPatch, CommitDispatch, CommitDelivered,
               StripeRefunds
  <2> QED BY <2>1, <2>2, <2>3, <2>6, <2>7 DEF Next
<1> QED BY <1>1, <1>2, TypeInvariant, PTL DEF Spec

\* A step that writes none of the three columns is none in any account.
LEMMA NothingInTheAccount ==
    ASSUME UNCHANGED <<status, charge, credit>>
    PROVE  AccountsStep
BY DEF AccountsStep, Account!accountVars

\* Before the payment and after a delivery event alike, a move of the status that
\* keeps an order unpaid, or keeps it paid, is none in its account.
LEMMA StatusOnly ==
    ASSUME UNCHANGED <<charge, credit>>,
           \A o \in Orders : Regular(o)' =>
              \/ status'[o] = status[o]
              \/ status[o] \notin EverPaid /\ status'[o] \notin EverPaid
              \/ status[o] \in PaidStatuses /\ status'[o] \in PaidStatuses
    PROVE  AccountsStep
<1> SUFFICES ASSUME NEW o \in Orders, Regular(o)'
             PROVE  [Account(o)!Next]_(Account(o)!accountVars)
  BY DEF AccountsStep
<1>1. CASE status'[o] = status[o]
  BY <1>1 DEF Account!accountVars
<1>2. CASE status[o] \notin EverPaid /\ status'[o] \notin EverPaid
  BY <1>2 DEF Account!accountVars, EverPaid
<1>3. CASE status[o] \in PaidStatuses /\ status'[o] \in PaidStatuses
  BY <1>3 DEF Account!accountVars, PaidStatuses
<1> QED BY <1>1, <1>2, <1>3

\* A delivery event moves an order from one paid status to another.
LEMMA DeliveryKeepsAccounts ==
    ASSUME LedgerInv, TypeOK, DeliveryMoves, UNCHANGED <<charge, credit>>
    PROVE  AccountsStep
<1>1. ASSUME NEW o \in Orders, Regular(o)', status'[o] # status[o]
      PROVE  status[o] \in PaidStatuses /\ status'[o] \in PaidStatuses
  BY <1>1 DEF DeliveryMoves, LedgerInv, PaidTraces, EverPaid, PaidStatuses
<1> QED BY <1>1, StatusOnly

\* The paid effects on a PENDING order are the payment of its account.
LEMMA PaidEffectsInTheAccount ==
    ASSUME LedgerInv, AccountInv, TypeInv, NEW p \in Orders, PaidEffects(p), UNCHANGED credit,
           \A o \in Orders : Regular(o)' => Regular(o) /\ (o = p => status[p] = "PENDING")
    PROVE  AccountsStep
<1> SUFFICES ASSUME NEW o \in Orders, Regular(o)'
             PROVE  [Account(o)!Next]_(Account(o)!accountVars)
  BY DEF AccountsStep
<1> USE DEF TypeInv, TypeOK
<1>1. CASE o # p
  <2>1. status'[o] = status[o] /\ charge'[o] = charge[o]
    BY <1>1 DEF PaidEffects
  <2> QED BY <2>1 DEF Account!accountVars
<1>2. CASE o = p
  <2>1. status[o] = "PENDING" /\ sales[o] = 0
    BY <1>2 DEF LedgerInv, LedgerMatchesStatus, PaidStatuses
  <2>2. charge[o] = "none"
    BY <2>1 DEF AccountInv, ChargeNeedsSale
  <2>3. status'[o] = "PAID" /\ charge'[o] = IF o \in Manual THEN "OWED" ELSE "none"
    BY <1>2, <2>2 DEF PaidEffects
  <2> QED BY <2>1, <2>2, <2>3 DEF Account!Next, Account!Paid, PaidStatuses
<1> QED BY <1>1, <1>2

\* The refund effects on a paid order are the refund of its account.
LEMMA RefundEffectsInTheAccount ==
    ASSUME LedgerInv, AccountInv, TypeInv, NEW p \in Orders, RefundEffects(p),
           \A o \in Orders : Regular(o)' => Regular(o) /\ (o = p => status[p] \in EverPaid)
    PROVE  AccountsStep
<1> SUFFICES ASSUME NEW o \in Orders, Regular(o)'
             PROVE  [Account(o)!Next]_(Account(o)!accountVars)
  BY DEF AccountsStep
<1> USE DEF TypeInv, TypeOK
<1>1. CASE AlreadyClosed(p) \/ o # p
  <2>1. status'[o] = status[o] /\ charge'[o] = charge[o] /\ (o \in credit' <=> o \in credit)
    BY <1>1 DEF RefundEffects, UnwindCommission
  <2> QED BY <2>1 DEF Account!accountVars
<1>2. CASE ~AlreadyClosed(p) /\ o = p
  <2>1. status[o] \in PaidStatuses /\ restocks[o] = 0
    BY <1>2 DEF AlreadyClosed, EverPaid, LedgerInv, LedgerMatchesStatus, PaidStatuses
  <2>2. o \notin credit
    BY <2>1 DEF AccountInv, CreditNeedsRestock
  <2>3. /\ status'[o] = "REFUNDED"
        /\ charge'[o] = IF charge[o] = "OWED" THEN "WAIVED" ELSE charge[o]
        /\ o \in credit' <=> charge[o] = "COLLECTED"
    BY <1>2, <2>2 DEF RefundEffects, UnwindCommission
  <2> QED BY <2>1, <2>2, <2>3 DEF Account!Next, Account!Refunded, PaidStatuses
<1> QED BY <1>1, <1>2

\* OrderLifecycle implements OrderAccount for each of its orders that no stale
\* write and no late delivery event has touched.
THEOREM AccountsAreKept == Spec => KeepsAccounts
<1>1. Init => \A o \in Orders : Account(o)!Init
  BY DEF Init, Account!Init, PaidStatuses
<1>2. LedgerInv /\ AccountInv /\ TypeInv /\ [Next]_vars => [AccountsStep]_vars
  <2> SUFFICES ASSUME LedgerInv, AccountInv, TypeInv, [Next]_vars
               PROVE  AccountsStep
    OBVIOUS
  <2> USE DEF vars, stripeVars, checkoutVars, webhookVars, deliveryVars, ledgerVars,
              auditVars, TypeInv, TypeOK
  <2>1. CASE UNCHANGED <<status, charge, credit>>
    BY <2>1, NothingInTheAccount
  <2>2. ASSUME NEW o \in Orders, Checkout(o)
        PROVE  AccountsStep
    <3>1. CASE CreateManual(o) \/ CreateCard(o)
      <4>1. UNCHANGED <<charge, credit>> /\ mishaps' = mishaps
        BY <3>1 DEF CreateManual, CreateCard
      <4>2. \A p \in Orders : Regular(p) /\ status'[p] # status[p]
               => status[p] = "none" /\ status'[p] = "PENDING"
        BY <3>1 DEF CreateManual, CreateCard, LedgerInv, PaidTraces
      <4> QED BY <4>1, <4>2, StatusOnly DEF EverPaid, PaidStatuses, Regular
    <3>2. CASE CheckoutFails(o)
      <4>1. \A p \in Orders : Regular(p)' /\ status'[p] # status[p]
               => status[p] = "PENDING" /\ status'[p] = "FAILED"
        BY <3>2 DEF CheckoutFails, NoteWhen, Regular
      <4> QED BY <3>2, <4>1, StatusOnly DEF CheckoutFails, EverPaid, PaidStatuses
    <3> QED BY <2>1, <2>2, <3>1, <3>2 DEF Checkout, ChargeSucceeds, PersistRef, CheckoutCrashes
  <2>3. ASSUME NEW o \in Orders, Stripe(o)
        PROVE  AccountsStep
    BY <2>1, <2>3 DEF Stripe, BuyerPays, BuyerCompletesUnpaid, DelayedPaymentSettles,
                      MoneyReturned, PartialRefund, RefundFailsLater
  <2>4. ASSUME NEW o \in Orders, Fulfil(o)
        PROVE  AccountsStep
    <3>1. CASE CancelDelivery(o)
      BY <3>1, RecordTransitionMoves, DeliveryKeepsAccounts DEF CancelDelivery, NormalizedStates
    <3>2. CASE TickDispatches(o)
      BY <2>1, <3>2, RecordTransitionMoves, DeliveryKeepsAccounts DEF TickDispatches, NormalizedStates
    <3>3. ASSUME NEW to \in CourierStates, CourierReports(o, to)
          PROVE  AccountsStep
      BY <3>3, RecordTransitionMoves, DeliveryKeepsAccounts, CourierAssumption DEF CourierReports
    <3> QED BY <2>1, <2>4, <3>1, <3>2, <3>3 DEF Fulfil, TickSelects
  <2>5. ASSUME NEW o \in Orders, Housekeeping(o)
        PROVE  AccountsStep
    <3>1. CASE Expire(o) \/ CancelAbandoned(o)
      <4>1. \A p \in Orders : status'[p] # status[p]
               => status[p] = "PENDING" /\ status'[p] \in {"EXPIRED", "CANCELLED"}
        BY <3>1 DEF Expire, CancelAbandoned
      <4> QED BY <3>1, <4>1, StatusOnly DEF Expire, CancelAbandoned, EverPaid, PaidStatuses
    <3>2. CASE ResolveCommission(o)
      <4>1. \A p \in Orders : \/ charge'[p] = charge[p]
                              \/ charge[p] = "OWED" /\ charge'[p] \in {"COLLECTED", "WAIVED"}
        BY <3>2 DEF ResolveCommission
      <4> QED BY <3>2, <4>1 DEF ResolveCommission, AccountsStep, Account!Next, Account!Resolved,
                               Account!accountVars
    <3> QED BY <2>1, <2>5, <3>1, <3>2 DEF Housekeeping, ReconcileSelects, WindowCloses, ReconcileChecks
  <2>6. ASSUME NEW e \in sent, StripeResends(e) \/ Deliver(e)
        PROVE  AccountsStep
    <3>0. e.order \in Orders
      BY DEF Event, Orders
    <3>1. CASE DeliverPaid(e)
      BY <2>1, <3>0, <3>1, PaidEffectsInTheAccount DEF DeliverPaid, AcceptsPayment, Regular
    <3>2. CASE DeliverRefunded(e)
      BY <2>1, <3>0, <3>2, RefundEffectsInTheAccount
         DEF DeliverRefunded, AcceptsRefund, NoteWhen, Regular, LedgerInv, PaidTraces
    <3> QED BY <2>1, <2>6, <3>1, <3>2 DEF Deliver, StripeResends
  <2>7. ASSUME NEW s \in Slots, Seller(s)
        PROVE  AccountsStep
    <3>1. CASE CommitPatch(s)
      <4>1. req[s].order \in Orders /\ req[s].seen \in Statuses /\ req[s].to \in Transitions[req[s].seen]
        BY <3>1 DEF CommitPatch, RequestShape, Request, Idle
      <4>2. \A p \in Orders : Regular(p)' /\ status'[p] # status[p]
               => p = req[s].order /\ status[p] = req[s].seen /\ status'[p] = req[s].to
        BY <3>1, <4>1 DEF CommitPatch, NoteWhen, Regular
      <4> QED BY <3>1, <4>1, <4>2, TransitionsShape, StatusOnly DEF CommitPatch, EverPaid, PaidStatuses
    <3>2. CASE CommitConfirm(s)
      <4>1. req[s].order \in Orders
        BY <3>2 DEF CommitConfirm, Request, Idle
      <4>2. \A p \in Orders : Regular(p)' => Regular(p) /\ (p = req[s].order => status[p] = "PENDING")
        BY <3>2, <4>1 DEF CommitConfirm, NoteWhen, Regular
      <4> QED BY <3>2, <4>1, <4>2, PaidEffectsInTheAccount DEF CommitConfirm
    <3>3. CASE CommitRefund(s)
      <4>1. req[s].order \in Orders
        BY <3>3 DEF CommitRefund, Request, Idle
      <4>2. \A p \in Orders : Regular(p)' => Regular(p) /\ (p = req[s].order => status[p] \in EverPaid)
        BY <3>3 DEF CommitRefund, LedgerInv, PaidTraces, Regular
      <4> QED BY <3>3, <4>1, <4>2, RefundEffectsInTheAccount DEF CommitRefund
    <3>4. CASE CommitDispatch(s)
      <4>1. req[s].order \in Orders
        BY <3>4 DEF CommitDispatch, Request, Idle
      <4> QED BY <2>1, <3>4, <4>1, RecordTransitionMoves, DeliveryKeepsAccounts DEF CommitDispatch, NormalizedStates
    <3>5. CASE CommitDelivered(s)
      <4>1. req[s].order \in Orders
        BY <3>5 DEF CommitDelivered, Request, Idle
      <4> QED BY <3>5, <4>1, RecordTransitionMoves, DeliveryKeepsAccounts DEF CommitDelivered, NormalizedStates
    <3> QED BY <2>1, <2>7, <3>1, <3>2, <3>3, <3>4, <3>5 DEF Seller, RequestDies, ReadPatch,
               ReadConfirm, ReadRefund, ReadDispatch, ReadDelivered, Start, StripeRefunds
  <2>8. CASE UNCHANGED vars
    BY <2>1, <2>8
  <2> QED BY <2>2, <2>3, <2>4, <2>5, <2>6, <2>7, <2>8 DEF Next
<1> QED BY <1>1, <1>2, LedgerInvariant, AccountInvariant, TypeInvariant, PTL DEF Spec, KeepsAccounts
-----------------------------------------------------------------------------
(* The delivery of an order, whoever moves it.                              *)

AdvancesOnly ==
    \A o \in Orders :
        \/ delivery'[o] = delivery[o]
        \/ delivery[o] = "none" /\ delivery'[o] = "PENDING"
        \/ /\ delivery[o] \in NormalizedStates \ TerminalStates
           /\ Rank[delivery'[o]] > Rank[delivery[o]]

\* A delivery never goes backwards and its ends are final, though sellers, the
\* tick and couriers move it with no regard for one another, and whatever became
\* of its order: stale writes and late events are no exception here.
DeliveryOnlyAdvances == [][AdvancesOnly]_vars

\* recordTransition, whoever calls it, moves a delivery along the state machine
\* only.
LEMMA RecordTransitionAdvances ==
    ASSUME TypeOK, NEW o \in Orders, NEW to \in NormalizedStates \ {"PENDING"}, NEW actor,
           RecordTransition(o, to, actor)
    PROVE  AdvancesOnly
<1>1. CASE delivery[o] # "none" /\ CanTransition(delivery[o], to, actor)
  <2>1. \A p \in Orders : delivery'[p] = IF p = o THEN to ELSE delivery[p]
    BY <1>1 DEF RecordTransition, TypeOK
  <2>2. delivery[o] \in NormalizedStates
    BY <1>1 DEF TypeOK
  <2>3. delivery[o] \notin TerminalStates /\ Rank[to] > Rank[delivery[o]]
    BY <1>1, <2>2 DEF CanTransition, SystemMay, MerchantMay, CourierMay, MerchantPath, Rank,
                      TerminalStates, NormalizedStates
  <2> QED BY <2>1, <2>2, <2>3 DEF AdvancesOnly
<1>2. CASE ~(delivery[o] # "none" /\ CanTransition(delivery[o], to, actor))
  BY <1>2 DEF RecordTransition, AdvancesOnly
<1> QED BY <1>1, <1>2

\* Every step of every handler only advances a delivery.
THEOREM DeliveryOnlyAdvancesAlways == Spec => DeliveryOnlyAdvances
<1>1. TypeInv /\ [Next]_vars => [AdvancesOnly]_vars
  <2> SUFFICES ASSUME TypeInv, [Next]_vars
               PROVE  AdvancesOnly
    OBVIOUS
  <2> USE DEF vars, stripeVars, checkoutVars, webhookVars, deliveryVars, ledgerVars,
              auditVars, TypeInv, TypeOK
  <2>1. CASE UNCHANGED delivery
    BY <2>1 DEF AdvancesOnly
  <2>2. ASSUME NEW o \in Orders, PaidEffects(o)
        PROVE  AdvancesOnly
    BY <2>2 DEF PaidEffects, AdvancesOnly
  <2>3. ASSUME NEW o \in Orders, Checkout(o) \/ Stripe(o) \/ Housekeeping(o)
        PROVE  UNCHANGED delivery
    BY <2>3 DEF Checkout, CreateManual, CreateCard, ChargeSucceeds, PersistRef, CheckoutFails,
          CheckoutCrashes, Stripe, BuyerPays, BuyerCompletesUnpaid, DelayedPaymentSettles,
          MoneyReturned, PartialRefund, RefundFailsLater, Housekeeping, Expire, CancelAbandoned,
          ReconcileSelects, WindowCloses, ReconcileChecks, ResolveCommission
  <2>4. ASSUME NEW o \in Orders, Fulfil(o)
        PROVE  AdvancesOnly
    <3>1. CASE CancelDelivery(o)
      BY <3>1, RecordTransitionAdvances DEF CancelDelivery, NormalizedStates
    <3>2. CASE TickDispatches(o)
      BY <2>1, <3>2, RecordTransitionAdvances DEF TickDispatches, NormalizedStates
    <3>3. ASSUME NEW to \in CourierStates, CourierReports(o, to)
          PROVE  AdvancesOnly
      BY <3>3, RecordTransitionAdvances, CourierAssumption DEF CourierReports
    <3> QED BY <2>1, <2>4, <3>1, <3>2, <3>3 DEF Fulfil, TickSelects
  <2>5. ASSUME NEW e \in sent, StripeResends(e) \/ Deliver(e)
        PROVE  AdvancesOnly
    <3>1. e.order \in Orders
      BY DEF Event, Orders
    <3> QED BY <2>1, <2>2, <2>5, <3>1 DEF Deliver, DeliverPaid, DeliverRefunded, StripeResends
  <2>6. ASSUME NEW s \in Slots, Seller(s)
        PROVE  AdvancesOnly
    <3>1. CASE CommitConfirm(s)
      BY <2>2, <3>1 DEF CommitConfirm, Request, Idle
    <3>2. CASE CommitDispatch(s)
      <4>1. req[s].order \in Orders
        BY <3>2 DEF CommitDispatch, Request, Idle
      <4> QED BY <2>1, <3>2, <4>1, RecordTransitionAdvances DEF CommitDispatch, NormalizedStates
    <3>3. CASE CommitDelivered(s)
      <4>1. req[s].order \in Orders
        BY <3>3 DEF CommitDelivered, Request, Idle
      <4> QED BY <3>3, <4>1, RecordTransitionAdvances DEF CommitDelivered, NormalizedStates
    <3> QED BY <2>1, <2>6, <3>1, <3>2, <3>3 DEF Seller, RequestDies, ReadPatch, ReadConfirm, ReadRefund,
               ReadDispatch, ReadDelivered, Start, CommitPatch, CommitRefund, StripeRefunds
  <2>7. CASE UNCHANGED vars
    BY <2>1, <2>7
  <2> QED BY <2>1, <2>3, <2>4, <2>5, <2>6, <2>7 DEF Next
<1> QED BY <1>1, TypeInvariant, PTL DEF Spec, DeliveryOnlyAdvances
=============================================================================
