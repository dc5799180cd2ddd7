------------------------------ MODULE DeliveryLeg ------------------------------
(***************************************************************************)
(* What a courier's delivery is to its order: the leg OrderLifecycle       *)
(* builds on.  A courier is hired, reports, and the delivery ends once;    *)
(* the order follows it as mapToOrderStatus says, or is moved by others.   *)
(* CourierDispatch implements it, call by call.                            *)
(***************************************************************************)
EXTENDS FulfillmentRules

VARIABLES
    leg,        \* Delivery.state
    order,      \* Order.status, "PREPARING" for any before READY, "MOVED" for others
    hired       \* a courier has the job

deliveryLegVars == <<leg, order, hired>>

LegInit == leg = "PENDING" /\ order = "PREPARING" /\ hired = FALSE

LegMoves(to) ==
    /\ leg' = to
    /\ order' = OrderStatusAfter(to, order)
    /\ UNCHANGED hired

Hires == ~hired /\ hired' = TRUE /\ UNCHANGED <<leg, order>>

\* What the couriers tell, whoever writes it down.
Reported(to) == hired /\ CanTransition(leg, to, "PROVIDER") /\ LegMoves(to)

\* The attempts ran out.
GivenUp == leg = "PENDING" /\ LegMoves("FAILED")

Cancelled == CanTransition(leg, "CANCELLED", "MERCHANT") /\ LegMoves("CANCELLED")

\* A refund, or the seller's PATCH: it writes what it tested on an earlier status.
OrderMoves(to) ==
    /\ order' = to
    /\ UNCHANGED <<leg, hired>>

LegNext ==
    \/ Hires \/ GivenUp \/ Cancelled
    \/ \E to \in NormalizedStates : Reported(to)
    \/ \E to \in {"PREPARING", "READY", "OUT_FOR_DELIVERY", "DELIVERED", "MOVED"} : OrderMoves(to)

LegSpec == LegInit /\ [][LegNext]_deliveryLegVars
=============================================================================
