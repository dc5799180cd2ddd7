-------------------------- MODULE FulfillmentRules --------------------------
(***************************************************************************)
(* The normalized fulfillment state machine of                             *)
(* lib/server/fulfillment/stateMachine.ts: which delivery transitions each *)
(* actor may request and what a delivery state means for Order.status.     *)
(* Constant-level only; OrderLifecycle builds its delivery actions on it.  *)
(***************************************************************************)
EXTENDS Naturals

NormalizedStates == {"PENDING", "QUOTED", "REQUESTED", "CONFIRMED", "PICKED_UP",
                     "OUT_FOR_DELIVERY", "DELIVERED", "CANCELLED", "FAILED"}

Rank == [PENDING |-> 0, QUOTED |-> 1, REQUESTED |-> 2, CONFIRMED |-> 3,
         PICKED_UP |-> 4, OUT_FOR_DELIVERY |-> 5, DELIVERED |-> 6,
         CANCELLED |-> 7, FAILED |-> 7]

TerminalStates == {"DELIVERED", "CANCELLED", "FAILED"}

Actors == {"SYSTEM", "MERCHANT", "PROVIDER", "CRON"}

\* The dashboard's two clicks for a self-delivery.
MerchantPath == {<<"PENDING", "OUT_FOR_DELIVERY">>, <<"OUT_FOR_DELIVERY", "DELIVERED">>}

SystemMay(from, to) ==
    \/ to = "PENDING" /\ from = "FAILED"
    \/ to # "PENDING" /\ Rank[to] > Rank[from] /\ from \notin TerminalStates

MerchantMay(from, to) ==
    \/ to = "CANCELLED" /\ from \notin TerminalStates
    \/ <<from, to>> \in MerchantPath

CourierMay(from, to) ==
    /\ from \notin TerminalStates
    /\ to \in TerminalStates \/ Rank[to] > Rank[from]

CanTransition(from, to, actor) ==
    /\ from # to
    /\ \/ actor = "SYSTEM" /\ SystemMay(from, to)
       \/ actor = "MERCHANT" /\ MerchantMay(from, to)
       \/ actor \in {"PROVIDER", "CRON"} /\ CourierMay(from, to)

\* Mutant of OrderStatusAfter: the delivery state becomes the order's status as it is.
OrderStatusVerbatim(to, old) == IF to \in {"PICKED_UP", "OUT_FOR_DELIVERY", "DELIVERED"}
                                THEN to ELSE old

\* Mutant of OrderStatusAfter: a failed delivery puts any order back to READY.
PullsBackAlways(to, old) ==
    CASE to \in {"PICKED_UP", "OUT_FOR_DELIVERY"} -> "OUT_FOR_DELIVERY"
      [] to = "DELIVERED" -> "DELIVERED"
      [] to \in {"FAILED", "CANCELLED"} -> "READY"
      [] OTHER -> old

\* The Order.status after a delivery reached state `to`, from order status `old`
\* (mapToOrderStatus together with recordTransition's canMove test).
OrderStatusAfter(to, old) ==
    CASE to \in {"PICKED_UP", "OUT_FOR_DELIVERY"} -> "OUT_FOR_DELIVERY"
      [] to = "DELIVERED" -> "DELIVERED"
      [] to \in {"FAILED", "CANCELLED"} /\ old = "OUT_FOR_DELIVERY" -> "READY"
      [] OTHER -> old
=============================================================================
