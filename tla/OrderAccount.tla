----------------------------- MODULE OrderAccount -----------------------------
(***************************************************************************)
(* One order as the store's account sees it: it is paid once and refunded  *)
(* once, and the commission of a Cash App / Zelle order is owed when it is *)
(* paid, collected or waived, and given back by its refund - waived while  *)
(* it is owed, credited once it was collected.  OrderLifecycle, which has  *)
(* every way an order gets there, and Payouts, which has every way the     *)
(* commission is collected, both implement it: it is what joins them.      *)
(***************************************************************************)
CONSTANT owes       \* the buyer paid the seller directly

VARIABLES
    money,          \* "pending", "paid", "refunded"
    commission,     \* "none", "OWED", "COLLECTED", "WAIVED"
    credited        \* the refund gave a collected commission back

accountVars == <<money, commission, credited>>

Init == money = "pending" /\ commission = "none" /\ credited = FALSE

Paid ==
    /\ money = "pending" /\ money' = "paid"
    /\ commission' = IF owes THEN "OWED" ELSE "none"
    /\ UNCHANGED credited

Resolved ==
    /\ commission = "OWED" /\ commission' \in {"COLLECTED", "WAIVED"}
    /\ UNCHANGED <<money, credited>>

Refunded ==
    /\ money = "paid" /\ money' = "refunded"
    /\ commission' = IF commission = "OWED" THEN "WAIVED" ELSE commission
    /\ credited' = (commission = "COLLECTED")

Next == Paid \/ Resolved \/ Refunded

Spec == Init /\ [][Next]_accountVars
=============================================================================
