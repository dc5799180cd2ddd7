------------------------------ MODULE AtLeastOnce ------------------------------
(***************************************************************************)
(* What the durable side-effect pipelines of the program promise of a      *)
(* message: once accepted it stays known, it is delivered at least once    *)
(* before it is reported done, and a delivery is not forgotten; or it is   *)
(* given up.  Outbox and EmailQueue implement it.                          *)
(***************************************************************************)
CONSTANTS
    Messages,
    Reopenable      \* messages whose outcome may be withdrawn and tried again

VARIABLES
    delivered,      \* messages whose effect happened
    outcome         \* "none" before the message is accepted

Init ==
    /\ delivered = {}
    /\ outcome = [m \in Messages |-> "none"]

Accept(m) ==
    /\ outcome[m] = "none"
    /\ outcome' = [outcome EXCEPT ![m] = "open"]
    /\ UNCHANGED delivered

Deliver(m) ==
    /\ outcome[m] # "none"
    /\ delivered' = delivered \cup {m}
    /\ UNCHANGED outcome

Report(m) ==
    /\ m \in delivered
    /\ outcome[m] = "open" \/ m \in Reopenable
    /\ outcome' = [outcome EXCEPT ![m] = "reported"]
    /\ UNCHANGED delivered

GiveUp(m) ==
    /\ outcome[m] = "open" \/ (m \in Reopenable /\ outcome[m] # "none")
    /\ outcome' = [outcome EXCEPT ![m] = "given_up"]
    /\ UNCHANGED delivered

Reopen(m) ==
    /\ m \in Reopenable
    /\ outcome[m] \in {"reported", "given_up"}
    /\ outcome' = [outcome EXCEPT ![m] = "open"]
    /\ UNCHANGED delivered

Next ==
    \E m \in Messages :
        Accept(m) \/ Deliver(m) \/ Report(m) \/ GiveUp(m) \/ Reopen(m)

Spec == Init /\ [][Next]_<<delivered, outcome>>
=============================================================================
