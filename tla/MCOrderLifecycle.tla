--------------------------- MODULE MCOrderLifecycle ---------------------------
(* Instances of OrderLifecycle for TLC.                                     *)
EXTENDS OrderLifecycle

CONSTANTS c1, c2, m1, s1, s2, e1, e2

OneCard == {c1}
TwoCards == {c1, c2}
OtherCard == {c2}
OneManual == {m1}
Nobody == {}
OneSlot == {s1}
TwoSlots == {s1, s2}
OneId == {e1}
TwoIds == {e1, e2}
AnyAnswer == {"COMPLETED", "PENDING", "FAILED"}
Settled == {"COMPLETED"}
\* Bound: the states a courier reports that the order or a later event can tell
\* apart (CONFIRMED only raises the rank, CANCELLED acts as FAILED).
CourierTrip == {"PICKED_UP", "DELIVERED", "FAILED"}
=============================================================================
