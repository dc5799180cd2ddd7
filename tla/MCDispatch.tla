------------------------------- MODULE MCDispatch -------------------------------
(* Instances of CourierDispatch for TLC.                                    *)
EXTENDS CourierDispatch

CONSTANTS booking1, booking2, click1

TwoBookings == {booking1, booking2}
OneClick == {click1}
\* Bound: CONFIRMED and OUT_FOR_DELIVERY only raise the rank, FAILED acts as CANCELLED.
Ride == {"PICKED_UP", "DELIVERED", "CANCELLED"}
=============================================================================
