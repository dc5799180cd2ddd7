-------------------------------- MODULE MCOrders --------------------------------
(***************************************************************************)
(* OrderLifecycle followed for one order at a time: orders share nothing   *)
(* but the request slots.                                                  *)
(***************************************************************************)
EXTENDS MCOrderLifecycle

Placed == {o \in Orders : checkout[o] # "idle"}

\* Bounds: one order is placed, and one that a courier delivers has one seller
\* request in flight.
OneOrder ==
    /\ \A o, p \in Placed : o = p
    /\ Placed \cap Courier # {} => req[s2] = Idle
=============================================================================
