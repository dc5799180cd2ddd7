----------------------------- MODULE CourierProofs -----------------------------
(***************************************************************************)
(* Proofs about CourierDispatch: its type, that a recorded courier is the  *)
(* only one, that the customer hears of an end once, that it implements    *)
(* DeliveryLeg, and that the delivery only advances.                       *)
(***************************************************************************)
EXTENDS CourierDispatch, FiniteSetTheorems, TLAPS

\* A recorded booking exists, and has the external id that makes requests reconcile.
RowIsBacked == row.dispatched => row.external /\ row.booking \in Placed

\* A call is made only while no booking is recorded; its answer is about a booking, and
\* an error is about none or about one the courier holds unknown to the code.
CallIsBacked ==
    tx # NoTx =>
        /\ ~row.dispatched
        /\ tx.by = Tick => row.state = "PENDING"
        /\ tx.answer = "none" => tx.booking = NoBooking
        /\ tx.answer = "error" => tx.booking \in orphans \cup {NoBooking}
        /\ tx.answer \in Active \cup TerminalStates => tx.booking \in Placed

\* Beside the orphans there is the recorded booking, or the one just being made.
Accounted == IF row.dispatched THEN {row.booking}
             ELSE IF tx # NoTx THEN {tx.booking} ELSE {}

NoneBeside == Placed \ orphans \subseteq Accounted

DoorDashOnce == courierType = "DOORDASH" => \A a, b \in Placed : a = b

PollIsBacked == poll # "none" => Placed # {}

DispatchInv ==
    /\ DispatchTypeOK /\ RowIsBacked /\ CallIsBacked
    /\ NoneBeside /\ DoorDashOnce /\ PollIsBacked

-----------------------------------------------------------------------------
(* The rules.                                                               *)

LEMMA OrderStatusTyped ==
    ASSUME NEW to \in NormalizedStates, NEW old \in OrderStatuses
    PROVE  OrderStatusAfter(to, old) \in OrderStatuses
BY DEF OrderStatusAfter, OrderStatuses

\* Every report of a courier, and every state its booking can be in, is a
\* delivery state.
LEMMA ReportsTyped ==
    /\ BookingStates \ {"none"} \subseteq Active \cup TerminalStates
    /\ Active \cup TerminalStates \subseteq NormalizedStates
    /\ "none" \notin NormalizedStates
BY DispatchAssumption DEF BookingStates, Active, TerminalStates, NormalizedStates

\* Whatever a dispatch or a courier may record, a courier's report may record.
LEMMA CourierMayRecord ==
    ASSUME NEW from \in NormalizedStates, NEW to \in Active \cup TerminalStates,
           NEW actor \in {"SYSTEM", "MERCHANT", "PROVIDER", "CRON"},
           CanTransition(from, to, actor)
    PROVE  CanTransition(from, to, "PROVIDER")
BY DEF CanTransition, SystemMay, MerchantMay, CourierMay, MerchantPath, Rank, Active,
       TerminalStates, NormalizedStates

\* No seller may move a delivery to FAILED (PATHS of stateMachine.ts has no
\* such edge).
LEMMA SellerCannotFail == \A from \in NormalizedStates : ~CanTransition(from, "FAILED", "MERCHANT")
BY DEF CanTransition, MerchantMay, MerchantPath

\* What a transition leaves behind: a typed row, the old one's or the patch's fields.
LEMMA RecordTyped ==
    ASSUME DispatchTypeOK, NEW old \in DeliveryRow, NEW patch \in DeliveryRow,
           NEW to \in NormalizedStates, NEW actor, NEW mails \in 0..1,
           RecordTransition(old, to, actor, patch, mails)
    PROVE  /\ row' \in DeliveryRow /\ orderStatus' \in OrderStatuses /\ heard' \in 0..2
           /\ row' = IF CanTransition(old.state, to, actor) THEN [patch EXCEPT !.state = to]
                     ELSE old
<1>1. heard \in 0..2 /\ orderStatus \in OrderStatuses
  BY DEF DispatchTypeOK
<1>2. OrderStatusAfter(to, orderStatus) \in OrderStatuses
  BY <1>1, OrderStatusTyped
<1>3. [patch EXCEPT !.state = to] \in DeliveryRow
  BY DEF DeliveryRow
<1>4. \A n \in Nat : AtMost2(n) \in 0..2
  BY DEF AtMost2
<1>5. CASE CanTransition(old.state, to, actor)
  <2>1. heard + mails + (IF TellsCustomer(to, actor) THEN 1 ELSE 0) \in Nat
    BY <1>1
  <2> QED BY <1>2, <1>3, <1>4, <1>5, <2>1 DEF RecordTransition
<1>6. CASE ~CanTransition(old.state, to, actor)
  <2>1. heard + mails \in Nat
    BY <1>1
  <2> QED BY <1>1, <1>4, <1>6, <2>1 DEF RecordTransition
<1> QED BY <1>5, <1>6

\* A transition that patches nothing keeps what the row says of bookings.
LEMMA RecordKeepsBooking ==
    ASSUME DispatchTypeOK, NEW to \in NormalizedStates, NEW actor,
           RecordTransition(row, to, actor, row, 0)
    PROVE  /\ row' \in DeliveryRow /\ orderStatus' \in OrderStatuses /\ heard' \in 0..2
           /\ row'.dispatched = row.dispatched /\ row'.external = row.external
           /\ row'.booking = row.booking
<1>1. row \in DeliveryRow
  BY DEF DispatchTypeOK
<1>2. /\ row' \in DeliveryRow /\ orderStatus' \in OrderStatuses /\ heard' \in 0..2
      /\ row' = row \/ row' = [row EXCEPT !.state = to]
  BY <1>1, RecordTyped
<1> QED BY <1>1, <1>2 DEF DeliveryRow

-----------------------------------------------------------------------------
(* The invariant.                                                           *)

LEMMA DispatchStart == DispatchInit => DispatchInv
BY DispatchAssumption
   DEF DispatchInit, DispatchInv, DispatchTypeOK, RowIsBacked, CallIsBacked, NoneBeside,
       DoorDashOnce, PollIsBacked, Accounted, DeliveryRow, NoTx, OrderStatuses, Placed,
       BookingStates, NormalizedStates

\* Actions that record a report of a courier or of the seller, with no call under way.
LEMMA FoldKeeps ==
    ASSUME DispatchInv, tx = NoTx, NEW to \in NormalizedStates, NEW actor,
           RecordTransition(row, to, actor, row, 0) \/ UNCHANGED <<row, orderStatus, heard>>,
           UNCHANGED <<courierType, patching, courier, tx, strays, orphans, mishaps>>,
           waiting' \subseteq waiting, lost' = lost, poll' \in {poll, "none"}
    PROVE  DispatchInv'
<1>1. /\ row' \in DeliveryRow /\ orderStatus' \in OrderStatuses /\ heard' \in 0..2
      /\ row'.dispatched = row.dispatched /\ row'.external = row.external
      /\ row'.booking = row.booking
  <2>1. CASE RecordTransition(row, to, actor, row, 0)
    BY <2>1, RecordKeepsBooking DEF DispatchInv
  <2>2. CASE UNCHANGED <<row, orderStatus, heard>>
    BY <2>2 DEF DispatchInv, DispatchTypeOK
  <2> QED BY <2>1, <2>2
<1>2. Placed' = Placed
  BY DEF Placed
<1>3. DispatchTypeOK'
  BY <1>1, <1>2 DEF DispatchInv, DispatchTypeOK, BookingStates
<1>4. RowIsBacked' /\ CallIsBacked' /\ NoneBeside' /\ DoorDashOnce' /\ PollIsBacked'
  BY <1>1, <1>2 DEF DispatchInv, RowIsBacked, CallIsBacked, NoneBeside, DoorDashOnce,
                    PollIsBacked, Accounted
<1> QED BY <1>3, <1>4 DEF DispatchInv

\* Actions that touch nothing but who waits, the order and what is polled.
LEMMA BookkeepingKeeps ==
    ASSUME DispatchInv,
           UNCHANGED <<courierType, patching, row, courier, tx, strays, lost, heard, orphans, mishaps>>,
           waiting' \subseteq Callers, orderStatus' \in OrderStatuses,
           poll' \in BookingStates, poll' # "none" => Placed # {}
    PROVE  DispatchInv'
BY DEF DispatchInv, DispatchTypeOK, RowIsBacked, CallIsBacked, NoneBeside, DoorDashOnce,
       PollIsBacked, Accounted, Placed

\* Taking the lock and calling the courier keeps the invariant.
LEMMA CallStarts ==
    ASSUME DispatchInv, NEW c \in Callers, CallsCourier(c), UNCHANGED <<courierType, patching>>
    PROVE  DispatchInv'
<1>1. ~row.dispatched
  BY DEF CallsCourier, MustBook, DispatchInv, RowIsBacked
<1>2. /\ tx' = [by |-> c, answer |-> "none", booking |-> NoBooking]
      /\ tx = NoTx /\ waiting' \subseteq waiting
      /\ c = Tick => row.state = "PENDING"
      /\ UNCHANGED <<orderStatus, row, courier, strays, poll, lost, heard, orphans, mishaps>>
  BY DEF CallsCourier, Enters, MustBook
<1>3. tx' \in Transaction
  BY <1>2 DEF Transaction
<1>4. DispatchTypeOK'
  BY <1>2, <1>3 DEF DispatchInv, DispatchTypeOK, Placed
<1>5. tx' # NoTx
  BY <1>2 DEF NoTx
<1>6. CallIsBacked'
  BY <1>1, <1>2, <1>5, DispatchAssumption DEF CallIsBacked, Active, TerminalStates
<1>7. Placed \ orphans = {}
  BY <1>1, <1>2 DEF DispatchInv, NoneBeside, Accounted
<1>8. NoneBeside'
  BY <1>2, <1>7 DEF NoneBeside, Placed
<1>9. RowIsBacked' /\ DoorDashOnce' /\ PollIsBacked'
  BY <1>2 DEF DispatchInv, RowIsBacked, DoorDashOnce, PollIsBacked, Placed
<1> QED BY <1>4, <1>6, <1>8, <1>9 DEF DispatchInv

\* A courier's new booking.
LEMMA BookedPlaced ==
    ASSUME DispatchTypeOK, NEW b \in Bookings, courier' = [courier EXCEPT ![b] = "REQUESTED"]
    PROVE  Placed' = Placed \cup {b} /\ courier' \in [Bookings -> BookingStates]
BY DEF DispatchTypeOK, Placed, BookingStates

\* A booking made by the call under way keeps the invariant.
LEMMA BookKeeps ==
    ASSUME DispatchInv, NEW b \in Bookings, CourierBooks(b), UNCHANGED <<courierType, patching>>
    PROVE  DispatchInv'
<1>1. /\ tx # NoTx /\ tx.answer = "none" /\ b \notin Placed
      /\ courierType = "DOORDASH" => Placed = {}
      /\ tx' = [tx EXCEPT !.answer = "REQUESTED", !.booking = b]
      /\ UNCHANGED <<orderStatus, row, waiting, strays, poll, lost, heard, orphans, mishaps>>
  BY DEF CourierBooks
<1>2. Placed' = Placed \cup {b} /\ courier' \in [Bookings -> BookingStates]
  BY BookedPlaced DEF CourierBooks, DispatchInv
<1>3. tx \in Transaction
  BY <1>1 DEF DispatchInv, DispatchTypeOK
<1>4. /\ tx' \in Transaction /\ tx'.booking = b /\ tx'.answer = "REQUESTED" /\ tx'.by = tx.by
  BY <1>1, <1>3 DEF Transaction, Active
<1>5. DispatchTypeOK'
  BY <1>1, <1>2, <1>4 DEF DispatchInv, DispatchTypeOK
<1>6. ~row.dispatched /\ tx.booking = NoBooking /\ (tx.by = Tick => row.state = "PENDING")
  BY <1>1 DEF DispatchInv, CallIsBacked
<1>7. CallIsBacked'
  BY <1>1, <1>2, <1>4, <1>6 DEF CallIsBacked
<1>8. Placed \ orphans = {}
  BY <1>1, <1>6, DispatchAssumption DEF DispatchInv, NoneBeside, Accounted, Placed
<1>9. tx' # NoTx
  BY <1>4 DEF Transaction, NoTx
<1>10. NoneBeside'
  BY <1>1, <1>2, <1>4, <1>6, <1>8, <1>9 DEF NoneBeside, Accounted
<1>11. RowIsBacked' /\ DoorDashOnce' /\ PollIsBacked'
  BY <1>1, <1>2 DEF DispatchInv, RowIsBacked, DoorDashOnce, PollIsBacked
<1> QED BY <1>5, <1>7, <1>10, <1>11 DEF DispatchInv

\* A booking made by a call that nobody awaits is an orphan at once.
LEMMA StrayKeeps ==
    ASSUME DispatchInv, NEW b \in Bookings, StrayBooks(b), UNCHANGED <<courierType, patching>>
    PROVE  DispatchInv'
<1>1. /\ strays' = strays - 1 /\ strays > 0 /\ orphans' = orphans \cup {b} /\ b \notin Placed
      /\ courierType = "DOORDASH" => Placed = {}
      /\ UNCHANGED <<orderStatus, row, waiting, tx, poll, lost, heard, mishaps>>
  BY DEF StrayBooks
<1>2. Placed' = Placed \cup {b} /\ courier' \in [Bookings -> BookingStates]
  BY BookedPlaced DEF StrayBooks, DispatchInv
<1>3. strays' \in Nat
  BY <1>1 DEF DispatchInv, DispatchTypeOK
<1>4. DispatchTypeOK'
  BY <1>1, <1>2, <1>3 DEF DispatchInv, DispatchTypeOK
<1>5. RowIsBacked' /\ CallIsBacked' /\ DoorDashOnce' /\ PollIsBacked'
  BY <1>1, <1>2 DEF DispatchInv, RowIsBacked, CallIsBacked, DoorDashOnce, PollIsBacked
<1>6. NoneBeside'
  BY <1>1, <1>2 DEF DispatchInv, NoneBeside, Accounted
<1> QED BY <1>4, <1>5, <1>6 DEF DispatchInv

\* DoorDash answering with the booking it already has keeps the invariant.
LEMMA DuplicateKeeps ==
    ASSUME DispatchInv, NEW b \in Bookings, FindsDuplicate(b), UNCHANGED <<courierType, patching>>
    PROVE  DispatchInv'
<1>1. /\ tx # NoTx /\ tx.answer = "none" /\ b \in Placed /\ courierType = "DOORDASH"
      /\ tx' = [tx EXCEPT !.answer = courier[b], !.booking = b]
      /\ UNCHANGED <<orderStatus, row, courier, waiting, strays, poll, lost, heard, orphans, mishaps>>
  BY DEF FindsDuplicate
<1>2. courier[b] \in Active \cup TerminalStates
  BY <1>1, ReportsTyped DEF DispatchInv, DispatchTypeOK, Placed
<1>3. tx \in Transaction
  BY <1>1 DEF DispatchInv, DispatchTypeOK
<1>4. tx' \in Transaction /\ tx'.booking = b /\ tx'.answer = courier[b] /\ tx'.by = tx.by
  BY <1>1, <1>2, <1>3 DEF Transaction
<1>5. DispatchTypeOK'
  BY <1>1, <1>4 DEF DispatchInv, DispatchTypeOK, Placed
<1>6. courier[b] \notin {"none", "error"}
  BY <1>2 DEF Active, TerminalStates
<1>7. CallIsBacked'
  BY <1>1, <1>4, <1>6 DEF DispatchInv, CallIsBacked, Placed
<1>8. Placed' = Placed /\ \A a \in Placed : a = b
  BY <1>1 DEF DispatchInv, DoorDashOnce, Placed
<1>9. ~row.dispatched /\ tx' # NoTx
  BY <1>1, <1>4 DEF DispatchInv, CallIsBacked, Transaction, NoTx
<1>10. NoneBeside'
  BY <1>1, <1>4, <1>8, <1>9 DEF NoneBeside, Accounted
<1>11. RowIsBacked' /\ DoorDashOnce' /\ PollIsBacked'
  BY <1>1, <1>8 DEF DispatchInv, RowIsBacked, DoorDashOnce, PollIsBacked
<1> QED BY <1>5, <1>7, <1>10, <1>11 DEF DispatchInv

\* The call fails: nothing was booked, or what was booked becomes an orphan.
LEMMA ErrorKeeps ==
    ASSUME DispatchInv, CourierRefuses \/ AnswerLost, UNCHANGED <<courierType, patching>>
    PROVE  DispatchInv'
<1>1. /\ tx # NoTx /\ tx.answer # "error"
      /\ tx' = [tx EXCEPT !.answer = "error"]
      /\ lost' \in 0..MaxLost /\ strays' \in Nat
      /\ \/ tx.booking = NoBooking /\ orphans' = orphans
         \/ tx.booking # NoBooking /\ orphans' = orphans \cup {tx.booking}
      /\ UNCHANGED <<orderStatus, row, courier, waiting, poll, heard, mishaps>>
  <2>1. CASE CourierRefuses
    BY <2>1 DEF CourierRefuses, DispatchInv, DispatchTypeOK, CallIsBacked
  <2>2. CASE AnswerLost
    <3>1. strays \in Nat /\ lost \in 0..MaxLost
      BY DEF DispatchInv, DispatchTypeOK
    <3>2. strays' \in Nat /\ lost' \in 0..MaxLost
      BY <2>2, <3>1, DispatchAssumption DEF AnswerLost
    <3> QED BY <2>2, <3>2 DEF AnswerLost
  <2> QED BY <2>1, <2>2
<1>2. tx \in Transaction
  BY <1>1 DEF DispatchInv, DispatchTypeOK
<1>3. tx' \in Transaction /\ tx'.booking = tx.booking /\ tx'.answer = "error" /\ tx'.by = tx.by
  BY <1>1, <1>2 DEF Transaction
<1>4. tx.booking # NoBooking => tx.booking \in Placed
  BY <1>1, <1>2 DEF DispatchInv, CallIsBacked, Transaction
<1>5. Placed' = Placed /\ orphans \subseteq orphans' /\ orphans' \subseteq Placed
  BY <1>1, <1>4 DEF DispatchInv, DispatchTypeOK, Placed
<1>6. DispatchTypeOK'
  BY <1>1, <1>3, <1>5 DEF DispatchInv, DispatchTypeOK
<1>7. "error" \notin Active \cup TerminalStates
  BY DEF Active, TerminalStates
<1>8. CallIsBacked'
  BY <1>1, <1>3, <1>7 DEF DispatchInv, CallIsBacked
<1>9. tx' # NoTx
  BY <1>3 DEF Transaction, NoTx
<1>10. NoneBeside'
  BY <1>1, <1>3, <1>5, <1>9 DEF DispatchInv, NoneBeside, Accounted
<1>11. RowIsBacked' /\ DoorDashOnce' /\ PollIsBacked'
  BY <1>1, <1>5 DEF DispatchInv, RowIsBacked, DoorDashOnce, PollIsBacked
<1> QED BY <1>6, <1>8, <1>10, <1>11 DEF DispatchInv

\* A transaction that expires turns the booking of its call into an orphan.
LEMMA ExpiryKeeps ==
    ASSUME DispatchInv, TransactionExpires, UNCHANGED <<courierType, patching>>
    PROVE  DispatchInv'
<1>1. /\ tx # NoTx /\ tx' = NoTx /\ lost' \in 0..MaxLost
      /\ strays' = strays + (IF tx.answer = "none" THEN 1 ELSE 0)
      /\ orphans' = orphans \cup ({tx.booking} \ {NoBooking})
      /\ UNCHANGED <<orderStatus, row, courier, waiting, poll, heard, mishaps>>
  BY DispatchAssumption DEF TransactionExpires, DispatchInv, DispatchTypeOK
<1>2. ~row.dispatched /\ tx \in Transaction
  BY <1>1 DEF DispatchInv, CallIsBacked, DispatchTypeOK
<1>3. tx.booking # NoBooking => tx.booking \in Placed
  BY <1>1, <1>2 DEF DispatchInv, CallIsBacked, Transaction, DispatchTypeOK
<1>4. Placed' = Placed /\ orphans' \subseteq Placed /\ strays' \in Nat
  BY <1>1, <1>3 DEF DispatchInv, DispatchTypeOK, Placed
<1>5. DispatchTypeOK'
  BY <1>1, <1>4 DEF DispatchInv, DispatchTypeOK
<1>6. NoBooking \notin Placed
  BY DispatchAssumption DEF Placed
<1>7. NoneBeside'
  BY <1>1, <1>2, <1>4, <1>6 DEF DispatchInv, NoneBeside, Accounted
<1>8. RowIsBacked' /\ CallIsBacked' /\ DoorDashOnce' /\ PollIsBacked'
  BY <1>1, <1>4 DEF DispatchInv, RowIsBacked, CallIsBacked, DoorDashOnce, PollIsBacked
<1> QED BY <1>5, <1>7, <1>8 DEF DispatchInv

\* The upsert at the head of createFulfillment sets the external id and nothing
\* the proofs look at.
LEMMA StampedRow ==
    ASSUME DispatchTypeOK
    PROVE  /\ Stamped \in DeliveryRow /\ Stamped.external
           /\ Stamped.state = row.state /\ Stamped.dispatched = row.dispatched
           /\ Stamped.booking = row.booking
BY DEF DispatchTypeOK, Stamped, DeliveryRow

\* What is written with a booking is a row that names it.
LEMMA BookedRow ==
    ASSUME NEW r \in DeliveryRow, NEW b \in Bookings, r.external
    PROVE  LET p == [r EXCEPT !.dispatched = TRUE, !.booking = b, !.attempts = @ + 1]
           IN  p \in DeliveryRow /\ p.dispatched /\ p.external /\ p.booking = b
<1>1. r.attempts + 1 \in Nat
  BY DEF DeliveryRow
<1>2. ASSUME NEW n \in Nat
      PROVE  LET p == [r EXCEPT !.dispatched = TRUE, !.booking = b, !.attempts = n]
             IN  p \in DeliveryRow /\ p.dispatched /\ p.external /\ p.booking = b
  BY DEF DeliveryRow
<1> QED BY <1>1, <1>2

\* The answer is written down; what the row does not take becomes an orphan.
LEMMA RecordKeeps ==
    ASSUME DispatchInv, RecordsBooking, UNCHANGED <<courierType, patching>>
    PROVE  DispatchInv'
<1> DEFINE patch == [Stamped EXCEPT !.dispatched = TRUE, !.booking = tx.booking,
                                    !.attempts = @ + 1]
<1>1. /\ tx # NoTx /\ tx' = NoTx /\ tx.answer \in Active \cup TerminalStates
      /\ RecordTransition(Stamped, tx.answer, ActorOf(tx.by), patch, 0)
      /\ orphans' = IF row'.dispatched THEN orphans \ {tx.booking}
                    ELSE orphans \cup {tx.booking}
      /\ mishaps' \subseteq mishaps \cup {"silent"}
      /\ UNCHANGED <<courier, waiting, strays, poll, lost>>
  BY DEF RecordsBooking
<1>2. /\ tx.booking \in Placed /\ ~row.dispatched
      /\ Stamped \in DeliveryRow /\ Stamped.external /\ Stamped.dispatched = row.dispatched
  <2>1. tx.booking \in Placed /\ ~row.dispatched
    BY <1>1 DEF DispatchInv, CallIsBacked
  <2> QED BY <2>1, StampedRow DEF DispatchInv
<1>3. /\ patch \in DeliveryRow /\ patch.dispatched /\ patch.external
      /\ patch.booking = tx.booking
  <2>1. tx.booking \in Bookings
    BY <1>2 DEF Placed
  <2> QED BY <1>2, <2>1, BookedRow
<1> HIDE DEF patch
<1>4. /\ row' \in DeliveryRow /\ orderStatus' \in OrderStatuses /\ heard' \in 0..2
      /\ row' = Stamped \/ row' = [patch EXCEPT !.state = tx.answer]
  <2>1. DispatchTypeOK /\ tx.answer \in NormalizedStates /\ 0 \in 0..1
    BY <1>1, ReportsTyped DEF DispatchInv
  <2> QED BY <1>1, <1>2, <1>3, <2>1, RecordTyped
<1>5. Placed' = Placed /\ orphans' \subseteq Placed
  BY <1>1, <1>2 DEF DispatchInv, DispatchTypeOK, Placed
<1>6. DispatchTypeOK'
  BY <1>1, <1>4, <1>5 DEF DispatchInv, DispatchTypeOK, DispatchMishaps
<1>7. row'.dispatched => row'.external /\ row'.booking = tx.booking
  BY <1>2, <1>3, <1>4 DEF DeliveryRow
<1>8. RowIsBacked' /\ CallIsBacked' /\ DoorDashOnce' /\ PollIsBacked'
  BY <1>1, <1>2, <1>5, <1>7
     DEF DispatchInv, RowIsBacked, CallIsBacked, DoorDashOnce, PollIsBacked
<1>9. Placed \ orphans \subseteq {tx.booking}
  BY <1>1, <1>2 DEF DispatchInv, NoneBeside, Accounted
<1>10. NoneBeside'
  BY <1>1, <1>5, <1>7, <1>9 DEF NoneBeside, Accounted
<1> QED BY <1>6, <1>8, <1>10 DEF DispatchInv

\* The attempt failed.
LEMMA FailureKeeps ==
    ASSUME DispatchInv, RetriesLater \/ GivesUp, UNCHANGED <<courierType, patching>>
    PROVE  DispatchInv'
<1> DEFINE counted == [Stamped EXCEPT !.attempts = @ + 1]
<1>1. /\ Stamped \in DeliveryRow /\ Stamped.external /\ Stamped.dispatched = row.dispatched
      /\ Stamped.booking = row.booking
  BY StampedRow DEF DispatchInv
<1>2. /\ counted \in DeliveryRow /\ counted.dispatched = row.dispatched /\ counted.external
      /\ counted.booking = row.booking
  BY <1>1 DEF DeliveryRow
<1>3. /\ tx # NoTx /\ tx' = NoTx /\ tx.answer = "error"
      /\ row' \in DeliveryRow /\ orderStatus' \in OrderStatuses /\ heard' \in 0..2
      /\ row' \in {Stamped, counted} \/ row' = [counted EXCEPT !.state = "FAILED"]
      /\ mishaps' \subseteq mishaps \cup {"nagged"}
      /\ UNCHANGED <<courier, waiting, strays, poll, lost, orphans>>
  <2>1. CASE RetriesLater
    BY <1>2, <2>1 DEF RetriesLater, DispatchInv, DispatchTypeOK
  <2>2. CASE GivesUp
    <3>1. RecordTransition(Stamped, "FAILED", ActorOf(tx.by), counted, 1)
      BY <2>2 DEF GivesUp
    <3>2. "FAILED" \in NormalizedStates /\ 1 \in 0..1
      BY DEF NormalizedStates
    <3>3. /\ row' \in DeliveryRow /\ orderStatus' \in OrderStatuses /\ heard' \in 0..2
          /\ row' = Stamped \/ row' = [counted EXCEPT !.state = "FAILED"]
      BY <1>1, <1>2, <3>1, <3>2, RecordTyped DEF DispatchInv
    <3> QED BY <2>2, <3>3 DEF GivesUp
  <2> QED BY <2>1, <2>2
<1>4. ~row.dispatched /\ tx.booking \in orphans \cup {NoBooking}
  BY <1>3 DEF DispatchInv, CallIsBacked
<1>5. ~row'.dispatched
  BY <1>1, <1>2, <1>3, <1>4 DEF DeliveryRow
<1>6. Placed' = Placed
  BY <1>3 DEF Placed
<1>7. DispatchTypeOK'
  BY <1>3, <1>6 DEF DispatchInv, DispatchTypeOK, DispatchMishaps
<1>8. RowIsBacked' /\ CallIsBacked' /\ DoorDashOnce' /\ PollIsBacked'
  BY <1>3, <1>5, <1>6
     DEF DispatchInv, RowIsBacked, CallIsBacked, DoorDashOnce, PollIsBacked
<1>9. NoneBeside'
  BY <1>3, <1>4, <1>6, DispatchAssumption DEF DispatchInv, NoneBeside, Accounted, Placed
<1> QED BY <1>7, <1>8, <1>9 DEF DispatchInv

\* A booking only ever changes into another state of a booking.
LEMMA RidePlaced ==
    ASSUME DispatchTypeOK, NEW b \in Placed, NEW to \in BookingStates \ {"none"},
           courier' = [courier EXCEPT ![b] = to]
    PROVE  Placed' = Placed /\ courier' \in [Bookings -> BookingStates]
BY DEF DispatchTypeOK, Placed

\* Actions that move the courier, or end a call nobody waits for.
LEMMA RideKeeps ==
    ASSUME DispatchInv, Placed' = Placed, courier' \in [Bookings -> BookingStates],
           strays' \in Nat, lost' \in 0..MaxLost,
           UNCHANGED <<courierType, patching, orderStatus, row, waiting, tx, poll, heard, orphans, mishaps>>
    PROVE  DispatchInv'
BY DEF DispatchInv, DispatchTypeOK, RowIsBacked, CallIsBacked, NoneBeside, DoorDashOnce,
       PollIsBacked, Accounted

\* A cancellation changes the state of a placed booking, if any.
LEMMA KnownPlaced ==
    ASSUME DispatchInv, CourierCancels \/ UNCHANGED courier
    PROVE  Placed' = Placed /\ courier' \in [Bookings -> BookingStates]
<1>1. CASE UNCHANGED courier
  BY <1>1 DEF DispatchInv, DispatchTypeOK, Placed
<1>2. CASE CourierCancels
  <2>1. PICK b \in Known : /\ courier[b] \in {"REQUESTED", "CONFIRMED"}
                           /\ courier' = [courier EXCEPT ![b] = "CANCELLED"]
    BY <1>2 DEF CourierCancels
  <2>2. b \in Placed
    <3>1. row.booking \in Bookings \cup {NoBooking}
      BY DEF DispatchInv, DispatchTypeOK, DeliveryRow
    <3> QED BY <2>1, <3>1 DEF Known, Placed
  <2>3. "CANCELLED" \in BookingStates \ {"none"}
    BY DEF BookingStates
  <2> QED BY <2>1, <2>2, <2>3, RidePlaced DEF DispatchInv
<1> QED BY <1>1, <1>2

\* A cancellation, completed or aborted, keeps the invariant.
LEMMA CancelKeeps ==
    ASSUME DispatchInv, SellerCancels \/ CancelAborts, UNCHANGED <<courierType, patching>>
    PROVE  DispatchInv'
<1>1. tx = NoTx /\ (CourierCancels \/ UNCHANGED courier)
      /\ UNCHANGED <<waiting, tx, strays, poll, orphans, mishaps>>
      /\ lost' \in 0..MaxLost
  BY DispatchAssumption DEF SellerCancels, CancelAborts, MayCancel, DispatchInv, DispatchTypeOK
<1>2. Placed' = Placed /\ courier' \in [Bookings -> BookingStates]
  BY <1>1, KnownPlaced
<1>3. /\ row' \in DeliveryRow /\ orderStatus' \in OrderStatuses /\ heard' \in 0..2
      /\ row'.dispatched = row.dispatched /\ row'.external = row.external
      /\ row'.booking = row.booking
  <2>1. CASE SellerCancels
    <3>1. RecordTransition(row, "CANCELLED", "MERCHANT", row, 0)
          /\ "CANCELLED" \in NormalizedStates
      BY <2>1 DEF SellerCancels, NormalizedStates
    <3> QED BY <3>1, RecordKeepsBooking DEF DispatchInv
  <2>2. CASE CancelAborts
    BY <2>2 DEF CancelAborts, DispatchInv, DispatchTypeOK
  <2> QED BY <2>1, <2>2
<1>4. DispatchTypeOK'
  BY <1>1, <1>2, <1>3 DEF DispatchInv, DispatchTypeOK
<1>5. RowIsBacked' /\ CallIsBacked' /\ NoneBeside' /\ DoorDashOnce' /\ PollIsBacked'
  BY <1>1, <1>2, <1>3 DEF DispatchInv, RowIsBacked, CallIsBacked, NoneBeside, DoorDashOnce,
                          PollIsBacked, Accounted
<1> QED BY <1>4, <1>5 DEF DispatchInv

\* Couriers riding on, and stray calls ending, keep the invariant.
LEMMA RidesOn ==
    ASSUME DispatchInv, UNCHANGED <<courierType, patching>>,
           StrayEnds \/ \E b \in Bookings, to \in Reports : CourierMoves(b, to)
    PROVE  DispatchInv'
<1>1. CASE StrayEnds
  <2>1. /\ courier' = courier /\ strays' \in Nat /\ lost' \in 0..MaxLost
        /\ UNCHANGED <<orderStatus, row, waiting, tx, poll, heard, orphans, mishaps>>
    BY <1>1 DEF StrayEnds, DispatchInv, DispatchTypeOK
  <2>2. Placed' = Placed /\ courier' \in [Bookings -> BookingStates]
    BY <2>1 DEF Placed, DispatchInv, DispatchTypeOK
  <2> QED BY <2>1, <2>2, RideKeeps
<1>2. CASE \E b \in Bookings, to \in Reports : CourierMoves(b, to)
  <2>1. PICK b \in Bookings, to \in Reports : CourierMoves(b, to)
    BY <1>2
  <2>2. /\ courier' = [courier EXCEPT ![b] = to] /\ b \in Placed
        /\ strays' \in Nat /\ lost' \in 0..MaxLost
        /\ UNCHANGED <<orderStatus, row, waiting, tx, poll, heard, orphans, mishaps>>
    BY <2>1 DEF CourierMoves, Placed, Active, DispatchInv, DispatchTypeOK
  <2>3. to \in BookingStates \ {"none"}
    BY DispatchAssumption DEF BookingStates, TerminalStates
  <2>4. Placed' = Placed /\ courier' \in [Bookings -> BookingStates]
    BY <2>2, <2>3, RidePlaced DEF DispatchInv
  <2> QED BY <2>2, <2>4, RideKeeps
<1> QED BY <1>1, <1>2

\* The seller's PATCH, a refund or a cancellation, which move the order, know nothing of
\* bookings.
LEMMA OrderKeeps ==
    ASSUME DispatchInv, (OrderCloses /\ UNCHANGED patching) \/ Patches, UNCHANGED courierType
    PROVE  DispatchInv'
<1> USE DEF DispatchInv, DispatchTypeOK
<1>1. UNCHANGED <<courierType, row, courier, waiting, tx, strays, poll, lost, orphans>>
  BY DEF OrderCloses, Patches, ReadsPatch, CommitsPatch, PatchDies
<1>2. \A s \in OrderStatuses : SellerMoves[s] \subseteq OrderStatuses \ {"MOVED"}
  BY DEF SellerMoves, OrderStatuses
<1>3. orderStatus' \in OrderStatuses
  BY DEF OrderCloses, Patches, ReadsPatch, CommitsPatch, PatchDies, OrderStatuses
<1>4. patching' \in (OrderStatuses \ {"MOVED"}) \cup {"none"}
  BY <1>2 DEF OrderCloses, Patches, ReadsPatch, CommitsPatch, PatchDies
<1>5. heard' \in 0..2 /\ mishaps' \subseteq DispatchMishaps
  <2>1. CASE CommitsPatch /\ patching = "DELIVERED"
    <3>1. \A n \in 0..2 : AtMost2(n + 1) \in 0..2
      BY DEF AtMost2
    <3>2. heard' = AtMost2(heard + 1) /\ mishaps' = mishaps \cup {"byhand"}
      BY <2>1 DEF CommitsPatch
    <3>3. mishaps' \subseteq DispatchMishaps
      BY <3>2 DEF DispatchMishaps
    <3> QED BY <3>1, <3>2, <3>3
  <2>2. CASE ~(CommitsPatch /\ patching = "DELIVERED")
    BY <2>2 DEF OrderCloses, Patches, ReadsPatch, CommitsPatch, PatchDies
  <2> QED BY <2>1, <2>2
<1>6. Placed' = Placed
  BY <1>1 DEF Placed
<1>7. DispatchTypeOK'
  BY <1>1, <1>3, <1>4, <1>5, <1>6
<1>8. RowIsBacked' /\ CallIsBacked' /\ NoneBeside' /\ DoorDashOnce' /\ PollIsBacked'
  BY <1>1, <1>6 DEF RowIsBacked, CallIsBacked, NoneBeside, DoorDashOnce, PollIsBacked, Accounted
<1> QED BY <1>7, <1>8

\* Every step of a dispatch keeps the invariant.
LEMMA DispatchStep == DispatchInv /\ [DispatchNext]_dispatchVars => DispatchInv'
<1> SUFFICES ASSUME DispatchInv, [DispatchNext]_dispatchVars
             PROVE  DispatchInv'
  OBVIOUS
<1>1. CASE UNCHANGED dispatchVars
  BY <1>1 DEF dispatchVars, legVars, DispatchInv, DispatchTypeOK, RowIsBacked, CallIsBacked,
              NoneBeside, DoorDashOnce, PollIsBacked, Accounted, Placed
<1>2. CASE Creates /\ UNCHANGED <<courierType, patching>>
  <2>1. CASE TickSelects \/ \E c \in Clicks : SellerRequests(c)
    <3>1. /\ UNCHANGED <<courierType, patching, row, courier, tx, strays, lost, heard, orphans, mishaps>>
          /\ UNCHANGED <<orderStatus, poll>> /\ waiting' \subseteq Callers
      BY <1>2, <2>1 DEF TickSelects, SellerRequests, Callers, DispatchInv, DispatchTypeOK
    <3>2. /\ orderStatus' \in OrderStatuses /\ poll' \in BookingStates
          /\ poll' # "none" => Placed # {}
      BY <3>1 DEF DispatchInv, DispatchTypeOK, PollIsBacked
    <3> QED BY <3>1, <3>2, BookkeepingKeeps
  <2>2. CASE \E c \in Callers : Reconciles(c)
    <3>1. PICK c \in Callers : Reconciles(c)
      BY <2>2
    <3>2. /\ tx = NoTx /\ row.dispatched /\ waiting' \subseteq waiting
          /\ \/ RecordTransition(row, courier[row.booking], "CRON", row, 0)
             \/ UNCHANGED <<row, orderStatus, heard>>
          /\ UNCHANGED <<courier, tx, strays, poll, lost, orphans, mishaps>>
      BY <3>1 DEF Reconciles, Enters
    <3>3. courier[row.booking] \in NormalizedStates
      BY <3>2, ReportsTyped DEF DispatchInv, RowIsBacked, DispatchTypeOK, Placed
    <3> QED BY <1>2, <3>2, <3>3, FoldKeeps
  <2>3. CASE \E c \in Callers : NothingToDispatch(c)
    <3>1. /\ UNCHANGED <<courierType, patching, row, courier, tx, strays, lost, heard, orphans, mishaps>>
          /\ UNCHANGED <<orderStatus, poll>> /\ waiting' \subseteq Callers
      BY <1>2, <2>3 DEF NothingToDispatch, Enters, DispatchInv, DispatchTypeOK
    <3>2. /\ orderStatus' \in OrderStatuses /\ poll' \in BookingStates
          /\ poll' # "none" => Placed # {}
      BY <3>1 DEF DispatchInv, DispatchTypeOK, PollIsBacked
    <3> QED BY <3>1, <3>2, BookkeepingKeeps
  <2>4. CASE \E c \in Callers : CallsCourier(c)
    BY <1>2, <2>4, CallStarts
  <2>5. CASE \E b \in Bookings : CourierBooks(b)
    BY <1>2, <2>5, BookKeeps
  <2>6. CASE \E b \in Bookings : FindsDuplicate(b)
    BY <1>2, <2>6, DuplicateKeeps
  <2>7. CASE \E b \in Bookings : StrayBooks(b)
    BY <1>2, <2>7, StrayKeeps
  <2>8. CASE CourierRefuses \/ AnswerLost
    BY <1>2, <2>8, ErrorKeeps
  <2>9. CASE TransactionExpires
    BY <1>2, <2>9, ExpiryKeeps
  <2>10. CASE StrayEnds
    BY <1>2, <2>10, RidesOn
  <2>11. CASE RecordsBooking
    BY <1>2, <2>11, RecordKeeps
  <2>12. CASE RetriesLater \/ GivesUp
    BY <1>2, <2>12, FailureKeeps
  <2> QED BY <1>2, <2>1, <2>2, <2>3, <2>4, <2>5, <2>6, <2>7, <2>8, <2>9, <2>10, <2>11, <2>12
          DEF Creates
<1>3. CASE Follows /\ UNCHANGED <<courierType, patching>>
  <2>1. CASE \E b \in Bookings : WebhookReports(b)
    <3>1. PICK b \in Bookings : WebhookReports(b)
      BY <2>1
    <3>2. /\ tx = NoTx /\ courier[b] \in NormalizedStates
          /\ RecordTransition(row, courier[b], "PROVIDER", row, 0)
          /\ UNCHANGED <<courier, waiting, tx, strays, poll, lost, orphans, mishaps>>
      BY <3>1, ReportsTyped DEF WebhookReports
    <3> QED BY <1>3, <3>2, FoldKeeps
  <2>2. CASE \E b \in Bookings, to \in Reports : CourierMoves(b, to)
    BY <1>3, <2>2, RidesOn
  <2>3. CASE PollReads
    <3>1. /\ UNCHANGED <<courierType, patching, row, courier, tx, strays, lost, heard, orphans, mishaps>>
          /\ UNCHANGED <<orderStatus, waiting>>
          /\ row.dispatched /\ poll' = courier[row.booking]
      BY <1>3, <2>3 DEF PollReads
    <3>2. /\ orderStatus' \in OrderStatuses /\ waiting' \subseteq Callers
          /\ poll' \in BookingStates /\ Placed # {}
      BY <3>1 DEF DispatchInv, DispatchTypeOK, RowIsBacked, Placed
    <3> QED BY <3>1, <3>2, BookkeepingKeeps
  <2>4. CASE PollFolds
    <3>1. /\ tx = NoTx /\ poll # "none" /\ poll' = "none"
          /\ RecordTransition(row, poll, "CRON", row, 0)
          /\ UNCHANGED <<courier, waiting, tx, strays, lost, orphans, mishaps>>
      BY <2>4 DEF PollFolds
    <3>2. poll \in NormalizedStates
      BY <3>1, ReportsTyped DEF DispatchInv, DispatchTypeOK
    <3> QED BY <1>3, <3>1, <3>2, FoldKeeps
  <2>5. CASE SellerCancels \/ CancelAborts
    BY <1>3, <2>5, CancelKeeps
  <2> QED BY <1>3, <2>1, <2>2, <2>3, <2>4, <2>5 DEF Follows
<1>4. CASE ((OrderCloses /\ UNCHANGED patching) \/ Patches) /\ UNCHANGED courierType
  BY <1>4, OrderKeeps
<1> QED BY <1>1, <1>2, <1>3, <1>4 DEF DispatchNext

\* The invariant holds of every dispatch: what the row says of a courier is so, a call
\* under way means none is recorded, and beside the orphans there is one booking.
THEOREM DispatchInvariant == DispatchSpec => []DispatchInv
BY DispatchStart, DispatchStep, PTL DEF DispatchSpec

\* For any number of requests, bookings, attempts and losses: a recorded courier is the
\* only one that was not orphaned, and DoorDash never gets two.
THEOREM OneCourierAlways == DispatchSpec => []OneCourier
<1>1. DispatchInv => OneCourier
  <2> SUFFICES ASSUME DispatchInv PROVE OneCourier
    OBVIOUS
  <2>1. ASSUME NEW S, NEW x, S \subseteq {x} PROVE Cardinality(S) <= 1
    <3>1. S = {} \/ S = {x}
      BY <2>1
    <3>2. Cardinality({}) = 0 /\ Cardinality({x}) = 1
      BY FS_EmptySet, FS_Singleton
    <3> QED BY <3>1, <3>2
  <2>2. Placed \ orphans \subseteq {row.booking} \/ Placed \ orphans \subseteq {tx.booking}
    BY DEF DispatchInv, NoneBeside, Accounted
  <2>3. courierType = "DOORDASH" => \E x : Placed \subseteq {x}
    BY DEF DispatchInv, DoorDashOnce
  <2> QED BY <2>1, <2>2, <2>3 DEF OneCourier
<1> QED BY <1>1, DispatchInvariant, PTL

-----------------------------------------------------------------------------
(* What the customer hears.                                                 *)

\* Before the end nobody is told, unless a failing request of the seller or the seller's
\* PATCH did: this is what makes the mail at the end the first one.
ToldByDelivery == mishaps \cap {"nagged", "byhand"} = {}

ToldInv ==
    /\ row.state \notin TerminalStates /\ ToldByDelivery => heard = 0
    /\ CustomerToldOnce

\* An end is the last state a delivery records.
LEMMA EndsStand ==
    ASSUME NEW from \in TerminalStates, NEW to, NEW actor \in Actors, to # "PENDING"
    PROVE  ~CanTransition(from, to, actor)
BY DEF CanTransition, SystemMay, MerchantMay, CourierMay, MerchantPath, TerminalStates, Actors

\* A report, written down with nothing else to tell.
LEMMA ReportTells ==
    ASSUME DispatchInv, ToldInv, NEW old \in DeliveryRow, NEW patch \in DeliveryRow,
           NEW to \in Active \cup TerminalStates, NEW actor \in Actors,
           RecordTransition(old, to, actor, patch, 0), old.state = row.state,
           mishaps \subseteq mishaps',
           /\ CanTransition(old.state, to, actor)
           /\ to = "FAILED" /\ actor \notin {"PROVIDER", "CRON"}
           => "silent" \in mishaps'
    PROVE  ToldInv'
<1>1. heard \in 0..2
  BY DEF DispatchInv, DispatchTypeOK
<1>2. CASE CanTransition(old.state, to, actor)
  <2>1. row'.state = to /\ to # "PENDING"
    BY <1>2 DEF RecordTransition, DeliveryRow, Active, TerminalStates
  <2>2. row.state \notin TerminalStates
    BY <1>2, <2>1, EndsStand
  <2>3. ToldByDelivery' => heard = 0
    BY <2>2 DEF ToldInv, ToldByDelivery
  <2>4. heard' = AtMost2(heard + IF TellsCustomer(to, actor) THEN 1 ELSE 0)
    BY <1>1, <1>2 DEF RecordTransition
  <2>5. CASE TellsCustomer(to, actor)
    <3>1. heard' > 0 /\ (ToldByDelivery' => heard' = 1)
      BY <1>1, <2>3, <2>4, <2>5 DEF AtMost2
    <3>2. to \in TerminalStates
      BY <2>5 DEF TellsCustomer, TerminalStates
    <3> QED BY <2>1, <3>1, <3>2 DEF ToldInv, ToldByDelivery, CustomerToldOnce
  <2>6. CASE ~TellsCustomer(to, actor)
    <3>1. heard' = heard
      BY <1>1, <2>4, <2>6 DEF AtMost2
    <3>2. to # "DELIVERED" /\ (to = "FAILED" => "silent" \in mishaps')
      BY <1>2, <2>6 DEF TellsCustomer
    <3> QED BY <2>1, <2>3, <3>1, <3>2 DEF ToldInv, ToldByDelivery, CustomerToldOnce
  <2> QED BY <2>5, <2>6
<1>3. CASE ~CanTransition(old.state, to, actor)
  <2>1. row'.state = row.state /\ heard' = heard
    BY <1>1, <1>3 DEF RecordTransition, AtMost2
  <2> QED BY <2>1 DEF ToldInv, ToldByDelivery, CustomerToldOnce
<1> QED BY <1>2, <1>3

\* Steps that neither write the delivery's state nor tell anybody.
LEMMA SilenceTells ==
    ASSUME ToldInv, row'.state = row.state, heard' = heard, mishaps' = mishaps
    PROVE  ToldInv'
BY DEF ToldInv, ToldByDelivery, CustomerToldOnce

\* A dispatch that recorded the booking's failure tells nobody; the mishap says so.
LEMMA RecordTells ==
    ASSUME DispatchInv, ToldInv, RecordsBooking
    PROVE  ToldInv'
<1> DEFINE patch == [Stamped EXCEPT !.dispatched = TRUE, !.booking = tx.booking,
                                    !.attempts = @ + 1]
<1>1. /\ tx # NoTx /\ tx.answer \in Active \cup TerminalStates
      /\ RecordTransition(Stamped, tx.answer, ActorOf(tx.by), patch, 0)
      /\ mishaps' = mishaps \cup
           IF row'.dispatched /\ tx.answer \in {"FAILED", "CANCELLED"} THEN {"silent"} ELSE {}
  BY DEF RecordsBooking
<1>2. tx.booking \in Bookings
  BY <1>1 DEF DispatchInv, CallIsBacked, Placed
<1>3. Stamped \in DeliveryRow /\ Stamped.external /\ Stamped.state = row.state
  BY StampedRow DEF DispatchInv
<1>4. /\ patch \in DeliveryRow /\ patch.dispatched /\ patch.external
      /\ patch.booking = tx.booking
  <2>1. \A r \in DeliveryRow, k \in Bookings : r.external =>
          LET p == [r EXCEPT !.dispatched = TRUE, !.booking = k, !.attempts = @ + 1]
          IN  p \in DeliveryRow /\ p.dispatched /\ p.external /\ p.booking = k
    BY BookedRow
  <2> QED BY <1>2, <1>3, <2>1, Zenon
<1>5. ActorOf(tx.by) \in Actors
  BY DEF ActorOf, Actors
<1> HIDE DEF patch
<1>6. CanTransition(Stamped.state, tx.answer, ActorOf(tx.by)) => row'.dispatched
  BY <1>1, <1>4 DEF RecordTransition, DeliveryRow
<1> QED BY <1>1, <1>3, <1>4, <1>5, <1>6, ReportTells

\* The last attempt tells the customer itself: the tick's ends the delivery with it, the
\* seller's cannot.
LEMMA GivingUpTells ==
    ASSUME DispatchInv, ToldInv, GivesUp
    PROVE  ToldInv'
<1> DEFINE counted == [Stamped EXCEPT !.attempts = @ + 1]
<1>1. /\ tx # NoTx /\ mishaps' = mishaps \cup (IF tx.by # Tick THEN {"nagged"} ELSE {})
      /\ RecordTransition(Stamped, "FAILED", ActorOf(tx.by), counted, 1)
  BY DEF GivesUp
<1>2. Stamped \in DeliveryRow /\ Stamped.state = row.state /\ heard \in 0..2
  BY StampedRow DEF DispatchInv, DispatchTypeOK
<1>3. counted \in DeliveryRow
  BY <1>2 DEF DeliveryRow
<1> HIDE DEF counted
<1>4. ~TellsCustomer("FAILED", ActorOf(tx.by))
  BY DEF TellsCustomer, ActorOf
<1>5. heard' = AtMost2(heard + 1)
  BY <1>1, <1>2, <1>4 DEF RecordTransition
<1>6. heard' > 0 /\ (heard = 0 => heard' = 1)
  BY <1>2, <1>5 DEF AtMost2
<1>7. CASE tx.by # Tick
  BY <1>1, <1>6, <1>7 DEF ToldInv, ToldByDelivery, CustomerToldOnce
<1>8. CASE tx.by = Tick
  <2>1. row.state = "PENDING" /\ ActorOf(tx.by) = "SYSTEM"
    BY <1>1, <1>8 DEF DispatchInv, CallIsBacked, ActorOf
  <2>2. CanTransition(Stamped.state, "FAILED", "SYSTEM")
    BY <1>2, <2>1 DEF CanTransition, SystemMay, Rank, TerminalStates
  <2>3. row'.state = "FAILED"
    BY <1>1, <1>3, <2>1, <2>2 DEF RecordTransition, DeliveryRow
  <2>4. ToldByDelivery' => heard = 0
    BY <1>1, <2>1 DEF ToldInv, ToldByDelivery, TerminalStates
  <2> QED BY <1>6, <2>3, <2>4 DEF ToldInv, ToldByDelivery, CustomerToldOnce, TerminalStates
<1> QED BY <1>7, <1>8

\* Reconciles, webhooks and folded polls write down what a courier's booking is in; the
\* seller's cancellation is the seller's own doing.
LEMMA FoldTells ==
    ASSUME DispatchInv, ToldInv,
           \/ \E c \in Callers : Reconciles(c)
           \/ \E b \in Bookings : WebhookReports(b)
           \/ PollFolds \/ SellerCancels
    PROVE  ToldInv'
<1>1. row \in DeliveryRow /\ mishaps' = mishaps
  BY DEF Reconciles, WebhookReports, PollFolds, SellerCancels, DispatchInv, DispatchTypeOK
<1>2. ASSUME NEW to \in Active \cup TerminalStates, NEW actor \in Actors,
             RecordTransition(row, to, actor, row, 0),
             actor \in {"PROVIDER", "CRON"} \/ to # "FAILED"
      PROVE  ToldInv'
  BY <1>1, <1>2, ReportTells
<1>3. {"PROVIDER", "CRON", "MERCHANT"} \subseteq Actors
  BY DEF Actors
<1>4. CASE \E c \in Callers : Reconciles(c)
  <2>1. row.dispatched /\ (\/ RecordTransition(row, courier[row.booking], "CRON", row, 0)
                           \/ UNCHANGED <<row, orderStatus, heard>>)
    BY <1>4 DEF Reconciles
  <2>2. courier[row.booking] \in Active \cup TerminalStates
    BY <2>1, ReportsTyped DEF DispatchInv, RowIsBacked, DispatchTypeOK, Placed
  <2> QED BY <1>1, <1>2, <1>3, <2>1, <2>2, SilenceTells
<1>5. CASE \E b \in Bookings : WebhookReports(b)
  BY <1>2, <1>3, <1>5 DEF WebhookReports
<1>6. CASE PollFolds
  <2>1. poll \in Active \cup TerminalStates
    BY <1>6, ReportsTyped DEF PollFolds, DispatchInv, DispatchTypeOK
  <2> QED BY <1>2, <1>3, <1>6, <2>1 DEF PollFolds
<1>7. CASE SellerCancels
  BY <1>2, <1>3, <1>7 DEF SellerCancels, TerminalStates
<1> QED BY <1>4, <1>5, <1>6, <1>7

\* Everything else.
LEMMA NothingWritten ==
    LET Quiet == UNCHANGED <<row, heard, mishaps>>
    IN  /\ \A c : SellerRequests(c) \/ NothingToDispatch(c) \/ CallsCourier(c) => Quiet
        /\ \A b : CourierBooks(b) \/ FindsDuplicate(b) \/ StrayBooks(b) => Quiet
        /\ \A b, to : CourierMoves(b, to) => Quiet
        /\ \A to : ReadsPatch(to) => Quiet
        /\ PatchDies \/ OrderCloses => Quiet
        /\ TickSelects \/ CourierRefuses \/ AnswerLost \/ TransactionExpires => Quiet
        /\ StrayEnds \/ PollReads \/ CancelAborts \/ UNCHANGED dispatchVars => Quiet
<1> DEFINE Quiet == UNCHANGED <<row, heard, mishaps>>
<1>1. \A c : SellerRequests(c) \/ NothingToDispatch(c) \/ CallsCourier(c) => Quiet
  BY DEF SellerRequests, NothingToDispatch, CallsCourier
<1>2. \A b : CourierBooks(b) => Quiet
  BY DEF CourierBooks
<1>3. \A b : FindsDuplicate(b) => Quiet
  BY DEF FindsDuplicate
<1>4. \A b : StrayBooks(b) => Quiet
  BY DEF StrayBooks
<1>5. \A b, to : CourierMoves(b, to) => Quiet
  BY DEF CourierMoves
<1>6. (\A to : ReadsPatch(to) => Quiet) /\ (PatchDies \/ OrderCloses => Quiet)
  BY DEF ReadsPatch, PatchDies, OrderCloses
<1>7. TickSelects \/ CourierRefuses \/ AnswerLost \/ TransactionExpires => Quiet
  BY DEF TickSelects, CourierRefuses, AnswerLost, TransactionExpires
<1>8. StrayEnds \/ PollReads \/ CancelAborts \/ UNCHANGED dispatchVars => Quiet
  BY DEF StrayEnds, PollReads, CancelAborts, dispatchVars, legVars
<1> QED BY <1>1, <1>2, <1>3, <1>4, <1>5, <1>6, <1>7, <1>8

\* The steps that send no e-mail about an end and end no delivery keep ToldInv.
LEMMA NothingToTell ==
    ASSUME DispatchInv, ToldInv,
           \/ TickSelects \/ \E c \in Clicks : SellerRequests(c)
           \/ \E c \in Callers : NothingToDispatch(c) \/ CallsCourier(c)
           \/ \E b \in Bookings : CourierBooks(b) \/ FindsDuplicate(b) \/ StrayBooks(b)
           \/ CourierRefuses \/ AnswerLost \/ TransactionExpires \/ StrayEnds
           \/ RetriesLater \/ PollReads \/ CancelAborts
           \/ \E b \in Bookings, to \in Reports : CourierMoves(b, to)
           \/ \E to \in OrderStatuses : ReadsPatch(to)
           \/ PatchDies \/ OrderCloses
           \/ UNCHANGED dispatchVars
    PROVE  ToldInv'
<1>1. CASE RetriesLater
  <2>1. heard' = heard /\ mishaps' = mishaps
    BY <1>1 DEF RetriesLater
  <2>2. row'.state = row.state
    BY <1>1, StampedRow DEF RetriesLater, DispatchInv, DeliveryRow
  <2> QED BY <2>1, <2>2, SilenceTells
<1>2. CASE ~RetriesLater
  <2>1. UNCHANGED <<row, heard, mishaps>>
    BY <1>2, NothingWritten
  <2> QED BY <2>1, SilenceTells
<1> QED BY <1>1, <1>2

\* The seller's PATCH tells the customer itself when it sets the order to DELIVERED.
LEMMA PatchTells ==
    ASSUME DispatchInv, ToldInv, CommitsPatch
    PROVE  ToldInv'
<1>1. row' = row
  BY DEF CommitsPatch
<1>2. CASE patching = "DELIVERED"
  <2>1. heard \in 0..2
    BY DEF DispatchInv, DispatchTypeOK
  <2>2. heard' > 0 /\ "byhand" \in mishaps' /\ mishaps \subseteq mishaps'
    BY <1>2, <2>1 DEF CommitsPatch, AtMost2
  <2> QED BY <1>1, <2>2 DEF ToldInv, ToldByDelivery, CustomerToldOnce
<1>3. CASE patching # "DELIVERED"
  BY <1>1, <1>3, SilenceTells DEF CommitsPatch
<1> QED BY <1>2, <1>3

\* For any number of requests, ticks, polls, webhooks and attempts: the customer hears of
\* the end once, whoever saw it first, but for the three mishaps the property names.
THEOREM CustomerToldOnceAlways == DispatchSpec => []CustomerToldOnce
<1>1. DispatchInit => ToldInv
  BY DEF DispatchInit, ToldInv, CustomerToldOnce
<1>2. DispatchInv /\ ToldInv /\ [DispatchNext]_dispatchVars => ToldInv'
  BY RecordTells, GivingUpTells, FoldTells, NothingToTell, PatchTells
     DEF DispatchNext, Creates, Follows, Patches
<1>3. ToldInv => CustomerToldOnce
  BY DEF ToldInv
<1> QED BY <1>1, <1>2, <1>3, DispatchInvariant, PTL DEF DispatchSpec

-----------------------------------------------------------------------------
(* The refinement.                                                          *)

\* DeliveryLeg's rules are the ones of FulfillmentRules.
LEMMA SameRules ==
    /\ \A from, to, actor : Leg!CanTransition(from, to, actor) <=> CanTransition(from, to, actor)
    /\ \A to, old : Leg!OrderStatusAfter(to, old) = OrderStatusAfter(to, old)
    /\ Leg!NormalizedStates = NormalizedStates
<1>1. Leg!Rank = Rank /\ Leg!TerminalStates = TerminalStates /\ Leg!MerchantPath = MerchantPath
  BY DEF Leg!Rank, Rank, Leg!TerminalStates, TerminalStates, Leg!MerchantPath, MerchantPath
<1>2. \A from, to, actor : Leg!CanTransition(from, to, actor) <=> CanTransition(from, to, actor)
  BY <1>1 DEF Leg!CanTransition, CanTransition, Leg!SystemMay, SystemMay, Leg!MerchantMay,
              MerchantMay, Leg!CourierMay, CourierMay
<1>3. \A to, old : Leg!OrderStatusAfter(to, old) = OrderStatusAfter(to, old)
  BY DEF Leg!OrderStatusAfter, OrderStatusAfter
<1>4. Leg!NormalizedStates = NormalizedStates
  BY DEF Leg!NormalizedStates, NormalizedStates
<1> QED BY <1>2, <1>3, <1>4

LegStep == [Leg!LegNext]_(Leg!deliveryLegVars)

\* Whatever is not written down is not seen.
LEMMA LegStutters ==
    ASSUME row'.state = row.state, orderStatus' = orderStatus, (Placed' # {}) <=> (Placed # {})
    PROVE  LegStep
BY DEF LegStep, Leg!deliveryLegVars

\* What a dispatch, a poll or a webhook writes down is a report of the courier.
LEMMA LegReported ==
    ASSUME NEW old \in DeliveryRow, NEW patch \in DeliveryRow, NEW to \in Active \cup TerminalStates,
           NEW actor \in {"SYSTEM", "MERCHANT", "PROVIDER", "CRON"}, NEW mails,
           RecordTransition(old, to, actor, patch, mails), old.state = row.state,
           Placed # {}, Placed' = Placed
    PROVE  LegStep
<1>1. CASE CanTransition(old.state, to, actor)
  <2>1. old.state \in NormalizedStates /\ to \in NormalizedStates
    BY ReportsTyped DEF DeliveryRow
  <2>2. CanTransition(row.state, to, "PROVIDER")
    BY <1>1, <2>1, CourierMayRecord
  <2>3. row'.state = to /\ orderStatus' = OrderStatusAfter(to, orderStatus)
    BY <1>1 DEF RecordTransition, DeliveryRow
  <2>4. Leg!Reported(to)
    BY <2>2, <2>3, SameRules DEF Leg!Reported, Leg!LegMoves
  <2> QED BY <2>1, <2>4, SameRules DEF LegStep, Leg!LegNext
<1>2. CASE ~CanTransition(old.state, to, actor)
  BY <1>2, LegStutters DEF RecordTransition
<1> QED BY <1>1, <1>2

\* A dispatch given up is a failure the leg allows, or a stutter.
LEMMA LegGivenUp ==
    ASSUME DispatchInv, GivesUp
    PROVE  LegStep
<1> DEFINE counted == [Stamped EXCEPT !.attempts = @ + 1]
<1>1. /\ tx # NoTx /\ Placed' = Placed
      /\ RecordTransition(Stamped, "FAILED", ActorOf(tx.by), counted, 1)
  BY DEF GivesUp, Placed
<1>2. Stamped \in DeliveryRow /\ Stamped.state = row.state
  BY StampedRow DEF DispatchInv
<1>3. counted \in DeliveryRow
  BY <1>2 DEF DeliveryRow
<1> HIDE DEF counted
<1>4. CASE CanTransition(row.state, "FAILED", ActorOf(tx.by))
  <2>1. tx.by = Tick
    BY <1>2, <1>4, SellerCannotFail DEF ActorOf, DeliveryRow
  <2>2. row.state = "PENDING"
    BY <1>1, <2>1 DEF DispatchInv, CallIsBacked
  <2>3. row'.state = "FAILED" /\ orderStatus' = OrderStatusAfter("FAILED", orderStatus)
    BY <1>1, <1>2, <1>3, <1>4 DEF RecordTransition, DeliveryRow
  <2> QED BY <1>1, <2>2, <2>3, SameRules DEF LegStep, Leg!LegNext, Leg!GivenUp, Leg!LegMoves
<1>5. CASE ~CanTransition(row.state, "FAILED", ActorOf(tx.by))
  BY <1>1, <1>2, <1>5, LegStutters DEF RecordTransition
<1> QED BY <1>4, <1>5

\* A seller's cancellation is one of the leg.
LEMMA LegCancelled ==
    ASSUME DispatchInv, SellerCancels
    PROVE  LegStep
<1>1. RecordTransition(row, "CANCELLED", "MERCHANT", row, 0) /\ Placed' = Placed
  BY KnownPlaced DEF SellerCancels
<1>2. CASE CanTransition(row.state, "CANCELLED", "MERCHANT")
  <2>1. row'.state = "CANCELLED" /\ orderStatus' = OrderStatusAfter("CANCELLED", orderStatus)
    BY <1>1, <1>2 DEF RecordTransition, DispatchInv, DispatchTypeOK, DeliveryRow
  <2> QED BY <1>1, <1>2, <2>1, SameRules DEF LegStep, Leg!LegNext, Leg!Cancelled, Leg!LegMoves
<1>3. CASE ~CanTransition(row.state, "CANCELLED", "MERCHANT")
  BY <1>1, <1>3, LegStutters DEF RecordTransition
<1> QED BY <1>2, <1>3

\* A placed booking stays placed; one more hires the courier or follows the first.
LEMMA LegHires ==
    ASSUME DispatchInv, NEW b \in Bookings, CourierBooks(b) \/ StrayBooks(b)
    PROVE  LegStep
<1>1. UNCHANGED <<row, orderStatus>> /\ Placed' = Placed \cup {b}
  BY BookedPlaced DEF CourierBooks, StrayBooks, DispatchInv
<1>2. CASE Placed = {}
  BY <1>1, <1>2 DEF LegStep, Leg!LegNext, Leg!Hires
<1>3. CASE Placed # {}
  BY <1>1, <1>3, LegStutters
<1> QED BY <1>2, <1>3

\* The order moved by the seller, a refund or a cancellation is a step of the leg or a stutter.
LEMMA LegOrderMoves ==
    ASSUME DispatchInv, OrderCloses \/ Patches
    PROVE  LegStep
<1>1. Placed' = Placed /\ row' = row
  BY DEF OrderCloses, Patches, ReadsPatch, CommitsPatch, PatchDies, Placed
<1>2. CASE orderStatus' = orderStatus
  BY <1>1, <1>2, LegStutters
<1>3. CASE orderStatus' # orderStatus
  <2>1. orderStatus' \in {"PREPARING", "READY", "OUT_FOR_DELIVERY", "DELIVERED", "MOVED"}
    BY <1>3 DEF OrderCloses, Patches, ReadsPatch, CommitsPatch, PatchDies, DispatchInv,
                DispatchTypeOK, OrderStatuses
  <2>2. Leg!OrderMoves(orderStatus')
    BY <1>1 DEF Leg!OrderMoves
  <2> QED BY <2>1, <2>2 DEF LegStep, Leg!LegNext
<1> QED BY <1>2, <1>3

\* Everything else: calls, losses, failed attempts, polls and the courier's own moves.
LEMMA LegUnseen ==
    ASSUME DispatchInv,
           \/ TickSelects \/ \E c \in Clicks : SellerRequests(c)
           \/ \E c \in Callers : NothingToDispatch(c) \/ CallsCourier(c)
           \/ \E b \in Bookings : FindsDuplicate(b)
           \/ CourierRefuses \/ AnswerLost \/ TransactionExpires \/ StrayEnds
           \/ PollReads \/ UNCHANGED dispatchVars
    PROVE  LegStep
<1>1. UNCHANGED <<row, orderStatus, courier>>
  BY DEF TickSelects, SellerRequests, NothingToDispatch, CallsCourier, FindsDuplicate,
         CourierRefuses, AnswerLost, TransactionExpires, StrayEnds, PollReads, dispatchVars,
         legVars
<1> QED BY <1>1, LegStutters DEF Placed

\* A retry put off, an aborted cancellation and the courier's ride, as long as
\* nobody writes it down, are stutters of the leg.
LEMMA LegRides ==
    ASSUME DispatchInv,
           \/ RetriesLater \/ CancelAborts
           \/ \E b \in Bookings, to \in Reports : CourierMoves(b, to)
    PROVE  LegStep
<1>1. CASE RetriesLater
  <2>1. Placed' = Placed /\ orderStatus' = orderStatus
    BY <1>1 DEF RetriesLater, Placed
  <2>2. row'.state = row.state
    BY <1>1, StampedRow DEF RetriesLater, DispatchInv, DeliveryRow
  <2> QED BY <2>1, <2>2, LegStutters
<1>2. CASE CancelAborts
  BY <1>2, KnownPlaced, LegStutters DEF CancelAborts
<1>3. CASE \E b \in Bookings, to \in Reports : CourierMoves(b, to)
  <2>1. PICK b \in Bookings, to \in Reports : CourierMoves(b, to)
    BY <1>3
  <2>2. b \in Placed /\ to \in BookingStates \ {"none"}
    BY <2>1, DispatchAssumption DEF CourierMoves, Placed, Active, BookingStates, TerminalStates
  <2>3. Placed' = Placed /\ UNCHANGED <<row, orderStatus>>
    BY <2>1, <2>2, RidePlaced DEF CourierMoves, DispatchInv
  <2> QED BY <2>3, LegStutters
<1> QED BY <1>1, <1>2, <1>3

\* Reconciles, webhooks and folded polls write down what a courier's booking is in.
LEMMA LegFolds ==
    ASSUME DispatchInv,
           \/ \E c \in Callers : Reconciles(c)
           \/ \E b \in Bookings : WebhookReports(b)
           \/ PollFolds
    PROVE  LegStep
<1>1. row \in DeliveryRow /\ Placed' = Placed
  BY DEF Reconciles, WebhookReports, PollFolds, Placed, DispatchInv, DispatchTypeOK
<1>2. CASE \E c \in Callers : Reconciles(c)
  <2>1. row.dispatched /\ (\/ RecordTransition(row, courier[row.booking], "CRON", row, 0)
                           \/ UNCHANGED <<row, orderStatus, heard>>)
    BY <1>2 DEF Reconciles
  <2>2. row.booking \in Placed /\ courier[row.booking] \in Active \cup TerminalStates
    BY <2>1, ReportsTyped DEF DispatchInv, RowIsBacked, DispatchTypeOK, Placed
  <2> QED BY <1>1, <2>1, <2>2, LegReported, LegStutters
<1>3. CASE \E b \in Bookings : WebhookReports(b)
  <2>1. PICK b \in Bookings : WebhookReports(b)
    BY <1>3
  <2>2. /\ courier[b] \in TerminalStates /\ b \in Placed
        /\ RecordTransition(row, courier[b], "PROVIDER", row, 0)
    BY <2>1 DEF WebhookReports, Placed, TerminalStates
  <2> QED BY <1>1, <2>2, LegReported
<1>4. CASE PollFolds
  <2>1. poll \in Active \cup TerminalStates /\ Placed # {}
    BY <1>4, ReportsTyped DEF PollFolds, DispatchInv, DispatchTypeOK, PollIsBacked
  <2> QED BY <1>1, <1>4, <2>1, LegReported DEF PollFolds
<1> QED BY <1>2, <1>3, <1>4

\* Recording a booking is a dispatch of the leg, or a stutter when the rules
\* refuse it.
LEMMA LegRecords ==
    ASSUME DispatchInv, RecordsBooking
    PROVE  LegStep
<1> DEFINE patch == [Stamped EXCEPT !.dispatched = TRUE, !.booking = tx.booking,
                                    !.attempts = @ + 1]
<1>1. /\ tx # NoTx /\ tx.answer \in Active \cup TerminalStates
      /\ RecordTransition(Stamped, tx.answer, ActorOf(tx.by), patch, 0)
      /\ Placed' = Placed
  BY DEF RecordsBooking, Placed
<1>2. tx.booking \in Placed
  BY <1>1 DEF DispatchInv, CallIsBacked
<1>3. Stamped \in DeliveryRow /\ Stamped.external /\ Stamped.state = row.state
  BY StampedRow DEF DispatchInv
<1>4. patch \in DeliveryRow
  BY <1>2, <1>3, BookedRow DEF Placed
<1>5. ActorOf(tx.by) \in {"SYSTEM", "MERCHANT", "PROVIDER", "CRON"}
  BY DEF ActorOf
<1> HIDE DEF patch
<1> QED BY <1>1, <1>2, <1>3, <1>4, <1>5, LegReported

\* CourierDispatch implements DeliveryLeg for all constants: the order sees a courier hired,
\* heard of, and one end, whatever calls, retries, losses and webhooks made it.
THEOREM CourierIsOrdersLegAlways == DispatchSpec => CourierIsOrdersLeg
<1>1. DispatchInit => Leg!LegInit
  BY DEF DispatchInit, Leg!LegInit, Placed
<1>2. DispatchInv /\ [DispatchNext]_dispatchVars => LegStep
  BY LegHires, LegOrderMoves, LegUnseen, LegRides, LegFolds, LegRecords, LegGivenUp, LegCancelled
     DEF DispatchNext, Creates, Follows
<1>3. DispatchInv /\ [DispatchNext]_dispatchVars => [Leg!LegNext]_(Leg!deliveryLegVars)
  BY <1>2 DEF LegStep
<1> QED BY <1>1, <1>3, DispatchInvariant, PTL DEF DispatchSpec, CourierIsOrdersLeg, Leg!LegSpec

-----------------------------------------------------------------------------
(* What the leg is worth to the order.                                      *)

\* The rules let a report, the end of the attempts and a cancellation only advance.
LEMMA LegAdvances ==
    ASSUME LegStep, row.state \in NormalizedStates, row'.state # row.state
    PROVE  Rank[row'.state] > Rank[row.state] /\ row.state \notin TerminalStates
<1>1. PICK to \in NormalizedStates :
        /\ row'.state = to
        /\ \/ CanTransition(row.state, to, "PROVIDER")
           \/ row.state = "PENDING" /\ to = "FAILED"
           \/ CanTransition(row.state, to, "MERCHANT") /\ to = "CANCELLED"
  <2>1. "FAILED" \in NormalizedStates /\ "CANCELLED" \in NormalizedStates
    BY DEF NormalizedStates
  <2> QED BY <2>1, SameRules DEF LegStep, Leg!deliveryLegVars, Leg!LegNext, Leg!Hires, Leg!GivenUp, Leg!Cancelled,
                            Leg!Reported, Leg!OrderMoves, Leg!LegMoves
<1>2. row.state \in NormalizedStates /\ row.state # row'.state
  OBVIOUS
<1> QED BY <1>1, <1>2 DEF CanTransition, CourierMay, MerchantMay, MerchantPath, Rank, TerminalStates,
                          NormalizedStates

\* A delivery never goes backwards and its ends are final, in whatever order reports,
\* polls, answers, lost calls and the seller's clicks reach recordTransition.
DeliveryOnlyAdvances ==
    [][row'.state # row.state
         => Rank[row'.state] > Rank[row.state] /\ row.state \notin TerminalStates]_dispatchVars

\* No courier is reported on the way, or done, that was never booked.
RiderWasBooked == row.state \in Active \cup {"DELIVERED"} => Placed # {}

\* The delivery of an order only advances, and not without a courier.
THEOREM DeliveryOnlyAdvancesAlways == DispatchSpec => DeliveryOnlyAdvances /\ []RiderWasBooked
<1>1. DispatchInv /\ [DispatchNext]_dispatchVars => LegStep
  BY LegHires, LegOrderMoves, LegUnseen, LegRides, LegFolds, LegRecords, LegGivenUp, LegCancelled
     DEF DispatchNext, Creates, Follows
<1>2. DispatchInv => row.state \in NormalizedStates
  BY DEF DispatchInv, DispatchTypeOK, DeliveryRow
<1>3. DispatchInv /\ [DispatchNext]_dispatchVars
        => [row'.state # row.state
              => Rank[row'.state] > Rank[row.state] /\ row.state \notin TerminalStates]_dispatchVars
  BY <1>1, <1>2, LegAdvances
<1>4. DispatchInit => RiderWasBooked
  BY DEF DispatchInit, RiderWasBooked, Active
<1>5. DispatchInv /\ RiderWasBooked /\ [DispatchNext]_dispatchVars => RiderWasBooked'
  <2> SUFFICES ASSUME RiderWasBooked, LegStep
               PROVE  RiderWasBooked'
    BY <1>1
  <2>1. CASE row'.state = row.state
    BY <2>1 DEF RiderWasBooked, LegStep, Leg!deliveryLegVars, Leg!LegNext, Leg!Hires, Leg!GivenUp, Leg!Cancelled,
                Leg!Reported, Leg!OrderMoves, Leg!LegMoves
  <2>2. CASE row'.state # row.state
    BY <2>2 DEF RiderWasBooked, Active, LegStep, Leg!deliveryLegVars, Leg!LegNext, Leg!Hires, Leg!GivenUp, Leg!Cancelled,
                Leg!Reported, Leg!OrderMoves, Leg!LegMoves
  <2> QED BY <2>1, <2>2
<1> QED BY <1>3, <1>4, <1>5, DispatchInvariant, PTL DEF DispatchSpec, DeliveryOnlyAdvances
=============================================================================
