------------------------------ MODULE OutboxProofs ------------------------------
(***************************************************************************)
(* Proofs about Outbox: the lease keeps drains apart, so the reset spares  *)
(* the living and effects repeat only after an interruption; and the       *)
(* outbox implements AtLeastOnce, and what that means for its rows.        *)
(***************************************************************************)
EXTENDS Outbox, TLAPS

\* The effect has not happened, or a repetition of it is excused.
Calm(e) == effects[e] = 0 \/ e \in rough

\* Whoever runs holds the lease.
RunsHoldLease == \A r \in Runs : run[r].at # "off" => leader = r

\* An invocation at work has one row, PROCESSING; its effect happened when it says
\* so, and not before.
WorkersHoldRow ==
    \A r \in Runs :
        /\ Working(r) => \E e \in Events : run[r].job = {e} /\ row[e] = "PROCESSING"
        /\ run[r].at = "dispatched" => \A e \in run[r].job : effects[e] > 0

\* A row that may be dispatched again has had no effect yet, or is excused.
OpenRowsCalm ==
    \A e \in Events :
        /\ effects[e] > 1 => e \in rough
        /\ row[e] \in {"none", "PENDING"} => Calm(e)
        /\ row[e] = "PROCESSING"
             => Calm(e) \/ \E r \in Runs : run[r].at = "dispatched" /\ e \in run[r].job

\* A code its request took early is SENT until it is released.
CouriersHoldRow ==
    \A c \in Codes :
        /\ c \in Early => row[c] = "SENT"
        /\ courier[c] = "claimed" => Calm(c)
        /\ courier[c] = "handed" => effects[c] > 0

OutboxInv ==
    /\ OutboxTypeOK
    /\ RunsHoldLease
    /\ WorkersHoldRow
    /\ OpenRowsCalm
    /\ CouriersHoldRow

\* The empty outbox satisfies the invariant.
LEMMA OutboxStart == OutboxInit => OutboxInv
<1> SUFFICES ASSUME OutboxInit
             PROVE  OutboxInv
  OBVIOUS
<1>1. RunIdle \in RunRecord /\ RunIdle.at = "off"
  BY DEF RunIdle, RunRecord
<1>2. run \in [Runs -> RunRecord] /\ \A r \in Runs : run[r].at = "off"
  BY <1>1 DEF OutboxInit
<1>3. OutboxTypeOK
  BY <1>2, OutboxAssumption DEF OutboxInit, OutboxTypeOK
<1>4. CouriersHoldRow /\ OpenRowsCalm
  BY OutboxAssumption DEF OutboxInit, CouriersHoldRow, OpenRowsCalm, Early, Calm
<1>5. RunsHoldLease /\ WorkersHoldRow
  BY <1>2 DEF RunsHoldLease, WorkersHoldRow, Working
<1> QED BY <1>3, <1>4, <1>5 DEF OutboxInv

\* Two invocations are never at work together.
LEMMA OneRunner ==
    ASSUME OutboxInv, NEW r \in Runs, run[r].at # "off"
    PROVE  leader = r /\ \A q \in Runs \ {r} : run[q].at = "off"
BY DEF OutboxInv, RunsHoldLease

\* The row an invocation is at work on, which no request took.
LEMMA JobOf ==
    ASSUME OutboxInv, NEW r \in Runs, Working(r)
    PROVE  \E e \in Events : /\ run[r].job = {e} /\ row[e] = "PROCESSING"
                             /\ e \notin Early
                             /\ run[r].at = "dispatched" => effects[e] > 0
                             /\ run[r].at # "dispatched" => Calm(e)
<1>1. PICK e \in Events : run[r].job = {e} /\ row[e] = "PROCESSING"
  BY DEF OutboxInv, WorkersHoldRow
<1>2. e \notin Early
  BY <1>1 DEF OutboxInv, CouriersHoldRow, Early
<1>3. run[r].at = "dispatched" => effects[e] > 0
  BY <1>1 DEF OutboxInv, WorkersHoldRow
<1>4. run[r].at # "dispatched" => Calm(e)
  <2> HAVE run[r].at # "dispatched"
  <2>1. \A q \in Runs : run[q].at # "dispatched"
    BY OneRunner DEF Working
  <2> QED BY <1>1, <2>1 DEF OutboxInv, OpenRowsCalm
<1> QED BY <1>1, <1>2, <1>3, <1>4

-----------------------------------------------------------------------------
(* One lemma for the steps of each actor.                                    *)

LEMMA EventSteps ==
    ASSUME OutboxInv, NEW e \in Events, EnqueueOutbox(e) \/ Tick(e)
    PROVE  OutboxInv'
<1>1. CASE EnqueueOutbox(e)
  <2>1. OutboxTypeOK'
    BY <1>1 DEF EnqueueOutbox, OutboxInv, OutboxTypeOK
  <2>2. RunsHoldLease' /\ WorkersHoldRow'
    BY <1>1 DEF EnqueueOutbox, OutboxInv, OutboxTypeOK, RunsHoldLease, WorkersHoldRow, Working
  <2>3. OpenRowsCalm' /\ CouriersHoldRow'
    BY <1>1 DEF EnqueueOutbox, OutboxInv, OutboxTypeOK, OpenRowsCalm, CouriersHoldRow, Early, Calm
  <2> QED BY <2>1, <2>2, <2>3 DEF OutboxInv
<1>2. CASE Tick(e)
  <2>1. scheduled' \in [Events -> {"future", "due", "old"}]
    BY <1>2 DEF Tick, OutboxInv, OutboxTypeOK
  <2> QED BY <1>2, <2>1
          DEF Tick, OutboxInv, OutboxTypeOK, RunsHoldLease, WorkersHoldRow, OpenRowsCalm,
              CouriersHoldRow, Early, Calm, Working
<1> QED BY <1>1, <1>2

\* The lease and the statements that read or write no single row.
LEMMA LeaseSteps ==
    ASSUME OutboxInv, NEW r \in Runs,
           AcquireLease(r) \/ ReleaseLease(r) \/ SelectDue(r) \/ FinishBatch(r)
    PROVE  OutboxInv'
<1>1. run[r] \in RunRecord /\ run \in [Runs -> RunRecord]
  BY DEF OutboxInv, OutboxTypeOK
<1>2. /\ run' \in [Runs -> RunRecord]
      /\ run'[r].at \in {"off", "reset", "loop", "release"}
      /\ \A q \in Runs \ {r} : run'[q] = run[q]
  <2>1. CASE AcquireLease(r)
    BY <1>1, <2>1 DEF AcquireLease, RunRecord
  <2>2. CASE ReleaseLease(r)
    BY <1>1, <2>2 DEF ReleaseLease, RunRecord, RunIdle
  <2>3. CASE SelectDue(r)
    <3> DEFINE due == {e \in Events : row[e] = "PENDING" /\ scheduled[e] # "future"}
    <3>1. run' = [run EXCEPT ![r].at = "loop", ![r].batch = due] /\ due \in SUBSET Events
      BY <2>3 DEF SelectDue
    <3> HIDE DEF due
    <3> QED BY <1>1, <3>1 DEF RunRecord
  <2>4. CASE FinishBatch(r)
    BY <1>1, <2>4 DEF FinishBatch, RunRecord
  <2> QED BY <2>1, <2>2, <2>3, <2>4
<1>3. /\ run[r].at \in {"off", "select", "loop", "release"}
      /\ UNCHANGED <<row, attempts, scheduled, courier, effects, kills, rough>>
      /\ leader' \in Runs \cup {NoRun}
  BY DEF AcquireLease, ReleaseLease, SelectDue, FinishBatch, OutboxInv, OutboxTypeOK
<1>4. RunsHoldLease'
  <2>1. run[r].at = "off" => leader = NoRun /\ leader' = r
    BY DEF AcquireLease, ReleaseLease, SelectDue, FinishBatch
  <2>2. run[r].at # "off" => leader' = leader \/ run'[r].at = "off"
    BY DEF AcquireLease, ReleaseLease, SelectDue, FinishBatch, RunIdle, OutboxInv, OutboxTypeOK
  <2>3. CASE run[r].at = "off"
    <3>1. \A q \in Runs : run[q].at = "off"
      BY <2>1, <2>3, OutboxAssumption DEF OutboxInv, RunsHoldLease
    <3> QED BY <1>2, <2>1, <2>3, <3>1 DEF RunsHoldLease
  <2>4. CASE run[r].at # "off"
    BY <1>2, <2>2, <2>4, OneRunner DEF RunsHoldLease
  <2> QED BY <2>3, <2>4
<1>5. WorkersHoldRow'
  BY <1>2, <1>3 DEF OutboxInv, WorkersHoldRow, Working
<1>6. OpenRowsCalm'
  BY <1>2, <1>3 DEF OutboxInv, OpenRowsCalm, Calm
<1>7. CouriersHoldRow'
  BY <1>3 DEF OutboxInv, CouriersHoldRow, Early, Calm
<1>8. OutboxTypeOK'
  BY <1>2, <1>3 DEF OutboxInv, OutboxTypeOK
<1> QED BY <1>4, <1>5, <1>6, <1>7, <1>8 DEF OutboxInv

\* ResetStuck runs under the lease and before its own batch: nobody is at work.
LEMMA ResetSteps ==
    ASSUME OutboxInv, NEW r \in Runs, ResetStuck(r)
    PROVE  /\ \A q \in Runs : ~Working(q)
           /\ OutboxInv'
<1>1. run[r].at = "reset"
  BY DEF ResetStuck
<1>2. \A q \in Runs : ~Working(q)
  BY <1>1, OneRunner DEF Working
<1>3. /\ run' \in [Runs -> RunRecord]
      /\ run'[r].at = "select"
      /\ \A q \in Runs \ {r} : run'[q] = run[q]
  BY DEF ResetStuck, OutboxInv, OutboxTypeOK, RunRecord
<1>4. /\ row' \in [Events -> {"none", "PENDING", "PROCESSING", "SENT", "DEAD"}]
      /\ scheduled' \in [Events -> {"future", "due", "old"}]
      /\ \A e \in Events : row'[e] = row[e] \/ (row[e] = "PROCESSING" /\ row'[e] = "PENDING")
      /\ UNCHANGED <<attempts, leader, courier, effects, kills, rough>>
  BY DEF ResetStuck, OutboxInv, OutboxTypeOK
<1>5. OutboxTypeOK'
  BY <1>3, <1>4 DEF OutboxInv, OutboxTypeOK
<1>6. RunsHoldLease'
  BY <1>1, <1>3, <1>4 DEF OutboxInv, RunsHoldLease
<1>7. WorkersHoldRow'
  BY <1>2, <1>3 DEF WorkersHoldRow, Working
<1>8. OpenRowsCalm'
  <2>1. \A e \in Events : row[e] \in {"none", "PENDING", "PROCESSING"} => Calm(e)
    BY <1>2 DEF OutboxInv, OpenRowsCalm, Working
  <2> QED BY <1>4, <2>1 DEF OutboxInv, OpenRowsCalm, Calm
<1>9. CouriersHoldRow'
  BY <1>4, OutboxAssumption DEF OutboxInv, CouriersHoldRow, Early, Calm
<1> QED BY <1>2, <1>5, <1>6, <1>7, <1>8, <1>9 DEF OutboxInv

\* Claiming a row keeps the invariant.
LEMMA ClaimSteps ==
    ASSUME OutboxInv, NEW r \in Runs, NEW e \in Events, ClaimRow(r, e)
    PROVE  OutboxInv'
<1>1. run[r].at = "loop" /\ run[r] \in RunRecord /\ run \in [Runs -> RunRecord]
  BY DEF ClaimRow, OutboxInv, OutboxTypeOK
<1>2. \A q \in Runs \ {r} : run[q].at = "off" /\ leader = r
  BY <1>1, OneRunner
<1>3. leader = r
  BY <1>1, OneRunner
<1>4. CASE row[e] = "PENDING"
  <2>1. /\ row' = [row EXCEPT ![e] = "PROCESSING"]
        /\ attempts' = [attempts EXCEPT ![e] = @ + 1]
        /\ run' = [run EXCEPT ![r] = [at |-> "claimed", batch |-> run[r].batch \ {e},
                                      job |-> {e}, tries |-> attempts[e] + 1]]
        /\ UNCHANGED <<scheduled, leader, courier, effects, kills, rough>>
    BY <1>1, <1>4 DEF ClaimRow
  <2>2. /\ run' \in [Runs -> RunRecord]
        /\ run'[r].at = "claimed" /\ run'[r].job = {e}
        /\ \A q \in Runs \ {r} : run'[q] = run[q]
    <3>1. attempts[e] + 1 \in Nat /\ run[r].batch \ {e} \in SUBSET Events
      BY <1>1 DEF OutboxInv, OutboxTypeOK, RunRecord
    <3> QED BY <1>1, <2>1, <3>1 DEF RunRecord
  <2>3. OutboxTypeOK'
    BY <2>1, <2>2 DEF OutboxInv, OutboxTypeOK
  <2>4. RunsHoldLease'
    BY <1>2, <1>3, <2>1, <2>2 DEF RunsHoldLease
  <2>5. row'[e] = "PROCESSING" /\ \A d \in Events \ {e} : row'[d] = row[d]
    BY <2>1 DEF OutboxInv, OutboxTypeOK
  <2>6. WorkersHoldRow'
    BY <1>2, <2>2, <2>5 DEF WorkersHoldRow, Working
  <2>7. OpenRowsCalm'
    <3>1. \A d \in Events : row[d] \in {"none", "PENDING", "PROCESSING"} => Calm(d)
      BY <1>1, <1>2 DEF OutboxInv, OpenRowsCalm
    <3> QED BY <1>4, <2>1, <2>5, <3>1 DEF OutboxInv, OpenRowsCalm, Calm
  <2>8. CouriersHoldRow'
    BY <1>4, <2>1, <2>5, OutboxAssumption DEF OutboxInv, CouriersHoldRow, Early, Calm
  <2> QED BY <2>3, <2>4, <2>6, <2>7, <2>8 DEF OutboxInv
<1>5. CASE row[e] # "PENDING"
  <2>1. /\ run' = [run EXCEPT ![r].batch = @ \ {e}]
        /\ UNCHANGED <<row, attempts, scheduled, leader, courier, effects, kills, rough>>
    BY <1>5 DEF ClaimRow
  <2>2. /\ run' \in [Runs -> RunRecord]
        /\ run'[r].at = "loop"
        /\ \A q \in Runs \ {r} : run'[q] = run[q]
    BY <1>1, <2>1 DEF RunRecord
  <2> QED BY <1>1, <2>1, <2>2
          DEF OutboxInv, OutboxTypeOK, RunsHoldLease, WorkersHoldRow, OpenRowsCalm,
              CouriersHoldRow, Early, Calm, Working
<1> QED BY <1>4, <1>5

\* An invocation at work ends at `at`, with the same or no job.
LEMMA WorkMoves ==
    ASSUME OutboxInv, NEW r \in Runs, Working(r),
           NEW at \in {"off", "loop", "claimed", "dispatched", "failed", "release"},
           \/ run' = [run EXCEPT ![r].at = at]
           \/ at = "loop" /\ run' = [run EXCEPT ![r].at = at, ![r].job = {}]
           \/ at = "off" /\ run' = [run EXCEPT ![r] = RunIdle],
           UNCHANGED leader
    PROVE  /\ run' \in [Runs -> RunRecord]
           /\ run'[r].at = at
           /\ at \notin {"loop", "off"} => run'[r].job = run[r].job
           /\ \A q \in Runs \ {r} : run'[q] = run[q] /\ run[q].at = "off"
           /\ RunsHoldLease'
<1>1. run[r] \in RunRecord /\ run \in [Runs -> RunRecord]
  BY DEF OutboxInv, OutboxTypeOK
<1>2. run' \in [Runs -> RunRecord]
  BY <1>1 DEF RunRecord, RunIdle
<1>3. run'[r].at = at
  BY <1>1 DEF RunRecord, RunIdle
<1>4. at \notin {"loop", "off"} => run'[r].job = run[r].job
  BY <1>1 DEF RunRecord, RunIdle
<1>5. \A q \in Runs \ {r} : run'[q] = run[q]
  BY <1>1
<1>6. leader = r /\ \A q \in Runs \ {r} : run[q].at = "off"
  BY OneRunner DEF Working
<1>7. RunsHoldLease'
  BY <1>5, <1>6 DEF RunsHoldLease
<1> QED BY <1>2, <1>3, <1>4, <1>5, <1>6, <1>7

\* Dispatching a claimed row, whatever comes of it, keeps the invariant.
LEMMA DispatchSteps ==
    ASSUME OutboxInv, NEW r \in Runs, Dispatch(r)
    PROVE  OutboxInv'
<1>1. Working(r) /\ run[r].at = "claimed"
  BY DEF Dispatch, Working
<1>2. PICK e \in Events : run[r].job = {e} /\ row[e] = "PROCESSING" /\ e \notin Early /\ Calm(e)
  BY <1>1, JobOf
<1>3. UNCHANGED <<row, attempts, scheduled, leader, courier, kills, rough>>
  BY DEF Dispatch
<1>4. CASE effects' = effects /\ run' = [run EXCEPT ![r].at = "failed"]
  <2>1. /\ run' \in [Runs -> RunRecord] /\ run'[r].at = "failed" /\ run'[r].job = {e}
        /\ \A q \in Runs \ {r} : run'[q] = run[q] /\ run[q].at = "off"
        /\ RunsHoldLease'
    BY <1>1, <1>2, <1>3, <1>4, WorkMoves
  <2>2. OpenRowsCalm'
    BY <1>1, <1>3, <1>4, <2>1 DEF OutboxInv, OpenRowsCalm, Calm
  <2>3. WorkersHoldRow'
    BY <1>2, <1>3, <2>1 DEF WorkersHoldRow, Working
  <2> QED BY <1>3, <1>4, <2>1, <2>2, <2>3 DEF OutboxInv, OutboxTypeOK, CouriersHoldRow, Early, Calm
<1>5. CASE /\ effects' = [d \in Events |-> IF d \in run[r].job THEN Again(effects[d]) ELSE effects[d]]
           /\ run' = [run EXCEPT ![r].at = "dispatched"]
  <2>1. /\ run' \in [Runs -> RunRecord] /\ run'[r].at = "dispatched" /\ run'[r].job = {e}
        /\ \A q \in Runs \ {r} : run'[q] = run[q] /\ run[q].at = "off"
        /\ RunsHoldLease'
    BY <1>1, <1>2, <1>3, <1>5, WorkMoves
  <2>2. effects[e] \in 0..2
    BY DEF OutboxInv, OutboxTypeOK
  <2>3. /\ effects' \in [Events -> 0..2]
        /\ effects'[e] > 0 /\ (effects'[e] > 1 => e \in rough)
        /\ \A d \in Events \ {e} : effects'[d] = effects[d]
    BY <1>2, <1>5, <2>2 DEF OutboxInv, OutboxTypeOK, Again, Calm
  <2>4. WorkersHoldRow'
    BY <1>2, <1>3, <2>1, <2>3 DEF WorkersHoldRow, Working
  <2>5. OpenRowsCalm'
    <3>1. \A d \in Events : row[d] \in {"none", "PENDING", "PROCESSING"} => Calm(d)
      BY <1>1, <2>1 DEF OutboxInv, OpenRowsCalm
    <3> QED BY <1>2, <1>3, <2>1, <2>3, <3>1 DEF OutboxInv, OpenRowsCalm, Calm
  <2>6. CouriersHoldRow'
    BY <1>2, <1>3, <2>3, OutboxAssumption DEF OutboxInv, CouriersHoldRow, Early, Calm
  <2> QED BY <1>3, <2>1, <2>3, <2>4, <2>5, <2>6 DEF OutboxInv, OutboxTypeOK
<1> QED BY <1>4, <1>5 DEF Dispatch

\* A row that an invocation leaves with nobody at work is PROCESSING or PENDING only
\* when that is excused.
LEMMA LeavesRow ==
    ASSUME OutboxInv, NEW r \in Runs, Working(r),
           NEW e \in Events, run[r].job = {e},
           run' \in [Runs -> RunRecord],
           run'[r].at \in {"loop", "off", "release"},
           \A q \in Runs \ {r} : run'[q] = run[q] /\ run[q].at = "off",
           RunsHoldLease',
           row' \in [Events -> {"none", "PENDING", "PROCESSING", "SENT", "DEAD"}],
           \A d \in Events \ {e} : row'[d] = row[d],
           UNCHANGED <<attempts, leader, courier, effects>>,
           scheduled' \in [Events -> {"future", "due", "old"}],
           kills' \in 0..MaxKills,
           rough' \in SUBSET Events, rough \subseteq rough',
           row'[e] \in {"SENT", "DEAD"} \/ effects[e] = 0 \/ e \in rough'
    PROVE  OutboxInv'
<1>1. row[e] = "PROCESSING" /\ e \notin Early
  BY JobOf
<1>2. OutboxTypeOK'
  BY DEF OutboxInv, OutboxTypeOK
<1>3. WorkersHoldRow'
  BY DEF WorkersHoldRow, Working
<1>4. OpenRowsCalm'
  <2>1. \A d \in Events \ {e} : row[d] \in {"none", "PENDING", "PROCESSING"} => Calm(d)
    BY DEF OutboxInv, OpenRowsCalm
  <2>2. \A d \in Events : effects[d] > 1 => d \in rough
    BY DEF OutboxInv, OpenRowsCalm
  <2> QED BY <2>1, <2>2 DEF OpenRowsCalm, Calm
<1>5. CouriersHoldRow'
  BY <1>1, OutboxAssumption DEF OutboxInv, CouriersHoldRow, Early, Calm
<1> QED BY <1>2, <1>3, <1>4, <1>5 DEF OutboxInv

\* Marking a dispatched row SENT keeps the invariant.
LEMMA MarkSteps ==
    ASSUME OutboxInv, NEW r \in Runs, MarkSent(r)
    PROVE  OutboxInv'
<1>1. Working(r) /\ run[r].at = "dispatched"
  BY DEF MarkSent, Working
<1>2. PICK e \in Events : run[r].job = {e} /\ row[e] = "PROCESSING" /\ e \notin Early
  BY <1>1, JobOf
<1>3. UNCHANGED <<attempts, scheduled, leader, courier, effects, kills>>
  BY DEF MarkSent
<1>4. CASE /\ row' = [d \in Events |-> IF d \in run[r].job THEN "SENT" ELSE row[d]]
           /\ run' = [run EXCEPT ![r].at = "loop", ![r].job = {}]
           /\ UNCHANGED rough
  <2>1. /\ run' \in [Runs -> RunRecord] /\ run'[r].at = "loop"
        /\ \A q \in Runs \ {r} : run'[q] = run[q] /\ run[q].at = "off"
        /\ RunsHoldLease'
    BY <1>1, <1>3, <1>4, WorkMoves
  <2>2. /\ row' \in [Events -> {"none", "PENDING", "PROCESSING", "SENT", "DEAD"}]
        /\ row'[e] = "SENT" /\ \A d \in Events \ {e} : row'[d] = row[d]
    BY <1>2, <1>4 DEF OutboxInv, OutboxTypeOK
  <2> QED BY <1>1, <1>2, <1>3, <1>4, <2>1, <2>2, LeavesRow DEF OutboxInv, OutboxTypeOK
<1>5. CASE /\ run' = [run EXCEPT ![r].at = "failed"]
           /\ rough' = rough \cup run[r].job
           /\ UNCHANGED row
  <2>1. /\ run' \in [Runs -> RunRecord] /\ run'[r].at = "failed" /\ run'[r].job = {e}
        /\ \A q \in Runs \ {r} : run'[q] = run[q] /\ run[q].at = "off"
        /\ RunsHoldLease'
    BY <1>1, <1>2, <1>3, <1>5, WorkMoves
  <2>2. WorkersHoldRow'
    BY <1>2, <1>5, <2>1 DEF WorkersHoldRow, Working
  <2>3. OpenRowsCalm'
    BY <1>2, <1>3, <1>5, <2>1 DEF OutboxInv, OpenRowsCalm, Calm
  <2>4. CouriersHoldRow'
    BY <1>3, <1>5 DEF OutboxInv, CouriersHoldRow, Early, Calm
  <2>5. OutboxTypeOK'
    BY <1>2, <1>3, <1>5, <2>1 DEF OutboxInv, OutboxTypeOK
  <2> QED BY <2>1, <2>2, <2>3, <2>4, <2>5 DEF OutboxInv
<1> QED BY <1>4, <1>5 DEF MarkSent

\* Rescheduling or giving up a failed row keeps the invariant.
LEMMA FailureSteps ==
    ASSUME OutboxInv, NEW r \in Runs, HandleFailure(r)
    PROVE  OutboxInv'
<1>1. Working(r) /\ run[r].at = "failed"
  BY DEF HandleFailure, Working
<1>2. PICK e \in Events : run[r].job = {e} /\ row[e] = "PROCESSING" /\ Calm(e)
  BY <1>1, JobOf
<1>3. UNCHANGED <<attempts, leader, courier, effects, rough>>
  BY DEF HandleFailure
<1>4. PICK at \in {"loop", "release"} :
        \/ run' = [run EXCEPT ![r].at = at]
        \/ at = "loop" /\ run' = [run EXCEPT ![r].at = at, ![r].job = {}]
  BY DEF HandleFailure
<1>5. /\ run' \in [Runs -> RunRecord] /\ run'[r].at = at
      /\ \A q \in Runs \ {r} : run'[q] = run[q] /\ run[q].at = "off"
      /\ RunsHoldLease'
  BY <1>1, <1>3, <1>4, WorkMoves
<1>6. /\ row' \in [Events -> {"none", "PENDING", "PROCESSING", "SENT", "DEAD"}]
      /\ \A d \in Events \ {e} : row'[d] = row[d]
  BY <1>2 DEF HandleFailure, OutboxInv, OutboxTypeOK
<1>7. scheduled' \in [Events -> {"future", "due", "old"}]
  BY DEF HandleFailure, OutboxInv, OutboxTypeOK
<1>8. kills' \in 0..MaxKills
  BY OutboxAssumption DEF HandleFailure, OutboxInv, OutboxTypeOK
<1> QED BY <1>1, <1>2, <1>3, <1>5, <1>6, <1>7, <1>8, LeavesRow DEF OutboxInv, OutboxTypeOK, Calm

\* The death of an invocation at any point keeps the invariant.
LEMMA KillSteps ==
    ASSUME OutboxInv, NEW r \in Runs, KillRun(r)
    PROVE  OutboxInv'
<1>1. kills' \in 0..MaxKills
  BY OutboxAssumption DEF KillRun, OutboxInv, OutboxTypeOK
<1>2. /\ run' = [run EXCEPT ![r] = RunIdle] /\ run[r].at # "off"
      /\ UNCHANGED <<row, attempts, scheduled, leader, courier, effects>>
  BY DEF KillRun
<1>3. CASE Working(r)
  <2>1. PICK e \in Events : /\ run[r].job = {e} /\ row[e] = "PROCESSING"
                            /\ run[r].at # "dispatched" => Calm(e)
    BY <1>3, JobOf
  <2>2. /\ run' \in [Runs -> RunRecord] /\ run'[r].at = "off"
        /\ \A q \in Runs \ {r} : run'[q] = run[q] /\ run[q].at = "off"
        /\ RunsHoldLease'
    BY <1>2, <1>3, WorkMoves
  <2>3. /\ rough' \in SUBSET Events /\ rough \subseteq rough'
        /\ run[r].at = "dispatched" => e \in rough'
    BY <2>1 DEF KillRun, OutboxInv, OutboxTypeOK
  <2> QED BY <1>1, <1>2, <1>3, <2>1, <2>2, <2>3, LeavesRow DEF OutboxInv, OutboxTypeOK, Calm
<1>4. CASE ~Working(r)
  <2>1. rough' = rough
    BY <1>4 DEF KillRun, Working
  <2>2. /\ run' \in [Runs -> RunRecord] /\ run'[r].at = "off"
        /\ \A q \in Runs \ {r} : run'[q] = run[q]
    BY <1>2 DEF OutboxInv, OutboxTypeOK, RunRecord, RunIdle
  <2>3. WorkersHoldRow' /\ RunsHoldLease'
    BY <1>2, <2>2 DEF OutboxInv, RunsHoldLease, WorkersHoldRow, Working
  <2>4. OpenRowsCalm'
    BY <1>2, <1>4, <2>1, <2>2 DEF OutboxInv, OpenRowsCalm, Calm, Working
  <2> QED BY <1>1, <1>2, <2>1, <2>2, <2>3, <2>4
          DEF OutboxInv, OutboxTypeOK, CouriersHoldRow, Early, Calm
<1> QED BY <1>3, <1>4

\* The request that delivers a code itself, and dies; the lease key expires.
LEMMA CodeSteps ==
    ASSUME OutboxInv, NEW c \in Codes, CodeStep(c) \/ CodeDies(c)
    PROVE  OutboxInv'
<1>1. c \in Events
  BY OutboxAssumption
<1>2. UNCHANGED <<attempts, scheduled, leader, run, rough>>
  BY DEF CodeStep, CodeClaims, CodeHandedOver, CodeOver, CodeReleased, CodeDies
<1>3. /\ \A e \in Events \ {c} : row'[e] = row[e] /\ effects'[e] = effects[e]
      /\ \A d \in Codes \ {c} : courier'[d] = courier[d]
      /\ row' \in [Events -> {"none", "PENDING", "PROCESSING", "SENT", "DEAD"}]
      /\ courier' \in [Codes -> {"idle", "claimed", "handed", "over", "lost"}]
  BY <1>1 DEF CodeStep, CodeClaims, CodeHandedOver, CodeOver, CodeReleased, CodeDies,
              OutboxInv, OutboxTypeOK
<1>4. effects' \in [Events -> 0..2]
  <2>1. effects[c] \in 0..2
    BY <1>1 DEF OutboxInv, OutboxTypeOK
  <2>2. Again(effects[c]) \in 0..2
    BY <2>1 DEF Again
  <2> QED BY <2>2 DEF CodeStep, CodeClaims, CodeHandedOver, CodeOver, CodeReleased, CodeDies,
                      OutboxInv, OutboxTypeOK
<1>5. kills' \in 0..MaxKills
  BY OutboxAssumption DEF CodeStep, CodeClaims, CodeHandedOver, CodeOver, CodeReleased, CodeDies,
                          OutboxInv, OutboxTypeOK
<1>6. OutboxTypeOK'
  BY <1>2, <1>3, <1>4, <1>5 DEF OutboxInv, OutboxTypeOK
<1>7. /\ row[c] # "PROCESSING" => row'[c] # "PROCESSING"
      /\ row[c] = "PROCESSING" => row'[c] = "PROCESSING" /\ effects'[c] = effects[c]
  BY <1>1 DEF CodeStep, CodeClaims, CodeHandedOver, CodeOver, CodeReleased, CodeDies,
              OutboxInv, OutboxTypeOK, CouriersHoldRow, Early
<1>8. RunsHoldLease' /\ WorkersHoldRow'
  BY <1>1, <1>2, <1>3, <1>7 DEF OutboxInv, RunsHoldLease, WorkersHoldRow, Working
<1>9. /\ row'[c] \in {"none", "PENDING"} => Calm(c)'
      /\ effects'[c] > 1 => c \in rough'
      /\ courier'[c] \in {"claimed", "handed", "lost"} => row'[c] = "SENT"
      /\ courier'[c] = "claimed" => Calm(c)'
      /\ courier'[c] = "handed" => effects'[c] > 0
  <2>1. /\ row[c] \in {"none", "PENDING"} => Calm(c)
        /\ effects[c] > 1 => c \in rough
        /\ courier[c] \in {"claimed", "handed", "lost"} => row[c] = "SENT"
        /\ courier[c] = "claimed" => Calm(c)
        /\ courier[c] = "handed" => effects[c] > 0
        /\ effects[c] \in 0..2
    BY <1>1 DEF OutboxInv, OutboxTypeOK, OpenRowsCalm, CouriersHoldRow, Early
  <2>2. CASE CodeClaims(c)
    BY <1>1, <2>1, <2>2 DEF CodeClaims, OutboxInv, OutboxTypeOK, Calm
  <2>3. CASE CodeHandedOver(c)
    BY <1>1, <2>1, <2>3 DEF CodeHandedOver, OutboxInv, OutboxTypeOK, Calm, Again
  <2>4. CASE CodeOver(c)
    BY <1>1, <2>1, <2>4 DEF CodeOver, OutboxInv, OutboxTypeOK, Calm
  <2>5. CASE CodeReleased(c)
    BY <1>1, <2>1, <2>5 DEF CodeReleased, OutboxInv, OutboxTypeOK, Calm
  <2>6. CASE CodeDies(c)
    BY <1>1, <2>1, <2>6 DEF CodeDies, OutboxInv, OutboxTypeOK, Calm
  <2> QED BY <2>2, <2>3, <2>4, <2>5, <2>6 DEF CodeStep
<1>10. OpenRowsCalm'
  BY <1>2, <1>3, <1>7, <1>9 DEF OutboxInv, OpenRowsCalm, Calm
<1>11. CouriersHoldRow'
  BY <1>2, <1>3, <1>9, OutboxAssumption DEF OutboxInv, CouriersHoldRow, Early, Calm
<1> QED BY <1>6, <1>8, <1>10, <1>11 DEF OutboxInv

\* The lease of a dead invocation expiring keeps the invariant.
LEMMA ExpiryStep ==
    ASSUME OutboxInv, LeaseExpires
    PROVE  OutboxInv'
<1>1. RunsHoldLease'
  BY DEF LeaseExpires, OutboxInv, OutboxTypeOK, RunsHoldLease
<1> QED BY <1>1 DEF LeaseExpires, OutboxInv, OutboxTypeOK, WorkersHoldRow, OpenRowsCalm,
                    CouriersHoldRow, Early, Calm, Working

\* A stuttering step keeps the invariant.
LEMMA OutboxIdle ==
    ASSUME OutboxInv, UNCHANGED outboxVars
    PROVE  OutboxInv'
BY DEF outboxVars, OutboxInv, OutboxTypeOK, RunsHoldLease, WorkersHoldRow, OpenRowsCalm,
       CouriersHoldRow, Early, Calm, Working

\* Every step of the outbox keeps the invariant.
LEMMA OutboxStep == OutboxInv /\ [OutboxNext]_outboxVars => OutboxInv'
<1> SUFFICES ASSUME OutboxInv, [OutboxNext]_outboxVars
             PROVE  OutboxInv'
  OBVIOUS
<1>1. ASSUME NEW r \in Runs, DrainStep(r)
      PROVE  OutboxInv'
  BY <1>1, LeaseSteps, ResetSteps, ClaimSteps, DispatchSteps, MarkSteps, FailureSteps
     DEF DrainStep
<1> QED BY <1>1, EventSteps, KillSteps, CodeSteps, ExpiryStep, OutboxIdle DEF OutboxNext

\* The inductive invariant of Outbox, for any number of events, codes, invocations,
\* attempts and deaths.
THEOREM OutboxInvariant == OutboxSpec => []OutboxInv
<1> QED BY OutboxStart, OutboxStep, PTL DEF OutboxSpec

\* An effect is repeated only after a death or a failed write between it and SENT:
\* never by overlapping crons, expired leases or immediate sends alone.
THEOREM RepeatNeedsInterruptionAlways == OutboxSpec => []RepeatNeedsInterruption
<1>1. OutboxInv => RepeatNeedsInterruption
  BY DEF OutboxInv, OpenRowsCalm, RepeatNeedsInterruption
<1> QED BY <1>1, OutboxInvariant, PTL

\* What a step does to the row of an event somebody is working on.
LEMMA LivingSpared ==
    ASSUME OutboxInv, [OutboxNext]_outboxVars, NEW r \in Runs, NEW e \in Events,
           Working(r), e \in run[r].job, row[e] = "PROCESSING"
    PROVE  row'[e] = "PROCESSING" \/ ~Working(r)'
<1>1. \A q \in Runs : run[q].at # "off" => q = r
  BY OneRunner DEF Working
<1>2. ASSUME NEW q \in Runs, DrainStep(q) \/ KillRun(q)
      PROVE  row'[e] = "PROCESSING" \/ ~Working(r)'
  <2>1. CASE ResetStuck(q)
    BY <2>1, ResetSteps
  <2>2. CASE \/ AcquireLease(q) \/ SelectDue(q) \/ Dispatch(q) \/ FinishBatch(q)
             \/ ReleaseLease(q) \/ KillRun(q)
    BY <2>2 DEF AcquireLease, SelectDue, Dispatch, FinishBatch, ReleaseLease, KillRun
  <2>3. CASE \E d \in Events : ClaimRow(q, d)
    BY <1>1, <2>3 DEF ClaimRow, Working
  <2>4. CASE MarkSent(q)
    BY <1>1, <2>4 DEF MarkSent, Working, OutboxInv, OutboxTypeOK, RunRecord
  <2>5. CASE HandleFailure(q)
    BY <1>1, <2>5 DEF HandleFailure, Working, OutboxInv, OutboxTypeOK, RunRecord
  <2> QED BY <1>2, <2>1, <2>2, <2>3, <2>4, <2>5 DEF DrainStep
<1>3. ASSUME NEW c \in Codes, CodeStep(c) \/ CodeDies(c)
      PROVE  row'[e] = "PROCESSING"
  BY <1>3, OutboxAssumption
     DEF CodeStep, CodeClaims, CodeHandedOver, CodeOver, CodeReleased, CodeDies,
         OutboxInv, OutboxTypeOK, CouriersHoldRow, Early
<1>4. ASSUME NEW d \in Events, EnqueueOutbox(d) \/ Tick(d)
      PROVE  row'[e] = "PROCESSING"
  BY <1>4 DEF EnqueueOutbox, Tick, OutboxInv, OutboxTypeOK
<1>5. CASE LeaseExpires
  BY <1>5 DEF LeaseExpires
<1>6. CASE UNCHANGED outboxVars
  BY <1>6 DEF outboxVars
<1> QED BY <1>2, <1>3, <1>4, <1>5, <1>6 DEF OutboxNext

\* The reset of stuck rows, which cannot tell an old row from an old claim, never
\* takes a row from an invocation at work, for any number of invocations.
THEOREM ResetSparesTheLivingAlways == OutboxSpec => ResetSparesTheLiving
<1>1. OutboxInv /\ [OutboxNext]_outboxVars =>
        [\A r \in Runs, e \in Events :
           Working(r) /\ e \in run[r].job /\ row[e] = "PROCESSING"
             => row'[e] = "PROCESSING" \/ ~Working(r)']_outboxVars
  BY LivingSpared
<1> QED BY <1>1, OutboxInvariant, PTL DEF OutboxSpec, ResetSparesTheLiving

-----------------------------------------------------------------------------
(* The refinement: what the outbox tells of each event, and what happened.   *)

Delivered == {e \in Events : effects[e] > 0}

\* A step that touches one event at most.
LEMMA OneEventRefines ==
    ASSUME NEW e \in Events,
           \A d \in Events \ {e} : OutboxOutcome'[d] = OutboxOutcome[d],
           \/ /\ Delivered' = Delivered
              /\ \/ OutboxOutcome'[e] = OutboxOutcome[e]
                 \/ OutboxOutcome[e] = "none" /\ OutboxOutcome'[e] = "open"
                 \/ OutboxOutcome[e] = "open" /\ OutboxOutcome'[e] = "given_up"
                 \/ /\ OutboxOutcome[e] = "open" /\ OutboxOutcome'[e] = "reported"
                    /\ e \in Delivered
           \/ /\ Delivered' = Delivered \cup {e}
              /\ OutboxOutcome'[e] = OutboxOutcome[e] /\ OutboxOutcome[e] # "none"
    PROVE  [Contract!Next]_<<Delivered, OutboxOutcome>>
<1>1. OutboxOutcome' = [OutboxOutcome EXCEPT ![e] = OutboxOutcome'[e]]
  BY DEF OutboxOutcome
<1>2. CASE Delivered' = Delivered /\ OutboxOutcome'[e] = OutboxOutcome[e]
  <2>1. OutboxOutcome' = OutboxOutcome
    BY <1>1, <1>2 DEF OutboxOutcome
  <2> QED BY <1>2, <2>1
<1>3. CASE /\ Delivered' = Delivered
           /\ OutboxOutcome[e] = "none" /\ OutboxOutcome'[e] = "open"
  BY <1>1, <1>3 DEF Contract!Next, Contract!Accept, Delivered
<1>4. CASE /\ Delivered' = Delivered
           /\ OutboxOutcome[e] = "open" /\ OutboxOutcome'[e] = "given_up"
  BY <1>1, <1>4 DEF Contract!Next, Contract!GiveUp, Delivered
<1>5. CASE /\ Delivered' = Delivered /\ e \in Delivered
           /\ OutboxOutcome[e] = "open" /\ OutboxOutcome'[e] = "reported"
  BY <1>1, <1>5 DEF Contract!Next, Contract!Report, Delivered
<1>6. CASE /\ Delivered' = Delivered \cup {e}
           /\ OutboxOutcome'[e] = OutboxOutcome[e] /\ OutboxOutcome[e] # "none"
  <2>1. OutboxOutcome' = OutboxOutcome
    BY <1>1, <1>6 DEF OutboxOutcome
  <2> QED BY <1>6, <2>1 DEF Contract!Next, Contract!Deliver, Delivered
<1> QED BY <1>2, <1>3, <1>4, <1>5, <1>6

\* The outcome of an event, status by status.
LEMMA OutcomeOf ==
    ASSUME NEW e \in Events, row[e] \in {"none", "PENDING", "PROCESSING", "SENT", "DEAD"}
    PROVE  /\ row[e] = "none" => OutboxOutcome[e] = "none"
           /\ row[e] = "DEAD" => OutboxOutcome[e] = "given_up"
           /\ row[e] = "SENT" => OutboxOutcome[e] = IF e \in Early THEN "open" ELSE "reported"
           /\ row[e] \in {"PENDING", "PROCESSING"} => OutboxOutcome[e] = "open"
BY DEF OutboxOutcome

\* The empty outbox is an initial state of AtLeastOnce.
LEMMA OutboxInitRefines == OutboxInit => Contract!Init
BY OutboxAssumption DEF OutboxInit, Contract!Init, OutboxOutcome, Early

\* What the outcome of a message is after a step, read off its row.
LEMMA OutcomeNext ==
    ASSUME NEW e \in Events, row'[e] \in {"none", "PENDING", "PROCESSING", "SENT", "DEAD"}
    PROVE  /\ row'[e] = "none" => OutboxOutcome'[e] = "none"
           /\ row'[e] = "DEAD" => OutboxOutcome'[e] = "given_up"
           /\ row'[e] = "SENT" => OutboxOutcome'[e] = IF e \in Early' THEN "open" ELSE "reported"
           /\ row'[e] \in {"PENDING", "PROCESSING"} => OutboxOutcome'[e] = "open"
BY DEF OutboxOutcome

\* An event whose row and courier stay as they are keeps its outcome.
LEMMA OutcomeKept ==
    ASSUME NEW e \in Events, row'[e] = row[e], e \in Early' <=> e \in Early
    PROVE  OutboxOutcome'[e] = OutboxOutcome[e]
BY DEF OutboxOutcome

\* Every step of the outbox is a step of AtLeastOnce or a stutter.
LEMMA OutboxStepRefines ==
    OutboxInv /\ OutboxInv' /\ [OutboxNext]_outboxVars
        => [Contract!Next]_<<Delivered, OutboxOutcome>>
<1> SUFFICES ASSUME OutboxInv, OutboxInv', [OutboxNext]_outboxVars
             PROVE  [Contract!Next]_<<Delivered, OutboxOutcome>>
  OBVIOUS
<1>1. \A e \in Events : /\ row[e] \in {"none", "PENDING", "PROCESSING", "SENT", "DEAD"}
                        /\ row'[e] \in {"none", "PENDING", "PROCESSING", "SENT", "DEAD"}
                        /\ effects[e] \in 0..2
  BY DEF OutboxInv, OutboxTypeOK
<1>2. CASE UNCHANGED <<row, courier, effects>>
  BY <1>2 DEF Delivered, OutboxOutcome, Early
<1>3. ASSUME NEW e \in Events, EnqueueOutbox(e)
      PROVE  [Contract!Next]_<<Delivered, OutboxOutcome>>
  <2>1. /\ \A d \in Events \ {e} : row'[d] = row[d] /\ (d \in Early' <=> d \in Early)
        /\ row[e] = "none" /\ row'[e] = "PENDING" /\ Delivered' = Delivered
    BY <1>3 DEF EnqueueOutbox, OutboxInv, OutboxTypeOK, Delivered, Early
  <2>2. OutboxOutcome[e] = "none" /\ OutboxOutcome'[e] = "open"
    BY <1>1, <2>1, OutcomeOf, OutcomeNext
  <2> QED BY <2>1, <2>2, OutcomeKept, OneEventRefines
<1>4. ASSUME NEW r \in Runs, ResetStuck(r)
      PROVE  [Contract!Next]_<<Delivered, OutboxOutcome>>
  <2>1. /\ UNCHANGED <<courier, effects>>
        /\ \A e \in Events : \/ row'[e] = row[e]
                             \/ row[e] = "PROCESSING" /\ row'[e] = "PENDING"
    BY <1>4 DEF ResetStuck
  <2>2. \A e \in Events : OutboxOutcome'[e] = OutboxOutcome[e]
    BY <2>1, <1>1, OutcomeOf, OutcomeNext, OutcomeKept DEF Early
  <2>3. OutboxOutcome' = OutboxOutcome /\ Delivered' = Delivered
    BY <2>1, <2>2 DEF OutboxOutcome, Delivered
  <2> QED BY <2>3
<1>5. ASSUME NEW r \in Runs, NEW e \in Events, ClaimRow(r, e)
      PROVE  [Contract!Next]_<<Delivered, OutboxOutcome>>
  <2>1. CASE row[e] = "PENDING"
    <3>1. /\ \A d \in Events \ {e} : row'[d] = row[d] /\ (d \in Early' <=> d \in Early)
          /\ row'[e] = "PROCESSING" /\ Delivered' = Delivered
      BY <1>5, <2>1 DEF ClaimRow, OutboxInv, OutboxTypeOK, Delivered, Early
    <3>2. OutboxOutcome[e] = "open" /\ OutboxOutcome'[e] = "open"
      BY <1>1, <2>1, <3>1, OutcomeOf, OutcomeNext
    <3> QED BY <3>1, <3>2, OutcomeKept, OneEventRefines
  <2>2. CASE row[e] # "PENDING"
    BY <1>2, <1>5, <2>2 DEF ClaimRow
  <2> QED BY <2>1, <2>2
<1>6. ASSUME NEW r \in Runs, Dispatch(r) \/ MarkSent(r) \/ HandleFailure(r)
      PROVE  [Contract!Next]_<<Delivered, OutboxOutcome>>
  <2>1. Working(r)
    BY <1>6 DEF Dispatch, MarkSent, HandleFailure, Working
  <2>2. PICK e \in Events : /\ run[r].job = {e} /\ row[e] = "PROCESSING" /\ e \notin Early
                            /\ run[r].at = "dispatched" => effects[e] > 0
    BY <2>1, JobOf
  <2>3. OutboxOutcome[e] = "open"
    BY <2>2, OutcomeOf
  <2>4. CASE Dispatch(r)
    <3>1. UNCHANGED <<row, courier>>
      BY <2>4 DEF Dispatch
    <3>2. OutboxOutcome' = OutboxOutcome
      BY <3>1 DEF OutboxOutcome, Early
    <3>3. Again(effects[e]) > 0
      BY <1>1 DEF Again
    <3>4. Delivered' = Delivered \/ Delivered' = Delivered \cup {e}
      BY <2>2, <2>4, <3>3 DEF Dispatch, Delivered
    <3> QED BY <2>3, <3>2, <3>4, OneEventRefines
  <2>5. CASE MarkSent(r)
    <3>1. run[r].at = "dispatched" /\ UNCHANGED <<courier, effects>>
      BY <2>5 DEF MarkSent
    <3>2. CASE row' = [d \in Events |-> IF d \in run[r].job THEN "SENT" ELSE row[d]]
      <4>1. row'[e] = "SENT" /\ \A d \in Events \ {e} : row'[d] = row[d]
        BY <2>2, <3>2
      <4>2. OutboxOutcome'[e] = "reported"
        BY <2>2, <3>1, <4>1, OutcomeNext DEF Early
      <4>3. e \in Delivered /\ Delivered' = Delivered
        BY <2>2, <3>1 DEF Delivered
      <4> QED BY <2>3, <3>1, <4>1, <4>2, <4>3, OutcomeKept, OneEventRefines DEF Early
    <3>3. CASE row' = row
      BY <1>2, <3>1, <3>3
    <3> QED BY <2>5, <3>2, <3>3 DEF MarkSent
  <2>6. CASE HandleFailure(r)
    <3>1. UNCHANGED <<courier, effects>>
      BY <2>6 DEF HandleFailure
    <3>2. /\ row'[e] \in {"PROCESSING", "PENDING", "DEAD"}
          /\ \A d \in Events \ {e} : row'[d] = row[d]
      BY <2>2, <2>6 DEF HandleFailure
    <3>3. OutboxOutcome'[e] \in {"open", "given_up"}
      BY <3>2, OutcomeNext
    <3> QED BY <2>3, <3>1, <3>2, <3>3, OutcomeKept, OneEventRefines DEF Early, Delivered
  <2> QED BY <1>6, <2>4, <2>5, <2>6
<1>7. ASSUME NEW c \in Codes, CodeStep(c) \/ CodeDies(c)
      PROVE  [Contract!Next]_<<Delivered, OutboxOutcome>>
  <2>1. c \in Events
    BY OutboxAssumption
  <2>2. \A d \in Events \ {c} : row'[d] = row[d] /\ (d \in Early' <=> d \in Early)
    BY <1>7 DEF CodeStep, CodeClaims, CodeHandedOver, CodeOver, CodeReleased, CodeDies,
                OutboxInv, OutboxTypeOK, Early
  <2>3. CASE CodeClaims(c)
    <3>1. Delivered' = Delivered
      BY <2>3 DEF CodeClaims, Delivered
    <3>2. OutboxOutcome'[c] = OutboxOutcome[c]
      <4>1. CASE row[c] = "PENDING"
        <5>1. row'[c] = "SENT" /\ c \in Early'
          BY <2>1, <2>3, <4>1 DEF CodeClaims, OutboxInv, OutboxTypeOK, Early
        <5> QED BY <2>1, <4>1, <5>1, OutcomeOf, OutcomeNext
      <4>2. CASE row[c] # "PENDING"
        <5>1. row'[c] = row[c] /\ c \notin Early /\ c \notin Early'
          BY <2>3, <4>2 DEF CodeClaims, OutboxInv, OutboxTypeOK, Early
        <5> QED BY <2>1, <5>1, OutcomeKept
      <4> QED BY <4>1, <4>2
    <3> QED BY <2>1, <2>2, <3>1, <3>2, OutcomeKept, OneEventRefines
  <2>4. CASE CodeHandedOver(c)
    <3>1. row' = row /\ c \in Early /\ c \in Early' /\ row[c] = "SENT"
      BY <2>1, <2>4 DEF CodeHandedOver, OutboxInv, OutboxTypeOK, CouriersHoldRow, Early
    <3>2. OutboxOutcome'[c] = OutboxOutcome[c] /\ OutboxOutcome[c] = "open"
      BY <2>1, <3>1, OutcomeKept, OutcomeOf
    <3>3. Again(effects[c]) > 0
      BY <1>1, <2>1 DEF Again
    <3>4. Delivered' = Delivered \cup {c}
      BY <2>1, <2>4, <3>3 DEF CodeHandedOver, OutboxInv, OutboxTypeOK, Delivered
    <3> QED BY <2>1, <2>2, <3>2, <3>4, OutcomeKept, OneEventRefines
  <2>5. CASE CodeOver(c)
    <3>1. /\ row' = row /\ c \in Early /\ c \notin Early' /\ row[c] = "SENT"
          /\ effects[c] > 0 /\ effects' = effects
      BY <2>1, <2>5 DEF CodeOver, OutboxInv, OutboxTypeOK, CouriersHoldRow, Early
    <3>2. OutboxOutcome[c] = "open" /\ OutboxOutcome'[c] = "reported"
      BY <2>1, <3>1, OutcomeOf, OutcomeNext
    <3>3. c \in Delivered /\ Delivered' = Delivered
      BY <2>1, <3>1 DEF Delivered
    <3> QED BY <2>1, <2>2, <3>2, <3>3, OutcomeKept, OneEventRefines
  <2>6. CASE CodeReleased(c) \/ CodeDies(c)
    <3>1. /\ row[c] = "SENT" /\ c \in Early /\ effects' = effects
          /\ row'[c] = "PENDING" \/ (row'[c] = "SENT" /\ c \in Early')
      BY <2>1, <2>6 DEF CodeReleased, CodeDies, OutboxInv, OutboxTypeOK, CouriersHoldRow, Early
    <3>2. OutboxOutcome[c] = "open" /\ OutboxOutcome'[c] = "open"
      BY <2>1, <3>1, OutcomeOf, OutcomeNext
    <3> QED BY <2>1, <2>2, <3>1, <3>2, OutcomeKept, OneEventRefines DEF Delivered
  <2> QED BY <1>7, <2>3, <2>4, <2>5, <2>6 DEF CodeStep
<1>8. ASSUME NEW r \in Runs,
             \/ AcquireLease(r) \/ SelectDue(r) \/ FinishBatch(r) \/ ReleaseLease(r) \/ KillRun(r)
      PROVE  [Contract!Next]_<<Delivered, OutboxOutcome>>
  BY <1>2, <1>8 DEF AcquireLease, SelectDue, FinishBatch, ReleaseLease, KillRun
<1>9. ASSUME NEW e \in Events, Tick(e)
      PROVE  [Contract!Next]_<<Delivered, OutboxOutcome>>
  BY <1>2, <1>9 DEF Tick
<1>10. CASE LeaseExpires \/ UNCHANGED outboxVars
  BY <1>2, <1>10 DEF LeaseExpires, outboxVars
<1> QED BY <1>3, <1>4, <1>5, <1>6, <1>7, <1>8, <1>9, <1>10 DEF OutboxNext, DrainStep

\* The outbox implements AtLeastOnce: SENT is reported only of an effect that
\* happened, a committed event is never forgotten, and only an event given up stops
\* short of SENT, whatever dies under way.
THEOREM OutboxRefines == OutboxSpec => OutboxIsAtLeastOnce
<1>1. OutboxInit => Contract!Init
  BY OutboxInitRefines
<1>2. OutboxInv /\ OutboxInv' /\ [OutboxNext]_outboxVars
        => [Contract!Next]_<<{e \in Events : effects[e] > 0}, OutboxOutcome>>
  BY OutboxStepRefines DEF Delivered
<1> QED BY <1>1, <1>2, OutboxInvariant, PTL DEF OutboxSpec, OutboxIsAtLeastOnce, Contract!Spec

-----------------------------------------------------------------------------
(* What AtLeastOnce means for the rows.                                      *)

\* SENT means that the side effect happened (a code whose request is still under way
\* or died has SENT as its lock), and only a committed event has one.
SentIsDispatched == \A e \in Events :
    /\ row[e] = "SENT" => effects[e] > 0 \/ e \in Early
    /\ effects[e] > 0 => row[e] # "none"

\* What was reported or given up stays so, and what was committed stays known.
OutcomesStand == [][\A e \in Events :
    /\ OutboxOutcome[e] \in {"reported", "given_up"} => OutboxOutcome'[e] = OutboxOutcome[e]
    /\ OutboxOutcome[e] # "none" => OutboxOutcome'[e] # "none"]_<<Delivered, OutboxOutcome>>

\* Both follow from the abstract specification alone, which the outbox implements.
THEOREM SentIsDispatchedAlways == OutboxSpec => []SentIsDispatched /\ OutcomesStand
<1> DEFINE Kept == \A e \in Events : /\ OutboxOutcome[e] = "reported" => e \in Delivered
                                     /\ e \in Delivered => OutboxOutcome[e] # "none"
<1>1. Contract!Init => Kept
  BY DEF Contract!Init, Delivered
<1>2. Kept /\ [Contract!Next]_<<Delivered, OutboxOutcome>> => Kept'
  <2> SUFFICES ASSUME Kept, [Contract!Next]_<<Delivered, OutboxOutcome>>
               PROVE  Kept'
    OBVIOUS
  <2>1. CASE UNCHANGED <<Delivered, OutboxOutcome>>
    BY <2>1
  <2>2. ASSUME NEW m \in Events, NEW v \in {"open", "reported", "given_up"},
               OutboxOutcome' = [OutboxOutcome EXCEPT ![m] = v], Delivered' = Delivered,
               v = "reported" => m \in Delivered
        PROVE  Kept'
    BY <2>2 DEF OutboxOutcome
  <2>3. ASSUME NEW m \in Events, Contract!Deliver(m)
        PROVE  Kept'
    BY <2>3 DEF Contract!Deliver, Delivered
  <2> QED BY <2>1, <2>2, <2>3 DEF Contract!Next, Contract!Accept, Contract!Report, Contract!GiveUp,
             Contract!Reopen, Delivered
<1>3. [Contract!Next]_<<Delivered, OutboxOutcome>>
        => [\A e \in Events :
              /\ OutboxOutcome[e] \in {"reported", "given_up"} => OutboxOutcome'[e] = OutboxOutcome[e]
              /\ OutboxOutcome[e] # "none" => OutboxOutcome'[e] # "none"]_<<Delivered, OutboxOutcome>>
  BY DEF Contract!Next, Contract!Accept, Contract!Report, Contract!GiveUp, Contract!Reopen,
         Contract!Deliver, OutboxOutcome
<1>4. OutboxInv /\ Kept => SentIsDispatched
  BY DEF SentIsDispatched, OutboxOutcome, Delivered, OutboxInv, OutboxTypeOK
<1>5. OutboxInit => Contract!Init
  BY OutboxInitRefines
<1>6. OutboxInv /\ OutboxInv' /\ [OutboxNext]_outboxVars => [Contract!Next]_<<Delivered, OutboxOutcome>>
  BY OutboxStepRefines
<1> QED BY <1>1, <1>2, <1>3, <1>4, <1>5, <1>6, OutboxInvariant, PTL DEF OutboxSpec, OutcomesStand
=============================================================================
