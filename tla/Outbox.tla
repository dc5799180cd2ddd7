-------------------------------- MODULE Outbox ---------------------------------
(***************************************************************************)
(* The outbox: events committed with a business transaction, the cron      *)
(* invocations that drain them under a Redis lease, and the request        *)
(* handlers that deliver a verification code at once without the lease.    *)
(*                                                                         *)
(* One action is one statement against Postgres or Redis: an invocation    *)
(* can be killed between any two of them.                                  *)
(***************************************************************************)
EXTENDS Naturals

CONSTANTS
    Events,         \* OutboxEvent rows
    Codes,          \* those of kind email.verification_code
    Runs,           \* invocations of POST /api/cron/outbox-drain
    MaxAttempts,    \* MAX_ATTEMPTS
    MaxKills        \* bound: invocations killed, or whose failure write fails

NoRun == "no_run"

ASSUME OutboxAssumption ==
    /\ Codes \subseteq Events
    /\ NoRun \notin Runs
    /\ MaxAttempts \in Nat \ {0}
    /\ MaxKills \in Nat

VARIABLES
    row,        \* OutboxEvent.status, "none" before the row is committed
    attempts,   \* OutboxEvent.attempts
    scheduled,  \* OutboxEvent.scheduledAt against the clock
    leader,     \* the value of the key cron:lease:outbox-drain
    run,        \* what each invocation is doing
    courier,    \* sendVerificationCodeNow of each code
    effects,    \* how often the side effect of an event ran
    kills,      \* how many invocations ended that way
    rough       \* history: events whose delivery was interrupted

outboxVars == <<row, attempts, scheduled, leader, run, courier, effects, kills, rough>>

RunIdle == [at |-> "off", batch |-> {}, job |-> {}, tries |-> 0]

\* `job` is the event of the iteration under way, as a set of at most one.
RunRecord == [at: {"off", "reset", "select", "loop", "claimed", "dispatched",
                   "failed", "release"},
              batch: SUBSET Events, job: SUBSET Events, tries: Nat]

OutboxTypeOK ==
    /\ row \in [Events -> {"none", "PENDING", "PROCESSING", "SENT", "DEAD"}]
    /\ attempts \in [Events -> Nat]
    /\ scheduled \in [Events -> {"future", "due", "old"}]
    /\ leader \in Runs \cup {NoRun}
    /\ run \in [Runs -> RunRecord]
    /\ courier \in [Codes -> {"idle", "claimed", "handed", "over", "lost"}]
    /\ effects \in [Events -> 0..2]
    /\ kills \in 0..MaxKills
    /\ rough \subseteq Events

OutboxInit ==
    /\ row = [e \in Events |-> "none"]
    /\ attempts = [e \in Events |-> 0]
    /\ scheduled = [e \in Events |-> "due"]
    /\ leader = NoRun
    /\ run = [r \in Runs |-> RunIdle]
    /\ courier = [c \in Codes |-> "idle"]
    /\ effects = [e \in Events |-> 0]
    /\ kills = 0
    /\ rough = {}

-----------------------------------------------------------------------------
\* enqueueOutbox, in the transaction of the state change it announces.
EnqueueOutbox(e) ==
    /\ row[e] = "none"
    /\ row' = [row EXCEPT ![e] = "PENDING"]
    /\ UNCHANGED <<attempts, scheduled, leader, run, courier, effects, kills, rough>>

\* The clock: a backoff ends; then scheduledAt is more than STUCK_RESET_MS ago.
Tick(e) ==
    /\ row[e] \in {"PENDING", "PROCESSING"}
    /\ scheduled[e] # "old"
    /\ scheduled' = [scheduled EXCEPT ![e] = IF @ = "future" THEN "due" ELSE "old"]
    /\ UNCHANGED <<row, attempts, leader, run, courier, effects, kills, rough>>

(* withLease.  LEASE_TTL_MS is twice maxDuration: the key only expires       *)
(* once its holder is gone.                                                  *)

\* Mutant of AcquireLease: the key is set without NX.
TakeLease(r) ==
    /\ run[r].at = "off"
    /\ leader' = r
    /\ run' = [run EXCEPT ![r].at = "reset"]
    /\ UNCHANGED <<row, attempts, scheduled, courier, effects, kills, rough>>

AcquireLease(r) ==
    /\ run[r].at = "off"
    /\ leader = NoRun
    /\ leader' = r
    /\ run' = [run EXCEPT ![r].at = "reset"]
    /\ UNCHANGED <<row, attempts, scheduled, courier, effects, kills, rough>>

\* The `finally`: GET and DEL.  When Redis fails the key stays until it expires.
ReleaseLease(r) ==
    /\ run[r].at = "release"
    /\ \E answered \in BOOLEAN :
         leader' = IF answered /\ leader = r THEN NoRun ELSE leader
    /\ run' = [run EXCEPT ![r] = RunIdle]
    /\ UNCHANGED <<row, attempts, scheduled, courier, effects, kills, rough>>

LeaseExpires ==
    /\ leader # NoRun
    /\ run[leader].at = "off"
    /\ leader' = NoRun
    /\ UNCHANGED <<row, attempts, scheduled, run, courier, effects, kills, rough>>

\* Mutant of ResetStuck: rows left PROCESSING are not looked for.
ResetNothing(r) ==
    /\ run[r].at = "reset"
    /\ run' = [run EXCEPT ![r].at = "select"]
    /\ UNCHANGED <<row, attempts, scheduled, leader, courier, effects, kills, rough>>

\* The row's PROCESSING state is taken for abandoned when scheduledAt is old: the
\* claim does not touch scheduledAt, so this says nothing about the claim's age.
ResetStuck(r) ==
    LET stuck == {e \in Events : row[e] = "PROCESSING" /\ scheduled[e] = "old"} IN
    /\ run[r].at = "reset"
    /\ row' = [e \in Events |-> IF e \in stuck THEN "PENDING" ELSE row[e]]
    /\ scheduled' = [e \in Events |-> IF e \in stuck THEN "due" ELSE scheduled[e]]
    /\ run' = [run EXCEPT ![r].at = "select"]
    /\ UNCHANGED <<attempts, leader, courier, effects, kills, rough>>

SelectDue(r) ==
    /\ run[r].at = "select"
    /\ run' = [run EXCEPT ![r].at = "loop",
                          ![r].batch = {e \in Events : /\ row[e] = "PENDING"
                                                       /\ scheduled[e] # "future"}]
    /\ UNCHANGED <<row, attempts, scheduled, leader, courier, effects, kills, rough>>

\* Mutant of ClaimRow: the claim already writes SENT.
ClaimAsSent(r, e) ==
    /\ run[r].at = "loop"
    /\ e \in run[r].batch /\ row[e] = "PENDING"
    /\ row' = [row EXCEPT ![e] = "SENT"]
    /\ attempts' = [attempts EXCEPT ![e] = @ + 1]
    /\ run' = [run EXCEPT ![r] = [at |-> "claimed", batch |-> @.batch \ {e},
                                  job |-> {e}, tries |-> attempts[e] + 1]]
    /\ UNCHANGED <<scheduled, leader, courier, effects, kills, rough>>

\* One iteration: the guarded claim and the re-read of the row.
ClaimRow(r, e) ==
    /\ run[r].at = "loop"
    /\ e \in run[r].batch
    /\ IF row[e] = "PENDING"
       THEN /\ row' = [row EXCEPT ![e] = "PROCESSING"]
            /\ attempts' = [attempts EXCEPT ![e] = @ + 1]
            /\ run' = [run EXCEPT ![r] = [at |-> "claimed", batch |-> @.batch \ {e},
                                          job |-> {e}, tries |-> attempts[e] + 1]]
       ELSE /\ run' = [run EXCEPT ![r].batch = @ \ {e}]
            /\ UNCHANGED <<row, attempts>>
    /\ UNCHANGED <<scheduled, leader, courier, effects, kills, rough>>

\* History: once is once, more is "twice".
Again(n) == IF n < 2 THEN n + 1 ELSE n

\* dispatchEvent: the side effect happens, or the handler throws before it did.
Dispatch(r) ==
    /\ run[r].at = "claimed"
    /\ \/ /\ effects' = [e \in Events |->
                            IF e \in run[r].job THEN Again(effects[e]) ELSE effects[e]]
          /\ run' = [run EXCEPT ![r].at = "dispatched"]
       \/ /\ run' = [run EXCEPT ![r].at = "failed"]
          /\ UNCHANGED effects
    /\ UNCHANGED <<row, attempts, scheduled, leader, courier, kills, rough>>

\* The update to SENT is unconditional; if it throws, the catch block runs
\* although the side effect happened.
MarkSent(r) ==
    /\ run[r].at = "dispatched"
    /\ \/ /\ row' = [e \in Events |-> IF e \in run[r].job THEN "SENT" ELSE row[e]]
          /\ run' = [run EXCEPT ![r].at = "loop", ![r].job = {}]
          /\ UNCHANGED rough
       \/ /\ run' = [run EXCEPT ![r].at = "failed"]
          /\ rough' = rough \cup run[r].job
          /\ UNCHANGED row
    /\ UNCHANGED <<attempts, scheduled, leader, courier, effects, kills>>

\* The catch block: DEAD after MAX_ATTEMPTS, else PENDING with a backoff.  Its own
\* update may throw: the run ends and the row stays PROCESSING.
HandleFailure(r) ==
    LET final == run[r].tries >= MaxAttempts
        job == run[r].job IN
    /\ run[r].at = "failed"
    /\ \/ /\ row' = [e \in Events |-> IF e \notin job THEN row[e]
                                      ELSE IF final THEN "DEAD" ELSE "PENDING"]
          /\ scheduled' = [e \in Events |-> IF e \in job /\ ~final
                                            THEN "future" ELSE scheduled[e]]
          /\ run' = [run EXCEPT ![r].at = "loop", ![r].job = {}]
          /\ UNCHANGED kills
       \/ /\ kills < MaxKills
          /\ kills' = kills + 1
          /\ run' = [run EXCEPT ![r].at = "release"]
          /\ UNCHANGED <<row, scheduled>>
    /\ UNCHANGED <<attempts, leader, courier, effects, rough>>

FinishBatch(r) ==
    /\ run[r].at = "loop" /\ run[r].batch = {}
    /\ run' = [run EXCEPT ![r].at = "release"]
    /\ UNCHANGED <<row, attempts, scheduled, leader, courier, effects, kills, rough>>

\* The platform kills the invocation (crash, or maxDuration): the lease and the
\* row it was working on stay as they are.
KillRun(r) ==
    /\ run[r].at # "off"
    /\ kills < MaxKills
    /\ kills' = kills + 1
    /\ rough' = IF run[r].at = "dispatched" THEN rough \cup run[r].job ELSE rough
    /\ run' = [run EXCEPT ![r] = RunIdle]
    /\ UNCHANGED <<row, attempts, scheduled, leader, courier, effects>>

-----------------------------------------------------------------------------
(* sendVerificationCodeNow, after the response of the request that           *)
(* committed the code.                                                       *)

CodeClaims(c) ==
    /\ courier[c] = "idle"
    /\ row[c] # "none"
    /\ IF row[c] = "PENDING"
       THEN /\ row' = [row EXCEPT ![c] = "SENT"]
            /\ courier' = [courier EXCEPT ![c] = "claimed"]
       ELSE /\ courier' = [courier EXCEPT ![c] = "over"]
            /\ UNCHANGED row
    /\ UNCHANGED <<attempts, scheduled, leader, run, effects, kills, rough>>

\* queue.enqueue sets handedToQueue: from here the email queue owns delivery.
CodeHandedOver(c) ==
    /\ courier[c] = "claimed"
    /\ effects' = [effects EXCEPT ![c] = Again(@)]
    /\ courier' = [courier EXCEPT ![c] = "handed"]
    /\ UNCHANGED <<row, attempts, scheduled, leader, run, kills, rough>>

\* Mutant of CodeOver: drainOne throws and the row is released all the same.
CodeReleasedLate(c) ==
    /\ courier[c] = "handed"
    /\ courier' = [courier EXCEPT ![c] = "over"]
    /\ row' = [row EXCEPT ![c] = "PENDING"]
    /\ UNCHANGED <<attempts, scheduled, leader, run, effects, kills, rough>>

\* drainOne returns, throws or dies: the row is not released any more.
CodeOver(c) ==
    /\ courier[c] = "handed"
    /\ courier' = [courier EXCEPT ![c] = "over"]
    /\ UNCHANGED <<row, attempts, scheduled, leader, run, effects, kills, rough>>

\* enqueue throws: the row is released.  An error of the release is swallowed.
CodeReleased(c) ==
    /\ courier[c] = "claimed"
    /\ \/ /\ row' = [row EXCEPT ![c] = "PENDING"]
          /\ courier' = [courier EXCEPT ![c] = "over"]
       \/ /\ courier' = [courier EXCEPT ![c] = "lost"]
          /\ UNCHANGED row
    /\ UNCHANGED <<attempts, scheduled, leader, run, effects, kills, rough>>

CodeDies(c) ==
    /\ courier[c] = "claimed"
    /\ kills < MaxKills
    /\ kills' = kills + 1
    /\ courier' = [courier EXCEPT ![c] = "lost"]
    /\ UNCHANGED <<row, attempts, scheduled, leader, run, effects, rough>>

-----------------------------------------------------------------------------
DrainStep(r) ==
    \/ AcquireLease(r) \/ ResetStuck(r) \/ SelectDue(r)
    \/ \E e \in Events : ClaimRow(r, e)
    \/ Dispatch(r) \/ MarkSent(r) \/ HandleFailure(r)
    \/ FinishBatch(r) \/ ReleaseLease(r)

CodeStep(c) == CodeClaims(c) \/ CodeHandedOver(c) \/ CodeOver(c) \/ CodeReleased(c)

OutboxNext ==
    \/ \E e \in Events : EnqueueOutbox(e) \/ Tick(e)
    \/ \E r \in Runs : DrainStep(r) \/ KillRun(r)
    \/ \E c \in Codes : CodeStep(c) \/ CodeDies(c)
    \/ LeaseExpires

OutboxSpec == OutboxInit /\ [][OutboxNext]_outboxVars

\* The cron fires every minute and an invocation that is not killed runs to its
\* end; time passes and the lease key expires.
OutboxFairness ==
    /\ \A r \in Runs : WF_outboxVars(DrainStep(r))
    /\ \A c \in Codes : WF_outboxVars(CodeStep(c))
    /\ \A e \in Events : WF_outboxVars(Tick(e))
    /\ WF_outboxVars(LeaseExpires)

OutboxFairSpec == OutboxSpec /\ OutboxFairness

-----------------------------------------------------------------------------
\* Codes a request handler claimed early: SENT is its lock, not yet a report.
Early == {c \in Codes : courier[c] \in {"claimed", "handed", "lost"}}

OutboxOutcome == [e \in Events |->
    CASE row[e] = "none"                   -> "none"
      [] row[e] = "DEAD"                   -> "given_up"
      [] row[e] = "SENT" /\ e \notin Early -> "reported"
      [] OTHER                             -> "open"]

Contract == INSTANCE AtLeastOnce WITH
    Messages <- Events, Reopenable <- {},
    delivered <- {e \in Events : effects[e] > 0}, outcome <- OutboxOutcome

\* The outbox implements AtLeastOnce: whatever dies or fails, the dispatcher
\* reports SENT only after the side effect happened, a committed event is never
\* un-committed, and only an event it gave up stops short of SENT.
OutboxIsAtLeastOnce == Contract!Spec

Working(r) == run[r].at \in {"claimed", "dispatched", "failed"}

\* The reset of stuck rows, which looks at scheduledAt only, never takes a row from
\* an invocation that is still working on it: only the lease prevents it.
ResetSparesTheLiving ==
    [][\A r \in Runs, e \in Events :
         Working(r) /\ e \in run[r].job /\ row[e] = "PROCESSING"
             => row'[e] = "PROCESSING" \/ ~Working(r)']_outboxVars

\* A side effect runs twice only if an invocation died, or a write failed, between
\* the effect and SENT: crons, leases and immediate sends alone never repeat it.
RepeatNeedsInterruption == \A e \in Events : effects[e] > 1 => e \in rough

\* Liveness: every committed event ends SENT or DEAD, whatever dies under way.
EventsEnd == \A e \in Events : row[e] = "PENDING" ~> row[e] \in {"SENT", "DEAD"}
=============================================================================
