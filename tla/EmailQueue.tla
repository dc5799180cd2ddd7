------------------------------ MODULE EmailQueue -------------------------------
(***************************************************************************)
(* The email queue: EmailJob rows in Postgres, and a Redis job queue that  *)
(* points at them.  The drain cron works it off under a lease, one         *)
(* invocation at a time; request handlers call drainOne once each without  *)
(* the lease, so workers overlap.                                          *)
(*                                                                         *)
(* One action is one Redis or Postgres statement; a worker can be killed   *)
(* between any two, and a statement that throws ends it the same way.      *)
(***************************************************************************)
EXTENDS Naturals

CONSTANTS
    Jobs,           \* EmailJob rows, one enqueue each
    Cron,           \* POST /api/cron/email-queue-drain, invocation after invocation
    Handlers,       \* request handlers: sendVerificationCodeNow, sendTeamInviteNow
    MaxTries,       \* maxAttempts of the queue
    MaxCrashes,     \* bound: workers and producers killed
    Unstamped       \* an entry without claimedAt

Workers == Cron \cup Handlers

ASSUME EmailQueueAssumption ==
    /\ Cron \cap Handlers = {}
    /\ MaxTries \in Nat \ {0}
    /\ MaxCrashes \in Nat
    /\ Unstamped \notin Workers \X (0..MaxCrashes)

VARIABLES
    email,      \* EmailJob.status, "none" before the row exists
    producer,   \* how far EmailQueue.enqueue has come for each row
    main,       \* q:email, how often each entry is in it
    inFlight,   \* q:email:in-flight, likewise
    delayed,    \* q:email:delayed, a sorted set
    aged,       \* entries whose retry delay or visibility timeout has passed
    worker,     \* what each worker is doing
    life,       \* which invocation each worker is in (it stamps its claims)
    crashes,    \* workers and producers killed so far
    sends,      \* how often the mailer accepted the message
    dropped,    \* history: jobs whose entry died in a worker's hands
    stolen      \* history: jobs whose claim was recovered while being made

queueVars == <<main, inFlight, delayed, aged>>
emailVars == <<email, producer, queueVars, worker, life, crashes, sends, dropped, stolen>>

\* A QueueJob as it is serialised: id, attempts, claimedAt.
Entry == [job: Jobs, tries: 0..MaxTries,
          by: {Unstamped} \cup (Workers \X (0..MaxCrashes))]

Fresh(j) == [job |-> j, tries |-> 0, by |-> Unstamped]
Stamp(e, w) == [e EXCEPT !.by = <<w, life[w]>>]
Clean(e) == [e EXCEPT !.by = Unstamped]

WorkerIdle == [at |-> "off", todo |-> {}, hold |-> {}]
WorkerRecord ==
    [at: {"off", "gone", "recover", "requeue", "promote", "repush", "moved", "stamp",
          "read", "send", "accepted", "failing", "failed", "retry", "dead", "ack"},
     todo: SUBSET Entry, hold: SUBSET Entry]

EmailTypeOK ==
    /\ email \in [Jobs -> {"none", "PENDING", "SENT", "FAILED", "DEAD"}]
    /\ producer \in [Jobs -> {"idle", "created", "over", "lost"}]
    /\ main \in [Entry -> Nat]
    /\ inFlight \in [Entry -> Nat]
    /\ delayed \subseteq Entry
    /\ aged \subseteq Entry
    /\ worker \in [Workers -> WorkerRecord]
    /\ life \in [Workers -> 0..MaxCrashes]
    /\ crashes \in 0..MaxCrashes
    /\ sends \in [Jobs -> 0..2]
    /\ dropped \subseteq Jobs
    /\ stolen \subseteq Jobs

EmailInit ==
    /\ email = [j \in Jobs |-> "none"]
    /\ producer = [j \in Jobs |-> "idle"]
    /\ main = [e \in Entry |-> 0]
    /\ inFlight = [e \in Entry |-> 0]
    /\ delayed = {} /\ aged = {}
    /\ worker = [w \in Workers |-> WorkerIdle]
    /\ life = [w \in Workers |-> 0]
    /\ crashes = 0
    /\ sends = [j \in Jobs |-> 0]
    /\ dropped = {} /\ stolen = {}

LPush(list, e) == [list EXCEPT ![e] = @ + 1]
LRem(list, e) == [list EXCEPT ![e] = IF @ > 0 THEN @ - 1 ELSE 0]

\* w goes on to `at`, holding the entries of `hold`.
Goes(w, at, hold) ==
    worker' = [worker EXCEPT ![w] = [at |-> at, todo |-> @.todo, hold |-> hold]]

\* drainOne returns or is cut off: the cron calls it again, a handler does not.
AtRest(w) == IF w \in Cron THEN "off" ELSE "gone"

-----------------------------------------------------------------------------
(* EmailQueue.enqueue: the row, then the pointer.                            *)

CreateRow(j) ==
    /\ producer[j] = "idle"
    /\ email' = [email EXCEPT ![j] = "PENDING"]
    /\ producer' = [producer EXCEPT ![j] = "created"]
    /\ UNCHANGED <<queueVars, worker, life, crashes, sends, dropped, stolen>>

PushPointer(j) ==
    /\ producer[j] = "created"
    /\ main' = LPush(main, Fresh(j))
    /\ producer' = [producer EXCEPT ![j] = "over"]
    /\ UNCHANGED <<email, inFlight, delayed, aged, worker, life, crashes, sends, dropped, stolen>>

ProducerDies(j) ==
    /\ producer[j] = "created"
    /\ crashes < MaxCrashes
    /\ crashes' = crashes + 1
    /\ producer' = [producer EXCEPT ![j] = "lost"]
    /\ UNCHANGED <<email, queueVars, worker, life, sends, dropped, stolen>>

-----------------------------------------------------------------------------
(* JobQueue.processNext: recoverStaleClaims, drainDue, claim.                *)

Stale(e) == e.by = Unstamped \/ e \in aged      \* claimedAt ?? 0

\* Mutant of ScanInFlight: nothing in flight is ever stale.
ScanNothing(w) ==
    /\ worker[w].at = "off"
    /\ worker' = [worker EXCEPT ![w] = [at |-> "recover", hold |-> {}, todo |-> {}]]
    /\ UNCHANGED <<email, producer, queueVars, life, crashes, sends, dropped, stolen>>

ScanInFlight(w) ==
    /\ worker[w].at = "off"
    /\ worker' = [worker EXCEPT ![w] = [at |-> "recover", hold |-> {},
                    todo |-> {e \in Entry : inFlight[e] > 0 /\ Stale(e)}]]
    /\ UNCHANGED <<email, producer, queueVars, life, crashes, sends, dropped, stolen>>

RecoverStale(w, e) ==
    /\ worker[w].at = "recover"
    /\ e \in worker[w].todo
    /\ inFlight' = LRem(inFlight, e)
    /\ aged' = IF inFlight[e] = 1 THEN aged \ {e} ELSE aged
    /\ worker' = [worker EXCEPT ![w] = [
                    at   |-> IF inFlight[e] > 0 THEN "requeue" ELSE "recover",
                    todo |-> @.todo \ {e},
                    hold |-> IF inFlight[e] > 0 THEN {Clean(e)} ELSE {}]]
    /\ UNCHANGED <<email, producer, main, delayed, life, crashes, sends, dropped, stolen>>

\* The LPUSH after a successful LREM or ZREM.
PushBack(w) ==
    /\ worker[w].at \in {"requeue", "repush"}
    /\ \E e \in worker[w].hold : main' = LPush(main, e)
    /\ Goes(w, IF worker[w].at = "requeue" THEN "recover" ELSE "promote", {})
    /\ UNCHANGED <<email, producer, inFlight, delayed, aged, life, crashes, sends, dropped, stolen>>

ScanDelayed(w) ==
    /\ worker[w].at = "recover" /\ worker[w].todo = {}
    /\ worker' = [worker EXCEPT ![w] = [at |-> "promote", hold |-> {},
                                        todo |-> delayed \cap aged]]
    /\ UNCHANGED <<email, producer, queueVars, life, crashes, sends, dropped, stolen>>

PromoteDue(w, e) ==
    /\ worker[w].at = "promote"
    /\ e \in worker[w].todo
    /\ delayed' = delayed \ {e}
    /\ aged' = IF e \in delayed THEN aged \ {e} ELSE aged
    /\ worker' = [worker EXCEPT ![w] = [
                    at   |-> IF e \in delayed THEN "repush" ELSE "promote",
                    todo |-> @.todo \ {e},
                    hold |-> IF e \in delayed THEN {e} ELSE {}]]
    /\ UNCHANGED <<email, producer, main, inFlight, life, crashes, sends, dropped, stolen>>

\* LMOVE main -> in-flight.  Which entry is oldest is left open.
ClaimJob(w) ==
    /\ worker[w].at = "promote" /\ worker[w].todo = {}
    /\ \/ \E e \in Entry :
            /\ main[e] > 0
            /\ main' = LRem(main, e)
            /\ inFlight' = LPush(inFlight, e)
            /\ Goes(w, "moved", {e})
       \/ /\ \A e \in Entry : main[e] = 0
          /\ Goes(w, AtRest(w), {})
          /\ UNCHANGED <<main, inFlight>>
    /\ UNCHANGED <<email, producer, delayed, aged, life, crashes, sends, dropped, stolen>>

\* Mutant of RemoveUnstamped: the stamped entry is not pushed.
StampInMemory(w) ==
    /\ worker[w].at = "moved"
    /\ \E e \in worker[w].hold : inFlight' = LRem(inFlight, e) /\ Goes(w, "read", {Stamp(e, w)})
    /\ UNCHANGED <<email, producer, main, delayed, aged, life, crashes, sends, dropped, stolen>>

\* The entry is replaced by a stamped one, if it is still there; the job is
\* processed in any case.
RemoveUnstamped(w) ==
    /\ worker[w].at = "moved"
    /\ \E e \in worker[w].hold :
         /\ inFlight' = LRem(inFlight, e)
         /\ Goes(w, IF inFlight[e] > 0 THEN "stamp" ELSE "read", {Stamp(e, w)})
         /\ stolen' = IF inFlight[e] > 0 THEN stolen ELSE stolen \cup {e.job}
    /\ UNCHANGED <<email, producer, main, delayed, aged, life, crashes, sends, dropped>>

PushStamped(w) ==
    /\ worker[w].at = "stamp"
    /\ \E e \in worker[w].hold : inFlight' = LPush(inFlight, e)
    /\ Goes(w, "read", worker[w].hold)
    /\ UNCHANGED <<email, producer, main, delayed, aged, life, crashes, sends, dropped, stolen>>

-----------------------------------------------------------------------------
(* The handler of drainOne.                                                  *)

\* Mutant of ReadRow: a row that is SENT is sent again.
ReadRowUnchecked(w) ==
    /\ worker[w].at = "read"
    /\ \E e \in worker[w].hold : Goes(w, IF email[e.job] = "DEAD" THEN "ack" ELSE "send", {e})
    /\ UNCHANGED <<email, producer, queueVars, life, crashes, sends, dropped, stolen>>

ReadRow(w) ==
    /\ worker[w].at = "read"
    /\ \E e \in worker[w].hold :
         \/ Goes(w, IF email[e.job] \in {"SENT", "DEAD"} THEN "ack" ELSE "send", {e})
         \/ Goes(w, "failed", {e})
    /\ UNCHANGED <<email, producer, queueVars, life, crashes, sends, dropped, stolen>>

\* Mutant of SendMail: an error of the mailer is not thrown.
SendSwallows(w) ==
    /\ worker[w].at = "send"
    /\ \E e \in worker[w].hold :
         /\ sends' \in {sends, [sends EXCEPT ![e.job] = IF @ < 2 THEN @ + 1 ELSE @]}
         /\ Goes(w, "accepted", {e})
    /\ UNCHANGED <<email, producer, queueVars, life, crashes, dropped, stolen>>

SendMail(w) ==
    /\ worker[w].at = "send"
    /\ \E e \in worker[w].hold :
         \/ /\ sends' = [sends EXCEPT ![e.job] = IF @ < 2 THEN @ + 1 ELSE @]
            /\ Goes(w, "accepted", {e})
         \/ /\ Goes(w, "failing", {e})
            /\ UNCHANGED sends
    /\ UNCHANGED <<email, producer, queueVars, life, crashes, dropped, stolen>>

\* Unconditional updates: of a row that was read before the mail was sent.
MarkMailSent(w) ==
    /\ worker[w].at = "accepted"
    /\ \E e \in worker[w].hold :
         \/ /\ email' = [email EXCEPT ![e.job] = "SENT"]
            /\ Goes(w, "ack", {e})
         \/ /\ Goes(w, "failing", {e})
            /\ UNCHANGED email
    /\ UNCHANGED <<producer, queueVars, life, crashes, sends, dropped, stolen>>

MarkMailFailed(w) ==
    /\ worker[w].at = "failing"
    /\ \E e \in worker[w].hold :
         /\ \/ email' = [email EXCEPT ![e.job] = "FAILED"]
            \/ UNCHANGED email
         /\ Goes(w, "failed", {e})
    /\ UNCHANGED <<producer, queueVars, life, crashes, sends, dropped, stolen>>

-----------------------------------------------------------------------------
(* The end of processNext: ack, or LREM and then a retry or the dead letter. *)

RemoveClaim(w) ==
    /\ worker[w].at \in {"ack", "failed"}
    /\ \E e \in worker[w].hold :
         /\ inFlight' = LRem(inFlight, e)
         /\ aged' = IF inFlight[e] = 1 THEN aged \ {e} ELSE aged
         /\ IF worker[w].at = "ack"
            THEN Goes(w, AtRest(w), {})
            ELSE Goes(w, "retry", {[Clean(e) EXCEPT !.tries = @ + 1]})
    /\ UNCHANGED <<email, producer, main, delayed, life, crashes, sends, dropped, stolen>>

\* An ack that throws is taken for a failure of the handler.
AckThrows(w) ==
    /\ worker[w].at = "ack"
    /\ Goes(w, "failed", worker[w].hold)
    /\ UNCHANGED <<email, producer, queueVars, life, crashes, sends, dropped, stolen>>

\* Mutant of ScheduleRetry: retries are not counted against maxAttempts.
RetryForever(w) ==
    /\ worker[w].at = "retry"
    /\ \E e \in worker[w].hold :
         /\ delayed' = delayed \cup {e}
         /\ aged' = aged \ {e}
         /\ Goes(w, AtRest(w), {})
    /\ UNCHANGED <<email, producer, main, inFlight, life, crashes, sends, dropped, stolen>>

ScheduleRetry(w) ==
    /\ worker[w].at = "retry"
    /\ \E e \in worker[w].hold :
         IF e.tries >= MaxTries
         THEN /\ Goes(w, "dead", {e})
              /\ UNCHANGED <<delayed, aged>>
         ELSE /\ delayed' = delayed \cup {e}
              /\ aged' = aged \ {e}
              /\ Goes(w, AtRest(w), {})
    /\ UNCHANGED <<email, producer, main, inFlight, life, crashes, sends, dropped, stolen>>

\* onDeadLetter; an error of its update is swallowed.
DeadLetter(w) ==
    /\ worker[w].at = "dead"
    /\ \E e \in worker[w].hold :
         \/ /\ email' = [email EXCEPT ![e.job] = "DEAD"]
            /\ UNCHANGED dropped
         \/ /\ dropped' = dropped \cup {e.job}
            /\ UNCHANGED email
    /\ Goes(w, AtRest(w), {})
    /\ UNCHANGED <<producer, queueVars, life, crashes, sends, stolen>>

KillWorker(w) ==
    LET between == worker[w].at \in {"requeue", "repush", "stamp", "retry", "dead"} IN
    /\ worker[w].at \notin {"off", "gone"}
    /\ crashes < MaxCrashes
    /\ crashes' = crashes + 1
    /\ life' = [life EXCEPT ![w] = @ + 1]
    /\ worker' = [worker EXCEPT ![w] = [WorkerIdle EXCEPT !.at = AtRest(w)]]
    /\ dropped' = IF between THEN dropped \cup {e.job : e \in worker[w].hold} ELSE dropped
    /\ UNCHANGED <<email, producer, queueVars, sends, stolen>>

\* The clock.  visibilityMs (5 min) exceeds maxDuration (60 s): a stamped claim
\* only ages past it when its claimer is gone.
AgeEntry(e) ==
    /\ e \notin aged
    /\ \/ e \in delayed
       \/ /\ inFlight[e] > 0
          /\ e.by # Unstamped
          /\ \A w \in Workers : e \notin worker[w].hold
    /\ aged' = aged \cup {e}
    /\ UNCHANGED <<email, producer, main, inFlight, delayed, worker, life, crashes, sends, dropped, stolen>>

-----------------------------------------------------------------------------
WorkerStep(w) ==
    \/ ScanInFlight(w) \/ ScanDelayed(w) \/ PushBack(w)
    \/ \E e \in Entry : RecoverStale(w, e) \/ PromoteDue(w, e)
    \/ ClaimJob(w) \/ RemoveUnstamped(w) \/ PushStamped(w)
    \/ ReadRow(w) \/ SendMail(w) \/ MarkMailSent(w) \/ MarkMailFailed(w)
    \/ RemoveClaim(w) \/ AckThrows(w) \/ ScheduleRetry(w) \/ DeadLetter(w)

EmailNext ==
    \/ \E j \in Jobs : CreateRow(j) \/ PushPointer(j) \/ ProducerDies(j)
    \/ \E w \in Workers : WorkerStep(w) \/ KillWorker(w)
    \/ \E e \in Entry : AgeEntry(e)

EmailSpec == EmailInit /\ [][EmailNext]_emailVars

\* The drain cron fires every minute, a worker that is not killed runs on, and
\* time passes.
EmailFairness ==
    /\ \A j \in Jobs : WF_emailVars(PushPointer(j))
    /\ \A w \in Workers : WF_emailVars(WorkerStep(w))
    /\ \A e \in Entry : WF_emailVars(AgeEntry(e))

EmailFairSpec == EmailSpec /\ EmailFairness

-----------------------------------------------------------------------------
EmailOutcome == [j \in Jobs |->
    CASE email[j] = "none" -> "none"
      [] email[j] = "SENT" -> "reported"
      [] email[j] = "DEAD" -> "given_up"
      [] OTHER             -> "open"]

EmailContract == INSTANCE AtLeastOnce WITH
    Messages <- Jobs, Reopenable <- Jobs,
    delivered <- {j \in Jobs : sends[j] > 0}, outcome <- EmailOutcome

\* The email queue implements AtLeastOnce: an EmailJob is SENT only after the
\* mailer accepted it, however many workers, retries and recoveries there were.
EmailIsAtLeastOnce == EmailContract!Spec

Unfinished(j) == email[j] \in {"PENDING", "FAILED"}

InHand(j) == \E w \in Workers : \E e \in worker[w].hold : e.job = j
Queued(j) == \E e \in Entry :
    e.job = j /\ (main[e] > 0 \/ inFlight[e] > 0 \/ e \in delayed)

\* A job that was pushed and is not finished is in one of the three Redis keys or in
\* the hands of a live worker, unless a worker died between removing its entry
\* and writing the next one, or its claim was taken for stale half-way.
UnfinishedIsTracked ==
    \A j \in Jobs :
        producer[j] = "over" /\ Unfinished(j)
            => InHand(j) \/ Queued(j) \/ j \in dropped \cup stolen

\* A finished job is not tried again, although every status update is unconditional:
\* two workers hold it at once only when a half-made claim was taken for stale.
FinishedIsNotResent ==
    [][\A j \in Jobs : email[j] \in {"SENT", "DEAD"} /\ j \notin stolen
         => email'[j] \in {"SENT", "DEAD"} /\ sends'[j] = sends[j]]_emailVars

\* Liveness: a pushed job ends SENT or DEAD, or is lost in one of these two ways.
MailEnds ==
    \A j \in Jobs :
        producer[j] = "over" ~> email[j] \in {"SENT", "DEAD"} \/ j \in dropped \cup stolen
=============================================================================
