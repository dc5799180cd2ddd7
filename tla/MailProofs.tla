------------------------------- MODULE MailProofs -------------------------------
(***************************************************************************)
(* Proofs about EmailQueue, for any jobs, workers, tries and crashes: its  *)
(* type, that the pointer of an unfinished job is never lost, that a       *)
(* finished job is not tried again, that the queue implements AtLeastOnce  *)
(* and what follows; and about MCMail, whose behaviours are those of the   *)
(* outbox and of the queue.                                                *)
(***************************************************************************)
EXTENDS MCMail, OutboxProofs

-----------------------------------------------------------------------------
(* EmailQueue: what its operators do, entry by entry.                       *)

\* A worker with nothing in its hands, with an entry that is in none of the three
\* keys, and with an entry whose claim is in flight.
Empty == {"off", "gone", "recover", "promote"}
Carrying == {"requeue", "repush", "stamp", "retry", "dead"}
Claiming == {"read", "send", "accepted", "failing", "failed", "ack"}

\* The fields of an entry.
LEMMA EntryParts ==
    ASSUME NEW e \in Entry
    PROVE  /\ e.job \in Jobs /\ e.tries \in 0..MaxTries
           /\ e.by = Unstamped \/ \E w \in Workers, k \in 0..MaxCrashes : e.by = <<w, k>>
BY DEF Entry

\* A stamp is not the absence of one.
LEMMA StampsDiffer ==
    ASSUME NEW w \in Workers, NEW k \in 0..MaxCrashes
    PROVE  <<w, k>> # Unstamped
BY EmailQueueAssumption

\* The entry of a job that is pushed.
LEMMA FreshIs ==
    ASSUME NEW j \in Jobs
    PROVE  /\ Fresh(j) \in Entry /\ Fresh(j).job = j
           /\ Fresh(j).by = Unstamped /\ Fresh(j).tries < MaxTries
BY EmailQueueAssumption DEF Fresh, Entry

\* An entry put back is the same without its stamp.
LEMMA CleanIs ==
    ASSUME NEW e \in Entry
    PROVE  /\ Clean(e) \in Entry /\ Clean(e).job = e.job
           /\ Clean(e).tries = e.tries /\ Clean(e).by = Unstamped
BY DEF Clean, Entry

\* A stamped entry is the same with its claimer.
LEMMA StampIs ==
    ASSUME NEW e \in Entry, NEW w \in Workers, life[w] \in 0..MaxCrashes
    PROVE  /\ Stamp(e, w) \in Entry /\ Stamp(e, w).job = e.job
           /\ Stamp(e, w).tries = e.tries /\ Stamp(e, w).by = <<w, life[w]>>
BY DEF Stamp, Entry

\* The entry of the next try.
Retry(e) == [Clean(e) EXCEPT !.tries = @ + 1]

\* It is an entry while a try is left.
LEMMA RetryIs ==
    ASSUME NEW e \in Entry, e.tries < MaxTries
    PROVE  /\ Retry(e) \in Entry /\ Retry(e).job = e.job /\ Retry(e).by = Unstamped
<1> DEFINE c == Clean(e)
<1>1. c \in Entry /\ c.job = e.job /\ c.tries = e.tries /\ c.by = Unstamped
  BY CleanIs
<1>2. c.tries + 1 \in 0..MaxTries
  BY <1>1, EmailQueueAssumption DEF Entry
<1> HIDE DEF c
<1>3. /\ [c EXCEPT !.tries = @ + 1] \in Entry
      /\ [c EXCEPT !.tries = @ + 1].job = c.job
      /\ [c EXCEPT !.tries = @ + 1].by = c.by
  BY <1>1, <1>2 DEF Entry
<1> QED
  BY <1>1, <1>3 DEF c, Retry

\* LPUSH adds one.
LEMMA PushIs ==
    ASSUME NEW list \in [Entry -> Nat], NEW e \in Entry
    PROVE  /\ LPush(list, e) \in [Entry -> Nat]
           /\ LPush(list, e)[e] = list[e] + 1
           /\ \A x \in Entry \ {e} : LPush(list, e)[x] = list[x]
BY DEF LPush

\* LREM takes one away, if there is one.
LEMMA RemIs ==
    ASSUME NEW list \in [Entry -> Nat], NEW e \in Entry
    PROVE  /\ LRem(list, e) \in [Entry -> Nat]
           /\ list[e] > 0 => LRem(list, e)[e] = list[e] - 1
           /\ list[e] = 0 => LRem(list, e)[e] = 0
           /\ \A x \in Entry \ {e} : LRem(list, e)[x] = list[x]
BY DEF LRem

\* w is at `at` with `hold` in its hands after the step, the others are where they were.
Now(w, at, hold) ==
    /\ worker' \in [Workers -> WorkerRecord]
    /\ worker'[w].at = at /\ worker'[w].hold = hold
    /\ \A v \in Workers \ {w} : worker'[v] = worker[v]

Stages == {"off", "gone", "recover", "requeue", "promote", "repush", "moved", "stamp",
           "read", "send", "accepted", "failing", "failed", "retry", "dead", "ack"}

\* Goes moves one worker, and leaves its list of stale or due entries.
LEMMA GoesIs ==
    ASSUME worker \in [Workers -> WorkerRecord], NEW w \in Workers, NEW at \in Stages,
           NEW hold \in SUBSET Entry, Goes(w, at, hold)
    PROVE  Now(w, at, hold) /\ worker'[w].todo = worker[w].todo
<1>1. /\ worker' = [worker EXCEPT ![w] = [at |-> at, todo |-> worker[w].todo, hold |-> hold]]
  BY DEF Goes
<1>2. [at |-> at, todo |-> worker[w].todo, hold |-> hold] \in WorkerRecord
  BY DEF WorkerRecord, Stages
<1> QED
  BY <1>1, <1>2 DEF Now

\* A scan, and a step through what it found, move one worker.
LEMMA TodoIs ==
    ASSUME worker \in [Workers -> WorkerRecord], NEW w \in Workers, NEW at \in Stages,
           NEW todo \in SUBSET Entry, NEW hold \in SUBSET Entry,
           worker' = [worker EXCEPT ![w] = [at |-> at, hold |-> hold, todo |-> todo]]
    PROVE  Now(w, at, hold) /\ worker'[w].todo = todo
<1>1. [at |-> at, hold |-> hold, todo |-> todo] \in WorkerRecord
  BY DEF WorkerRecord, Stages
<1> QED
  BY <1>1 DEF Now

-----------------------------------------------------------------------------
(* Types, with what they rest on.                                           *)

\* The hands of a worker: one entry or none, of a pushed job, in the form its stage asks for.
Hand(w) ==
    /\ worker[w].at \in Empty => worker[w].hold = {}
    /\ worker[w].at \notin Empty => \E e \in Entry : worker[w].hold = {e}
    /\ \A e \in worker[w].hold :
         /\ producer[e.job] = "over"
         /\ worker[w].at \notin {"retry", "dead"} => e.tries < MaxTries
         /\ e.by = IF worker[w].at \in Claiming \cup {"stamp"} THEN <<w, life[w]>> ELSE Unstamped
         /\ worker[w].at = "accepted" => sends[e.job] > 0

\* An entry in one of the three keys: of a pushed job with a try left, and stamped only
\* in flight.
Key(e) ==
    /\ main[e] > 0 \/ e \in delayed => e.by = Unstamped
    /\ main[e] > 0 \/ inFlight[e] > 0 \/ e \in delayed
         => producer[e.job] = "over" /\ e.tries < MaxTries

\* What is said of hands, keys, rows and invocations together.
Hands == \A w \in Workers : Hand(w)
Keys == \A e \in Entry : Key(e)
Rows == \A j \in Jobs : producer[j] = "idle" <=> email[j] = "none"
Lives == \A w \in Workers : life[w] <= crashes

EmailTyped == EmailTypeOK /\ Hands /\ Keys /\ Rows /\ Lives

\* The entry a worker holds.
LEMMA HoldOf ==
    ASSUME EmailTyped, NEW w \in Workers, worker[w].at \notin Empty
    PROVE  \E e \in Entry : worker[w].hold = {e} /\ e.job \in Jobs
BY EntryParts DEF EmailTyped, Hands, Hand

\* A step of w that leaves its entry in good form, and the keys.
LEMMA WorkerTyped ==
    ASSUME EmailTyped, NEW w \in Workers, NEW at, NEW hold, Now(w, at, hold), Hand(w)',
           main' \in [Entry -> Nat], inFlight' \in [Entry -> Nat],
           delayed' \subseteq Entry, aged' \subseteq Entry, Keys',
           email' \in [Jobs -> {"none", "PENDING", "SENT", "FAILED", "DEAD"}],
           \A j \in Jobs : email'[j] = "none" <=> email[j] = "none",
           sends' \in [Jobs -> 0..2], \A j \in Jobs : sends[j] > 0 => sends'[j] > 0,
           dropped' \subseteq Jobs, stolen' \subseteq Jobs,
           UNCHANGED <<producer, life, crashes>>
    PROVE  EmailTyped'
<1>1. EmailTypeOK'
  BY DEF EmailTyped, EmailTypeOK, Now
<1>2. Hands'
  <2> SUFFICES ASSUME NEW v \in Workers, v # w PROVE Hand(v)'
    BY DEF Hands
  <2>1. worker'[v] = worker[v] /\ Hand(v)
    BY DEF Now, EmailTyped, Hands
  <2>2. \A e \in worker[v].hold : e \in Entry /\ e.job \in Jobs
    BY EntryParts DEF EmailTyped, EmailTypeOK, WorkerRecord
  <2> QED
    BY <2>1, <2>2 DEF Hand
<1>3. Rows' /\ Lives'
  BY DEF EmailTyped, Rows, Lives
<1> QED
  BY <1>1, <1>2, <1>3 DEF EmailTyped

-----------------------------------------------------------------------------
(* Where the pointer of a job is.                                           *)

\* No living invocation made this claim.
Gone(e) == \A w \in Workers, k \in 0..MaxCrashes : e.by = <<w, k>> => k < life[w]

\* The keys and the hands that hold the pointer of j.  A claim of a working worker is
\* the entry in flight, not the copy in its hands.
Places(j) ==
    LET Own == {e \in Entry : e.job = j} IN
    ({"main"} \X {e \in Own : main[e] > 0})
      \cup ({"inFlight"} \X {e \in Own : inFlight[e] > 0})
      \cup ({"delayed"} \X (Own \cap delayed))
      \cup ({"hand"} \X {w \in Workers : /\ worker[w].at \in Carrying
                                         /\ \E e \in worker[w].hold : e.job = j})

\* There is one pointer.
Once(j) ==
    /\ \A p, q \in Places(j) : p = q
    /\ \A e \in Entry : e.job = j => main[e] <= 1 /\ inFlight[e] <= 1

\* A worker on the job has its claim in flight, and a claim of a living invocation
\* its worker.
Claims(j) ==
    /\ \A w \in Workers : \A e \in worker[w].hold :
         worker[w].at \in Claiming /\ e.job = j => inFlight[e] > 0
    /\ \A e \in Entry : e.job = j /\ inFlight[e] > 0 =>
         \A w \in Workers, k \in 0..MaxCrashes : e.by = <<w, k>> =>
            /\ k <= life[w]
            /\ k = life[w] => e \in worker[w].hold /\ worker[w].at \in Claiming

\* What is taken for stale is no claim of the living.
StaleIsGone(j) ==
    /\ \A e \in aged : e.job = j => Gone(e)
    /\ \A w \in Workers : \A e \in worker[w].todo : e.job = j => Gone(e)

\* The row says what the worker on the job is about to do.
Staged(j) == \A w \in Workers : \A e \in worker[w].hold : e.job = j =>
    /\ worker[w].at \in {"send", "accepted", "failing"} => Unfinished(j)
    /\ worker[w].at = "ack" => ~ Unfinished(j)

\* The pointer of an unfinished job is not lost.
Tracked(j) ==
    producer[j] = "over" /\ Unfinished(j) /\ j \notin dropped => Places(j) # {}

JobInv(j) ==
    j \notin stolen => Once(j) /\ Claims(j) /\ StaleIsGone(j) /\ Staged(j) /\ Tracked(j)

JobsInv == \A j \in Jobs : JobInv(j)

\* The pointer is in one place after it moved from one to another.
LEMMA PlaceMoves ==
    ASSUME NEW j, Once(j), NEW p \in Places(j), NEW q, Places(j)' \subseteq (Places(j) \ {p}) \cup {q}
    PROVE  \A a, b \in Places(j)' : a = b
BY DEF Once

\* The entries of j are where they were.
SameJob(j) ==
    /\ \A x \in Entry : x.job = j =>
         /\ main'[x] = main[x] /\ inFlight'[x] = inFlight[x]
         /\ x \in delayed' <=> x \in delayed
         /\ x \in aged' => x \in aged
         /\ \A v \in Workers : /\ x \in worker'[v].hold <=> x \in worker[v].hold
                               /\ x \in worker[v].hold => worker'[v].at = worker[v].at
                               /\ x \in worker'[v].todo => x \in worker[v].todo \/ Gone(x)
    /\ email'[j] = email[j] /\ producer'[j] = producer[j]
    /\ j \in dropped => j \in dropped'
    /\ j \in stolen => j \in stolen'

\* A step that does so keeps what is said of j.
LEMMA OthersKept ==
    ASSUME EmailTyped, EmailTyped', NEW j \in Jobs, JobInv(j), SameJob(j),
           \A v \in Workers : life[v] <= life'[v]
    PROVE  JobInv(j)'
<1> SUFFICES ASSUME j \notin stolen' PROVE JobInv(j)'
  BY DEF JobInv
<1>1. Once(j) /\ Claims(j) /\ StaleIsGone(j) /\ Staged(j) /\ Tracked(j)
  BY DEF JobInv, SameJob
<1>2. /\ \A v \in Workers : worker[v].hold \subseteq Entry /\ worker'[v].hold \subseteq Entry
      /\ \A v \in Workers : worker[v].todo \subseteq Entry /\ worker'[v].todo \subseteq Entry
      /\ aged \subseteq Entry /\ aged' \subseteq Entry
      /\ \A v \in Workers : life[v] \in 0..MaxCrashes /\ life'[v] \in 0..MaxCrashes
  BY DEF EmailTyped, EmailTypeOK, WorkerRecord
<1>3. \A v \in Workers : (\E e \in worker'[v].hold : e.job = j)
         <=> (\E e \in worker[v].hold : e.job = j)
  BY <1>2 DEF SameJob
<1>4. \A v \in Workers : (\E e \in worker[v].hold : e.job = j) => worker'[v].at = worker[v].at
  BY <1>2 DEF SameJob
<1>5. Places(j)' = Places(j)
  <2>1. \A e \in Entry : e.job = j => /\ main'[e] = main[e] /\ inFlight'[e] = inFlight[e]
                                      /\ e \in delayed' <=> e \in delayed
    BY DEF SameJob
  <2> QED
    BY <1>3, <1>4, <2>1 DEF Places
<1>6. Once(j)'
  BY <1>1, <1>5 DEF Once, SameJob
<1>7. Claims(j)'
  <2>1. ASSUME NEW w \in Workers, NEW e \in worker'[w].hold, worker'[w].at \in Claiming, e.job = j
        PROVE  inFlight'[e] > 0
    BY <1>1, <1>2, <2>1 DEF Claims, SameJob
  <2>2. ASSUME NEW e \in Entry, e.job = j, inFlight'[e] > 0,
               NEW w \in Workers, NEW k \in 0..MaxCrashes, e.by = <<w, k>>
        PROVE  /\ k <= life'[w]
               /\ k = life'[w] => e \in worker'[w].hold /\ worker'[w].at \in Claiming
    <3>1. k <= life[w] /\ (k = life[w] => e \in worker[w].hold /\ worker[w].at \in Claiming)
      BY <1>1, <2>2 DEF Claims, SameJob
    <3>2. k <= life'[w] /\ (k = life'[w] => k = life[w])
      BY <1>2, <3>1
    <3> QED
      BY <2>2, <3>1, <3>2 DEF SameJob
  <2> QED
    BY <2>1, <2>2 DEF Claims
<1>8. \A e \in Entry : Gone(e) => Gone(e)'
  BY <1>2 DEF Gone
<1>9. StaleIsGone(j)'
  BY <1>1, <1>2, <1>8 DEF StaleIsGone, SameJob
<1>10. Staged(j)'
  BY <1>1, <1>2 DEF Staged, SameJob, Unfinished
<1>11. Tracked(j)'
  BY <1>1, <1>5 DEF Tracked, SameJob, Unfinished
<1> QED
  BY <1>6, <1>7, <1>9, <1>10, <1>11 DEF JobInv

-----------------------------------------------------------------------------
(* The steps of the producer and of the clock.                              *)

\* A worker holds entries of jobs that were pushed.
LEMMA HeldIsPushed ==
    ASSUME EmailTyped, NEW w \in Workers, NEW e \in worker[w].hold
    PROVE  e \in Entry /\ e.job \in Jobs /\ producer[e.job] = "over" /\ email[e.job] # "none"
<1>1. e \in Entry
  BY DEF EmailTyped, EmailTypeOK, WorkerRecord
<1> QED
  BY <1>1, EntryParts DEF EmailTyped, Hands, Hand, Rows

\* enqueue: the row is created, or the producer dies before its pointer is pushed.
LEMMA CreateKeeps ==
    ASSUME EmailTyped, NEW j \in Jobs, CreateRow(j) \/ ProducerDies(j)
    PROVE  EmailTyped' /\ (JobsInv => JobsInv')
<1> USE DEF CreateRow, ProducerDies, queueVars
<1>1. /\ producer[j] \in {"idle", "created"} /\ producer'[j] \in {"created", "lost"}
      /\ producer' \in [Jobs -> {"idle", "created", "over", "lost"}]
      /\ email' \in [Jobs -> {"none", "PENDING", "SENT", "FAILED", "DEAD"}]
      /\ email'[j] # "none" /\ crashes' \in 0..MaxCrashes /\ crashes' >= crashes
      /\ \A i \in Jobs \ {j} : producer'[i] = producer[i] /\ email'[i] = email[i]
      /\ UNCHANGED <<main, inFlight, delayed, aged, worker, life, sends, dropped, stolen>>
  BY EmailQueueAssumption DEF EmailTyped, EmailTypeOK, Rows
<1>2. EmailTypeOK' /\ Rows'
  BY <1>1 DEF EmailTyped, EmailTypeOK, Rows
<1>3. Hands' /\ Keys'
  <2>1. \A w \in Workers : \A e \in worker[w].hold : e.job \in Jobs \ {j}
    BY <1>1, HeldIsPushed
  <2>2. Hands'
    BY <1>1, <2>1 DEF EmailTyped, Hands, Hand
  <2>3. Keys'
    BY <1>1, EntryParts DEF EmailTyped, Keys, Key
  <2> QED
    BY <2>2, <2>3
<1>4. Lives'
  BY <1>1 DEF EmailTyped, EmailTypeOK, Lives
<1>5. EmailTyped'
  BY <1>2, <1>3, <1>4 DEF EmailTyped
<1>6. ASSUME JobsInv PROVE JobsInv'
  <2>1. \A v \in Workers : life[v] <= life'[v]
    BY <1>1 DEF EmailTyped, EmailTypeOK
  <2>2. ASSUME NEW i \in Jobs \ {j} PROVE JobInv(i)'
    <3>1. SameJob(i)
      BY <1>1 DEF SameJob
    <3> QED
      BY <1>5, <1>6, <2>1, <3>1, OthersKept DEF JobsInv
  <2>3. JobInv(j)'
    <3>1. \A w \in Workers : \A e \in worker[w].hold : e.job # j
      BY <1>1, HeldIsPushed
    <3>2. JobInv(j)
      BY <1>6 DEF JobsInv
    <3>3. Places(j)' = Places(j)
      BY <1>1 DEF Places
    <3> QED
      BY <1>1, <3>1, <3>2, <3>3
         DEF JobInv, Once, Claims, StaleIsGone, Gone, Staged, Tracked
  <2> QED
    BY <2>2, <2>3 DEF JobsInv
<1> QED
  BY <1>5, <1>6

\* enqueue: the pointer is pushed.
LEMMA PushKeeps ==
    ASSUME EmailTyped, NEW j \in Jobs, PushPointer(j)
    PROVE  EmailTyped' /\ (JobsInv => JobsInv')
<1> DEFINE e == Fresh(j)
<1>1. e \in Entry /\ e.job = j /\ e.by = Unstamped /\ e.tries < MaxTries
  BY FreshIs
<1>2. main' = LPush(main, e)
  BY DEF PushPointer
<1> HIDE DEF e
<1>3. /\ main' \in [Entry -> Nat] /\ main'[e] = main[e] + 1
      /\ \A x \in Entry \ {e} : main'[x] = main[x]
  BY <1>1, <1>2, PushIs DEF EmailTyped, EmailTypeOK
<1>4. /\ producer[j] = "created" /\ producer'[j] = "over"
      /\ producer' \in [Jobs -> {"idle", "created", "over", "lost"}]
      /\ \A i \in Jobs \ {j} : producer'[i] = producer[i]
      /\ UNCHANGED <<email, inFlight, delayed, aged, worker, life, crashes, sends, dropped, stolen>>
  BY DEF PushPointer, EmailTyped, EmailTypeOK
<1>5. EmailTypeOK' /\ Rows' /\ Lives'
  BY <1>3, <1>4 DEF EmailTyped, EmailTypeOK, Rows, Lives
<1>6. \A i \in Jobs : producer[i] = "over" => producer'[i] = "over"
  BY <1>4
<1>7. Hands'
  BY <1>4, <1>6, HeldIsPushed DEF EmailTyped, Hands, Hand
<1>8. Keys'
  <2> SUFFICES ASSUME NEW x \in Entry PROVE Key(x)'
    BY DEF Keys
  <2>1. CASE x = e
    BY <1>1, <1>3, <1>4, <2>1 DEF Key, EmailTyped, Keys
  <2>2. CASE x # e
    BY <1>3, <1>4, <1>6, <2>2, EntryParts DEF Key, EmailTyped, Keys
  <2> QED
    BY <2>1, <2>2
<1>9. EmailTyped'
  BY <1>5, <1>7, <1>8 DEF EmailTyped
<1>10. ASSUME JobsInv PROVE JobsInv'
  <2>1. \A v \in Workers : life[v] <= life'[v]
    BY <1>4 DEF EmailTyped, EmailTypeOK
  <2>2. ASSUME NEW i \in Jobs \ {j} PROVE JobInv(i)'
    <3>1. SameJob(i)
      BY <1>1, <1>3, <1>4 DEF SameJob
    <3> QED
      BY <1>9, <1>10, <2>1, <3>1, OthersKept DEF JobsInv
  <2>3. JobInv(j)'
    <3>1. \A w \in Workers : \A x \in worker[w].hold : x.job # j
      BY <1>4, HeldIsPushed
    <3>2. \A x \in Entry : x.job = j => main[x] = 0 /\ inFlight[x] = 0 /\ x \notin delayed
      BY <1>4 DEF EmailTyped, EmailTypeOK, Keys, Key
    <3>3. Places(j)' = {<<"main", e>>}
      BY <1>1, <1>3, <1>4, <3>1, <3>2 DEF Places
    <3>4. Once(j)' /\ Tracked(j)'
      BY <1>3, <1>4, <3>2, <3>3 DEF Once, Tracked
    <3>5. Claims(j)' /\ Staged(j)'
      BY <1>4, <3>1, <3>2 DEF Claims, Staged
    <3>6. j \notin stolen => StaleIsGone(j)'
      BY <1>4, <1>10 DEF JobsInv, JobInv, StaleIsGone, Gone
    <3> QED
      BY <1>4, <3>4, <3>5, <3>6 DEF JobInv
  <2> QED
    BY <2>2, <2>3 DEF JobsInv
<1> QED
  BY <1>9, <1>10

\* An entry of nobody ages.
LEMMA AgeKeeps ==
    ASSUME EmailTyped, NEW e \in Entry, AgeEntry(e)
    PROVE  EmailTyped' /\ (JobsInv => JobsInv')
<1>1. /\ aged' = aged \cup {e}
      /\ \/ e \in delayed
         \/ inFlight[e] > 0 /\ \A w \in Workers : e \notin worker[w].hold
      /\ UNCHANGED <<email, producer, main, inFlight, delayed, worker, life, crashes, sends,
                     dropped, stolen>>
  BY DEF AgeEntry
<1>2. EmailTyped'
  BY <1>1 DEF EmailTyped, EmailTypeOK, Hands, Hand, Keys, Key, Rows, Lives
<1>3. ASSUME JobsInv, NEW j \in Jobs PROVE JobInv(j)'
  <2>1. j \notin stolen /\ e.job = j => Gone(e)
    <3> SUFFICES ASSUME j \notin stolen, e.job = j, NEW w \in Workers, NEW k \in 0..MaxCrashes,
                        e.by = <<w, k>>
                 PROVE  k < life[w]
      BY DEF Gone
    <3>1. e \notin delayed
      BY StampsDiffer DEF EmailTyped, Keys, Key
    <3>2. k <= life[w] /\ k # life[w]
      BY <1>1, <1>3, <3>1 DEF JobsInv, JobInv, Claims
    <3> QED
      BY <3>2 DEF EmailTyped, EmailTypeOK
  <2>2. Places(j)' = Places(j)
    BY <1>1 DEF Places
  <2>3. JobInv(j)
    BY <1>3 DEF JobsInv
  <2>4. j \notin stolen => StaleIsGone(j)'
    BY <1>1, <2>1, <2>3 DEF JobInv, StaleIsGone, Gone
  <2> QED
    BY <1>1, <2>2, <2>3, <2>4 DEF JobInv, Once, Claims, Staged, Tracked, Unfinished
<1> QED
  BY <1>2, <1>3 DEF JobsInv

-----------------------------------------------------------------------------
(* The steps of a worker.                                                   *)

\* The claim of a worker on a job.
LEMMA ClaimOf ==
    ASSUME EmailTyped, NEW w \in Workers, worker[w].at \in Claiming, NEW e \in worker[w].hold
    PROVE  e \in Entry /\ life[w] \in 0..MaxCrashes /\ e.by = <<w, life[w]>> /\ ~ Gone(e)
<1>1. e \in Entry /\ life[w] \in 0..MaxCrashes
  BY DEF EmailTyped, EmailTypeOK, WorkerRecord
<1>2. e.by = <<w, life[w]>>
  BY DEF EmailTyped, Hands, Hand
<1> QED
  BY <1>1, <1>2 DEF Gone

\* A step of w moves the entry of one job; the rest of that job's invariant is left
\* to show.
LEMMA WorkerInv ==
    ASSUME EmailTyped, EmailTyped', JobsInv, NEW w \in Workers, NEW at, NEW hold, Now(w, at, hold),
           NEW j \in Jobs,
           \A x \in worker[w].hold \cup hold : x.job = j,
           worker'[w].todo \subseteq worker[w].todo, aged' \subseteq aged,
           \A x \in Entry : x.job # j => /\ main'[x] = main[x] /\ inFlight'[x] = inFlight[x]
                                         /\ x \in delayed' <=> x \in delayed,
           \A i \in Jobs \ {j} : email'[i] = email[i],
           dropped \subseteq dropped', stolen \subseteq stolen', UNCHANGED <<producer, life>>,
           j \notin stolen' => Once(j)' /\ Claims(j)' /\ Staged(j)' /\ Tracked(j)'
    PROVE  JobsInv'
<1>1. ASSUME NEW i \in Jobs \ {j} PROVE JobInv(i)'
  <2>1. \A v \in Workers : life[v] <= life'[v]
    BY DEF EmailTyped, EmailTypeOK
  <2>2. \A x \in Entry, v \in Workers : x.job = i =>
           /\ x \in worker'[v].hold <=> x \in worker[v].hold
           /\ x \in worker[v].hold => worker'[v].at = worker[v].at
           /\ x \in worker'[v].todo => x \in worker[v].todo
    BY DEF Now
  <2>3. SameJob(i)
    BY <2>2 DEF SameJob
  <2> QED
    BY <2>1, <2>3, OthersKept DEF JobsInv
<1>2. JobInv(j)'
  <2>1. \A v \in Workers : worker'[v].todo \subseteq worker[v].todo
    BY DEF Now
  <2>2. j \notin stolen' => StaleIsGone(j)'
    BY <2>1 DEF JobsInv, JobInv, StaleIsGone, Gone
  <2> QED
    BY <2>2 DEF JobInv
<1> QED
  BY <1>1, <1>2 DEF JobsInv

\* recoverStaleClaims: the LREM.
LEMMA RecoverKeeps ==
    ASSUME EmailTyped, NEW w \in Workers, NEW e \in Entry, RecoverStale(w, e)
    PROVE  EmailTyped' /\ (JobsInv => JobsInv')
<1>1. /\ worker[w].at = "recover" /\ worker[w].hold = {} /\ e \in worker[w].todo
      /\ inFlight' = LRem(inFlight, e) /\ aged' \subseteq aged
      /\ UNCHANGED <<email, producer, main, delayed, life, crashes, sends, dropped, stolen>>
  BY DEF RecoverStale, EmailTyped, Hands, Hand, Empty
<1>2. /\ inFlight' \in [Entry -> Nat] /\ \A x \in Entry \ {e} : inFlight'[x] = inFlight[x]
      /\ inFlight[e] > 0 => inFlight'[e] = inFlight[e] - 1
      /\ inFlight[e] = 0 => inFlight'[e] = 0
  BY <1>1, RemIs DEF EmailTyped, EmailTypeOK
<1>3. worker \in [Workers -> WorkerRecord] /\ worker[w].todo \subseteq Entry
      /\ inFlight[e] \in Nat
  BY DEF EmailTyped, EmailTypeOK, WorkerRecord
<1> DEFINE c == Clean(e)
<1>4. c \in Entry /\ c.job = e.job /\ c.tries = e.tries /\ c.by = Unstamped
  BY CleanIs
<1>5. Keys'
  BY <1>1, <1>2, <1>3 DEF EmailTyped, Keys, Key
<1>6. CASE inFlight[e] > 0
  <2>1. worker' = [worker EXCEPT ![w] = [at |-> "requeue", hold |-> {c},
                                         todo |-> worker[w].todo \ {e}]]
    BY <1>6 DEF RecoverStale
  <2> HIDE DEF c
  <2>2. Now(w, "requeue", {c}) /\ worker'[w].todo = worker[w].todo \ {e}
    BY <1>3, <1>4, <2>1, TodoIs DEF Stages
  <2>3. Hand(w)'
    <3>1. producer[e.job] = "over" /\ e.tries < MaxTries
      BY <1>6 DEF EmailTyped, Keys, Key
    <3> QED
      BY <1>1, <1>4, <2>2, <3>1 DEF Now, Hand, Empty, Claiming
  <2>4. EmailTyped'
    BY <1>1, <1>2, <1>5, <2>2, <2>3, WorkerTyped DEF EmailTyped, EmailTypeOK
  <2>5. ASSUME JobsInv PROVE JobsInv'
    <3> DEFINE j == e.job
    <3>1. j \in Jobs
      BY EntryParts
    <3>2. ASSUME j \notin stolen' PROVE Once(j)' /\ Claims(j)' /\ Staged(j)' /\ Tracked(j)'
      <4>1. Once(j) /\ Claims(j) /\ StaleIsGone(j) /\ Staged(j) /\ Tracked(j)
        BY <1>1, <2>5, <3>1, <3>2 DEF JobsInv, JobInv
      <4>2. inFlight'[e] = 0
        BY <1>2, <1>3, <1>6, <4>1 DEF Once
      <4>3. <<"inFlight", e>> \in Places(j)
        BY <1>6 DEF Places
      <4>4. /\ Places(j)' \subseteq (Places(j) \ {<<"inFlight", e>>}) \cup {<<"hand", w>>}
            /\ <<"hand", w>> \in Places(j)'
        BY <1>1, <1>2, <1>4, <2>2, <4>2 DEF Places, Now, Carrying
      <4>5. Once(j)'
        <5>1. \A p, q \in Places(j)' : p = q
          BY <4>1, <4>3, <4>4, PlaceMoves
        <5> QED
          BY <1>1, <1>2, <4>1, <4>2, <5>1 DEF Once
      <4>6. Claims(j)'
        <5>1. Gone(e)
          BY <1>1, <4>1 DEF StaleIsGone
        <5>2. \A v \in Workers : worker[v].at \in Claiming =>
                 e \notin worker[v].hold /\ worker[v].hold \subseteq Entry
          BY <5>1, ClaimOf
        <5> QED
          BY <1>1, <1>2, <2>2, <4>1, <4>2, <5>2 DEF Claims, Now, Claiming
      <4>7. Staged(j)'
        BY <1>1, <2>2, <4>1 DEF Staged, Now, Unfinished
      <4> QED
        BY <4>4, <4>5, <4>6, <4>7 DEF Tracked
    <3> QED
      BY <1>1, <1>2, <1>4, <2>2, <2>4, <2>5, <3>1, <3>2, WorkerInv
  <2> QED
    BY <2>4, <2>5
<1>7. CASE inFlight[e] = 0
  <2>1. worker' = [worker EXCEPT ![w] = [at |-> "recover", todo |-> worker[w].todo \ {e},
                                         hold |-> {}]]
    <3>1. (inFlight[e] > 0) = FALSE
      BY <1>7
    <3> QED
      BY <3>1 DEF RecoverStale
  <2>2. Now(w, "recover", {}) /\ worker'[w].todo = worker[w].todo \ {e}
    <3> DEFINE left == worker[w].todo \ {e}
    <3>1. left \in SUBSET Entry /\ {} \in SUBSET Entry /\ "recover" \in Stages
      BY <1>3 DEF Stages
    <3>2. worker' = [worker EXCEPT ![w] = [at |-> "recover", hold |-> {}, todo |-> left]]
      BY <2>1
    <3> HIDE DEF left
    <3>3. Now(w, "recover", {}) /\ worker'[w].todo = left
      BY <1>3, <3>1, <3>2, TodoIs
    <3> QED
      BY <3>3 DEF left
  <2>3. Hand(w)'
    BY <2>2 DEF Now, Hand, Empty
  <2>4. EmailTyped'
    BY <1>1, <1>2, <1>5, <2>2, <2>3, WorkerTyped DEF EmailTyped, EmailTypeOK
  <2>5. ASSUME JobsInv, NEW j \in Jobs PROVE JobInv(j)'
    <3>1. SameJob(j)
      BY <1>1, <1>2, <1>7, <2>2 DEF SameJob, Now
    <3>2. \A v \in Workers : life[v] <= life'[v]
      BY <1>1 DEF EmailTyped, EmailTypeOK
    <3> QED
      BY <2>4, <2>5, <3>1, <3>2, OthersKept DEF JobsInv
  <2> QED
    BY <2>4, <2>5 DEF JobsInv
<1> QED
  BY <1>3, <1>6, <1>7

\* A worker with empty hands looks for stale or due entries, or comes to rest.
LEMMA IdleKeeps ==
    ASSUME EmailTyped, NEW w \in Workers, NEW at \in Empty, Now(w, at, {}), worker[w].hold = {},
           \A x \in worker'[w].todo : x \in worker[w].todo \/ x.by = Unstamped \/ x \in aged,
           UNCHANGED <<email, producer, main, inFlight, delayed, aged, life, crashes, sends,
                       dropped, stolen>>
    PROVE  EmailTyped' /\ (JobsInv => JobsInv')
<1>1. Hand(w)'
  BY DEF Now, Hand, Empty
<1>2. Keys'
  BY DEF EmailTyped, Keys, Key
<1>3. EmailTyped'
  BY <1>1, <1>2, WorkerTyped DEF EmailTyped, EmailTypeOK
<1>4. ASSUME JobsInv, NEW j \in Jobs PROVE JobInv(j)'
  <2>1. ASSUME j \notin stolen PROVE JobInv(j)'
    <3>1. StaleIsGone(j)
      BY <1>4, <2>1 DEF JobsInv, JobInv
    <3>2. \A x \in Entry : x.job = j /\ x \in worker'[w].todo => x \in worker[w].todo \/ Gone(x)
      BY <3>1, StampsDiffer DEF StaleIsGone, Gone
    <3>3. SameJob(j)
      BY <3>2 DEF SameJob, Now
    <3>4. \A v \in Workers : life[v] <= life'[v]
      BY DEF EmailTyped, EmailTypeOK
    <3> QED
      BY <1>3, <1>4, <3>3, <3>4, OthersKept DEF JobsInv
  <2> QED
    BY <2>1 DEF JobInv
<1> QED
  BY <1>3, <1>4 DEF JobsInv

\* recoverStaleClaims and drainDue: the lists that are worked through.
LEMMA ScanKeeps ==
    ASSUME EmailTyped, NEW w \in Workers, ScanInFlight(w) \/ ScanDelayed(w)
    PROVE  EmailTyped' /\ (JobsInv => JobsInv')
<1>1. worker \in [Workers -> WorkerRecord] /\ delayed \cap aged \in SUBSET Entry
  BY DEF EmailTyped, EmailTypeOK
<1>2. worker[w].at \in Empty /\ worker[w].hold = {}
  BY DEF ScanInFlight, ScanDelayed, EmailTyped, Hands, Hand, Empty
<1>3. UNCHANGED <<email, producer, main, inFlight, delayed, aged, life, crashes, sends,
                  dropped, stolen>>
  BY DEF ScanInFlight, ScanDelayed, queueVars
<1>4. CASE ScanInFlight(w)
  <2> DEFINE found == {e \in Entry : inFlight[e] > 0 /\ Stale(e)}
  <2>1. worker' = [worker EXCEPT ![w] = [at |-> "recover", hold |-> {}, todo |-> found]]
    BY <1>4 DEF ScanInFlight
  <2>2. found \in SUBSET Entry /\ \A x \in found : x.by = Unstamped \/ x \in aged
    BY DEF Stale
  <2> HIDE DEF found
  <2>3. Now(w, "recover", {}) /\ worker'[w].todo = found
    BY <1>1, <2>1, <2>2, TodoIs DEF Stages
  <2>4. "recover" \in Empty
    BY DEF Empty
  <2> QED
    BY <1>2, <1>3, <2>2, <2>3, <2>4, IdleKeeps
<1>5. CASE ScanDelayed(w)
  <2> DEFINE due == delayed \cap aged
  <2>1. worker' = [worker EXCEPT ![w] = [at |-> "promote", hold |-> {}, todo |-> due]]
    BY <1>5 DEF ScanDelayed
  <2>2. \A x \in due : x \in aged
    OBVIOUS
  <2> HIDE DEF due
  <2>3. Now(w, "promote", {}) /\ worker'[w].todo = due
    BY <1>1, <2>1, TodoIs DEF Stages, due
  <2>4. "promote" \in Empty
    BY DEF Empty
  <2> QED
    BY <1>2, <1>3, <2>2, <2>3, <2>4, IdleKeeps
<1> QED
  BY <1>4, <1>5

\* The LPUSH of what was recovered or is due.
LEMMA PushBackKeeps ==
    ASSUME EmailTyped, NEW w \in Workers, PushBack(w)
    PROVE  EmailTyped' /\ (JobsInv => JobsInv')
<1>1. worker[w].at \in {"requeue", "repush"}
  BY DEF PushBack
<1>2. PICK e \in Entry : worker[w].hold = {e} /\ e.job \in Jobs
  BY <1>1, HoldOf DEF Empty
<1> DEFINE j == e.job
           at == IF worker[w].at = "requeue" THEN "recover" ELSE "promote"
<1>3. /\ main' = LPush(main, e) /\ Goes(w, at, {})
      /\ UNCHANGED <<email, producer, inFlight, delayed, aged, life, crashes, sends, dropped, stolen>>
  BY <1>2 DEF PushBack
<1>4. /\ main' \in [Entry -> Nat] /\ main'[e] = main[e] + 1 /\ main[e] \in Nat
      /\ \A x \in Entry \ {e} : main'[x] = main[x]
  BY <1>3, PushIs DEF EmailTyped, EmailTypeOK
<1>5. /\ producer[j] = "over" /\ e.tries < MaxTries /\ e.by = Unstamped
  BY <1>1, <1>2 DEF EmailTyped, Hands, Hand, Claiming
<1>6. at \in Stages /\ at \in Empty
  BY DEF Stages, Empty
<1> HIDE DEF at
<1>7. Now(w, at, {}) /\ worker'[w].todo = worker[w].todo
  BY <1>3, <1>6, GoesIs DEF EmailTyped, EmailTypeOK
<1>8. Keys'
  BY <1>3, <1>4, <1>5 DEF EmailTyped, Keys, Key
<1>9. Hand(w)'
  BY <1>6, <1>7 DEF Now, Hand
<1>10. EmailTyped'
  BY <1>3, <1>4, <1>7, <1>8, <1>9, WorkerTyped DEF EmailTyped, EmailTypeOK
<1>11. ASSUME JobsInv PROVE JobsInv'
  <2>1. ASSUME j \notin stolen' PROVE Once(j)' /\ Claims(j)' /\ Staged(j)' /\ Tracked(j)'
    <3>1. Once(j) /\ Claims(j) /\ Staged(j)
      BY <1>2, <1>3, <1>11, <2>1 DEF JobsInv, JobInv
    <3>2. <<"hand", w>> \in Places(j)
      BY <1>1, <1>2 DEF Places, Carrying
    <3>3. main[e] = 0
      <4>1. main[e] > 0 => <<"main", e>> \in Places(j)
        BY <1>2 DEF Places
      <4>2. <<"main", e>> # <<"hand", w>>
        OBVIOUS
      <4> QED
        BY <1>4, <3>1, <3>2, <4>1, <4>2 DEF Once
    <3>4. /\ Places(j)' \subseteq (Places(j) \ {<<"hand", w>>}) \cup {<<"main", e>>}
          /\ <<"main", e>> \in Places(j)'
      BY <1>2, <1>3, <1>4, <1>7 DEF Places, Now
    <3>5. Once(j)'
      <4>1. \A p, q \in Places(j)' : p = q
        BY <3>1, <3>2, <3>4, PlaceMoves
      <4> QED
        BY <1>3, <1>4, <3>1, <3>3, <4>1 DEF Once
    <3>6. Claims(j)'
      BY <1>1, <1>3, <1>7, <3>1 DEF Claims, Now, Claiming
    <3>7. Staged(j)'
      BY <1>3, <1>7, <3>1 DEF Staged, Now, Unfinished
    <3> QED
      BY <3>4, <3>5, <3>6, <3>7 DEF Tracked
  <2> QED
    BY <1>2, <1>3, <1>4, <1>7, <1>10, <1>11, <2>1, WorkerInv
<1> QED
  BY <1>10, <1>11

\* drainDue: the ZREM.
LEMMA PromoteKeeps ==
    ASSUME EmailTyped, NEW w \in Workers, NEW e \in Entry, PromoteDue(w, e)
    PROVE  EmailTyped' /\ (JobsInv => JobsInv')
<1> DEFINE left == worker[w].todo \ {e}
           j == e.job
<1>1. /\ worker[w].at = "promote" /\ worker[w].hold = {} /\ e \in worker[w].todo
      /\ delayed' = delayed \ {e} /\ aged' \subseteq aged /\ (e \notin delayed => aged' = aged)
      /\ UNCHANGED <<email, producer, main, inFlight, life, crashes, sends, dropped, stolen>>
  BY DEF PromoteDue, EmailTyped, Hands, Hand, Empty
<1>2. worker \in [Workers -> WorkerRecord] /\ left \in SUBSET Entry /\ j \in Jobs
  BY EntryParts DEF EmailTyped, EmailTypeOK, WorkerRecord
<1>3. CASE e \notin delayed
  <2>1. worker' = [worker EXCEPT ![w] = [at |-> "promote", hold |-> {}, todo |-> left]]
    BY <1>3 DEF PromoteDue
  <2>2. \A x \in left : x \in worker[w].todo
    OBVIOUS
  <2> HIDE DEF left
  <2>3. Now(w, "promote", {}) /\ worker'[w].todo = left
    BY <1>2, <2>1, TodoIs DEF Stages
  <2>4. "promote" \in Empty /\ delayed' = delayed
    BY <1>1, <1>3 DEF Empty
  <2> QED
    BY <1>1, <1>3, <2>2, <2>3, <2>4, IdleKeeps
<1>4. CASE e \in delayed
  <2>1. worker' = [worker EXCEPT ![w] = [at |-> "repush", hold |-> {e}, todo |-> left]]
    BY <1>4 DEF PromoteDue
  <2>2. left \subseteq worker[w].todo
    OBVIOUS
  <2> HIDE DEF left
  <2>3. Now(w, "repush", {e}) /\ worker'[w].todo = left
    BY <1>2, <2>1, TodoIs DEF Stages
  <2>4. producer[j] = "over" /\ e.tries < MaxTries /\ e.by = Unstamped
    BY <1>4 DEF EmailTyped, Keys, Key
  <2>5. Hand(w)'
    BY <1>1, <2>3, <2>4 DEF Now, Hand, Empty, Claiming
  <2>6. Keys'
    BY <1>1 DEF EmailTyped, Keys, Key
  <2>7. EmailTyped'
    BY <1>1, <2>3, <2>5, <2>6, WorkerTyped DEF EmailTyped, EmailTypeOK
  <2>8. ASSUME JobsInv PROVE JobsInv'
    <3>1. ASSUME j \notin stolen' PROVE Once(j)' /\ Claims(j)' /\ Staged(j)' /\ Tracked(j)'
      <4>1. Once(j) /\ Claims(j) /\ Staged(j)
        BY <1>1, <1>2, <2>8, <3>1 DEF JobsInv, JobInv
      <4>2. <<"delayed", e>> \in Places(j)
        BY <1>4 DEF Places
      <4>3. /\ Places(j)' \subseteq (Places(j) \ {<<"delayed", e>>}) \cup {<<"hand", w>>}
            /\ <<"hand", w>> \in Places(j)'
        BY <1>1, <2>3 DEF Places, Now, Carrying
      <4>4. Once(j)'
        <5>1. \A p, q \in Places(j)' : p = q
          BY <4>1, <4>2, <4>3, PlaceMoves
        <5> QED
          BY <1>1, <4>1, <5>1 DEF Once
      <4>5. Claims(j)'
        BY <1>1, <2>3, <4>1 DEF Claims, Now, Claiming
      <4>6. Staged(j)'
        BY <1>1, <2>3, <4>1 DEF Staged, Now, Unfinished
      <4> QED
        BY <4>3, <4>4, <4>5, <4>6 DEF Tracked
    <3> QED
      BY <1>1, <1>2, <2>2, <2>3, <2>7, <2>8, <3>1, WorkerInv
  <2> QED
    BY <2>7, <2>8
<1> QED
  BY <1>3, <1>4

\* claim: the LMOVE.
LEMMA ClaimKeeps ==
    ASSUME EmailTyped, NEW w \in Workers, ClaimJob(w)
    PROVE  EmailTyped' /\ (JobsInv => JobsInv')
<1>1. /\ worker[w].at = "promote" /\ worker[w].hold = {} /\ worker \in [Workers -> WorkerRecord]
      /\ UNCHANGED <<email, producer, delayed, aged, life, crashes, sends, dropped, stolen>>
  BY DEF ClaimJob, EmailTyped, EmailTypeOK, Hands, Hand, Empty
<1>2. CASE Goes(w, AtRest(w), {}) /\ UNCHANGED <<main, inFlight>>
  <2>1. AtRest(w) \in Empty /\ AtRest(w) \in Stages
    BY DEF AtRest, Empty, Stages
  <2>2. Now(w, AtRest(w), {}) /\ worker'[w].todo = worker[w].todo
    BY <1>1, <1>2, <2>1, GoesIs
  <2> QED
    BY <1>1, <1>2, <2>1, <2>2, IdleKeeps
<1>3. ASSUME NEW e \in Entry, main[e] > 0, main' = LRem(main, e), inFlight' = LPush(inFlight, e),
             Goes(w, "moved", {e})
      PROVE  EmailTyped' /\ (JobsInv => JobsInv')
  <2> DEFINE j == e.job
  <2>1. Now(w, "moved", {e}) /\ worker'[w].todo = worker[w].todo
    BY <1>1, <1>3, GoesIs DEF Stages
  <2>2. /\ main' \in [Entry -> Nat] /\ main'[e] = main[e] - 1 /\ main[e] \in Nat
        /\ \A x \in Entry \ {e} : main'[x] = main[x]
    BY <1>3, RemIs DEF EmailTyped, EmailTypeOK
  <2>3. /\ inFlight' \in [Entry -> Nat] /\ inFlight'[e] = inFlight[e] + 1 /\ inFlight[e] \in Nat
        /\ \A x \in Entry \ {e} : inFlight'[x] = inFlight[x]
    BY <1>3, PushIs DEF EmailTyped, EmailTypeOK
  <2>4. producer[j] = "over" /\ e.tries < MaxTries /\ e.by = Unstamped /\ j \in Jobs
    BY <1>3, EntryParts DEF EmailTyped, Keys, Key
  <2>5. Hand(w)'
    BY <1>1, <2>1, <2>4 DEF Now, Hand, Empty, Claiming
  <2>6. Keys'
    BY <1>1, <1>3, <2>2, <2>3, <2>4 DEF EmailTyped, Keys, Key
  <2>7. EmailTyped'
    BY <1>1, <2>1, <2>2, <2>3, <2>5, <2>6, WorkerTyped DEF EmailTyped, EmailTypeOK
  <2>8. ASSUME JobsInv PROVE JobsInv'
    <3>1. ASSUME j \notin stolen' PROVE Once(j)' /\ Claims(j)' /\ Staged(j)' /\ Tracked(j)'
      <4>1. Once(j) /\ Claims(j) /\ Staged(j)
        BY <1>1, <2>4, <2>8, <3>1 DEF JobsInv, JobInv
      <4>2. <<"main", e>> \in Places(j) /\ main[e] <= 1
        BY <1>3, <4>1 DEF Places, Once
      <4>3. inFlight[e] = 0
        <5>1. inFlight[e] > 0 => <<"inFlight", e>> \in Places(j)
          BY DEF Places
        <5>2. <<"inFlight", e>> # <<"main", e>>
          OBVIOUS
        <5> QED
          BY <2>3, <4>1, <4>2, <5>1, <5>2 DEF Once
      <4>4. main'[e] = 0 /\ inFlight'[e] = 1
        BY <1>3, <2>2, <2>3, <4>2, <4>3
      <4>5. /\ Places(j)' \subseteq (Places(j) \ {<<"main", e>>}) \cup {<<"inFlight", e>>}
            /\ <<"inFlight", e>> \in Places(j)'
        BY <1>1, <2>1, <2>2, <2>3, <4>4 DEF Places, Now, Carrying
      <4>6. Once(j)'
        <5>1. \A p, q \in Places(j)' : p = q
          BY <4>1, <4>2, <4>5, PlaceMoves
        <5> QED
          BY <2>2, <2>3, <4>1, <4>4, <5>1 DEF Once
      <4>7. Claims(j)'
        <5>1. \A v \in Workers, k \in 0..MaxCrashes : e.by # <<v, k>>
          BY <2>4, StampsDiffer
        <5>2. \A v \in Workers : worker[v].hold \subseteq Entry
          BY <1>1 DEF WorkerRecord
        <5> QED
          BY <1>1, <2>1, <2>3, <4>1, <4>4, <5>1, <5>2 DEF Claims, Now, Claiming
      <4>8. Staged(j)'
        BY <1>1, <2>1, <4>1 DEF Staged, Now, Unfinished
      <4> QED
        BY <4>5, <4>6, <4>7, <4>8 DEF Tracked
    <3> QED
      BY <1>1, <2>1, <2>2, <2>3, <2>4, <2>7, <2>8, <3>1, WorkerInv
  <2> QED
    BY <2>7, <2>8
<1> QED
  BY <1>2, <1>3 DEF ClaimJob

\* claim: the LREM of the unstamped entry, which may have been taken for stale.
LEMMA UnstampKeeps ==
    ASSUME EmailTyped, NEW w \in Workers, RemoveUnstamped(w)
    PROVE  EmailTyped' /\ (JobsInv => JobsInv')
<1>1. worker[w].at = "moved"
  BY DEF RemoveUnstamped
<1>2. PICK e \in Entry : worker[w].hold = {e} /\ e.job \in Jobs
  BY <1>1, HoldOf DEF Empty
<1> DEFINE j == e.job
           s == Stamp(e, w)
           at == IF inFlight[e] > 0 THEN "stamp" ELSE "read"
<1>3. s \in Entry /\ s.job = j /\ s.tries = e.tries /\ s.by = <<w, life[w]>>
  BY StampIs DEF EmailTyped, EmailTypeOK
<1>4. /\ inFlight' = LRem(inFlight, e) /\ Goes(w, at, {s})
      /\ stolen' = IF inFlight[e] > 0 THEN stolen ELSE stolen \cup {j}
      /\ UNCHANGED <<email, producer, main, delayed, aged, life, crashes, sends, dropped>>
  BY <1>2 DEF RemoveUnstamped
<1>5. /\ inFlight' \in [Entry -> Nat] /\ \A x \in Entry \ {e} : inFlight'[x] = inFlight[x]
      /\ inFlight[e] > 0 => inFlight'[e] = inFlight[e] - 1
      /\ inFlight[e] \in Nat /\ (inFlight'[e] > 0 => inFlight[e] > 0)
  BY <1>4, RemIs DEF EmailTyped, EmailTypeOK
<1>6. producer[j] = "over" /\ e.tries < MaxTries /\ e.by = Unstamped
  BY <1>1, <1>2 DEF EmailTyped, Hands, Hand, Claiming
<1>7. at \in {"stamp", "read"} /\ at \in Stages
  BY DEF Stages
<1>8. inFlight[e] > 0 => at = "stamp"
  OBVIOUS
<1> HIDE DEF s, at
<1>9. Now(w, at, {s}) /\ worker'[w].todo = worker[w].todo
  BY <1>3, <1>4, <1>7, GoesIs DEF EmailTyped, EmailTypeOK
<1>10. Keys'
  BY <1>4, <1>5 DEF EmailTyped, Keys, Key
<1>11. Hand(w)'
  BY <1>3, <1>4, <1>6, <1>7, <1>9 DEF Now, Hand, Empty, Claiming
<1>12. stolen' \subseteq Jobs /\ stolen \subseteq stolen'
  BY <1>2, <1>4 DEF EmailTyped, EmailTypeOK
<1>13. EmailTyped'
  BY <1>4, <1>5, <1>9, <1>10, <1>11, <1>12, WorkerTyped DEF EmailTyped, EmailTypeOK
<1>14. ASSUME JobsInv PROVE JobsInv'
  <2>1. ASSUME j \notin stolen' PROVE Once(j)' /\ Claims(j)' /\ Staged(j)' /\ Tracked(j)'
    <3>1. Once(j) /\ Claims(j) /\ Staged(j) /\ inFlight[e] > 0
      BY <1>2, <1>4, <1>14, <2>1 DEF JobsInv, JobInv
    <3>2. <<"inFlight", e>> \in Places(j) /\ inFlight'[e] = 0
      BY <1>5, <3>1 DEF Places, Once
    <3>3. /\ Places(j)' \subseteq (Places(j) \ {<<"inFlight", e>>}) \cup {<<"hand", w>>}
          /\ <<"hand", w>> \in Places(j)'
      BY <1>3, <1>4, <1>5, <1>8, <1>9, <3>1, <3>2 DEF Places, Now, Carrying
    <3>4. Once(j)'
      <4>1. \A p, q \in Places(j)' : p = q
        BY <3>1, <3>2, <3>3, PlaceMoves
      <4> QED
        BY <1>4, <1>5, <3>1, <3>2, <4>1 DEF Once
    <3>5. Claims(j)'
      <4>1. \A v \in Workers : worker[v].at \in Claiming =>
               e \notin worker[v].hold /\ worker[v].hold \subseteq Entry
        <5>1. Gone(e)
          BY <1>6, StampsDiffer DEF Gone
        <5> QED
          BY <5>1, ClaimOf
      <4> QED
        BY <1>1, <1>4, <1>5, <1>8, <1>9, <3>1, <3>2, <4>1 DEF Claims, Now, Claiming
    <3>6. Staged(j)'
      BY <1>4, <1>7, <1>9, <3>1 DEF Staged, Now, Unfinished
    <3> QED
      BY <3>3, <3>4, <3>5, <3>6 DEF Tracked
  <2> QED
    BY <1>2, <1>3, <1>4, <1>5, <1>9, <1>12, <1>13, <1>14, <2>1, WorkerInv
<1> QED
  BY <1>13, <1>14

\* claim: the LPUSH of the stamped entry.
LEMMA StampKeeps ==
    ASSUME EmailTyped, NEW w \in Workers, PushStamped(w)
    PROVE  EmailTyped' /\ (JobsInv => JobsInv')
<1>1. worker[w].at = "stamp"
  BY DEF PushStamped
<1>2. PICK e \in Entry : worker[w].hold = {e} /\ e.job \in Jobs
  BY <1>1, HoldOf DEF Empty
<1> DEFINE j == e.job
<1>3. /\ inFlight' = LPush(inFlight, e) /\ Goes(w, "read", {e})
      /\ UNCHANGED <<email, producer, main, delayed, aged, life, crashes, sends, dropped, stolen>>
  BY <1>2 DEF PushStamped
<1>4. /\ inFlight' \in [Entry -> Nat] /\ inFlight'[e] = inFlight[e] + 1 /\ inFlight[e] \in Nat
      /\ \A x \in Entry \ {e} : inFlight'[x] = inFlight[x]
  BY <1>3, PushIs DEF EmailTyped, EmailTypeOK
<1>5. /\ producer[j] = "over" /\ e.tries < MaxTries
      /\ e.by = <<w, life[w]>> /\ life[w] \in 0..MaxCrashes
  BY <1>1, <1>2 DEF EmailTyped, EmailTypeOK, Hands, Hand
<1>6. e.by # Unstamped
  BY <1>5, StampsDiffer
<1>7. Now(w, "read", {e}) /\ worker'[w].todo = worker[w].todo
  BY <1>3, GoesIs DEF EmailTyped, EmailTypeOK, Stages
<1>8. Keys'
  BY <1>3, <1>4, <1>5 DEF EmailTyped, Keys, Key
<1>9. Hand(w)'
  BY <1>3, <1>5, <1>7 DEF Now, Hand, Empty, Claiming
<1>10. EmailTyped'
  BY <1>3, <1>4, <1>7, <1>8, <1>9, WorkerTyped DEF EmailTyped, EmailTypeOK
<1>11. ASSUME JobsInv PROVE JobsInv'
  <2>1. ASSUME j \notin stolen' PROVE Once(j)' /\ Claims(j)' /\ Staged(j)' /\ Tracked(j)'
    <3>1. Once(j) /\ Claims(j) /\ Staged(j)
      BY <1>2, <1>3, <1>11, <2>1 DEF JobsInv, JobInv
    <3>2. <<"hand", w>> \in Places(j)
      BY <1>1, <1>2 DEF Places, Carrying
    <3>3. inFlight[e] = 0
      <4>1. inFlight[e] > 0 => <<"inFlight", e>> \in Places(j)
        BY <1>2 DEF Places
      <4>2. <<"inFlight", e>> # <<"hand", w>>
        OBVIOUS
      <4> QED
        BY <1>4, <3>1, <3>2, <4>1, <4>2 DEF Once
    <3>4. /\ Places(j)' \subseteq (Places(j) \ {<<"hand", w>>}) \cup {<<"inFlight", e>>}
          /\ <<"inFlight", e>> \in Places(j)'
      BY <1>2, <1>3, <1>4, <1>7 DEF Places, Now, Carrying
    <3>5. Once(j)'
      <4>1. \A p, q \in Places(j)' : p = q
        BY <3>1, <3>2, <3>4, PlaceMoves
      <4> QED
        BY <1>3, <1>4, <3>1, <3>3, <4>1 DEF Once
    <3>6. Claims(j)'
      <4>1. \A v \in Workers, k \in 0..MaxCrashes : e.by = <<v, k>> => v = w /\ k = life[w]
        BY <1>5
      <4>2. \A v \in Workers : worker[v].hold \subseteq Entry
        BY DEF EmailTyped, EmailTypeOK, WorkerRecord
      <4>3. ASSUME NEW v \in Workers, NEW x \in worker'[v].hold, worker'[v].at \in Claiming,
                   x.job = j
            PROVE  inFlight'[x] > 0
        BY <1>4, <1>7, <3>1, <4>2, <4>3 DEF Claims, Now
      <4>4. ASSUME NEW x \in Entry, x.job = j, inFlight'[x] > 0,
                   NEW v \in Workers, NEW k \in 0..MaxCrashes, x.by = <<v, k>>
            PROVE  /\ k <= life'[v]
                   /\ k = life'[v] => x \in worker'[v].hold /\ worker'[v].at \in Claiming
        <5>1. CASE x = e
          BY <1>3, <1>5, <1>7, <4>1, <4>4, <5>1 DEF Now, Claiming
        <5>2. CASE x # e
          <6>1. /\ k <= life[v]
                /\ k = life[v] => x \in worker[v].hold /\ worker[v].at \in Claiming
            BY <1>4, <3>1, <4>4, <5>2 DEF Claims
          <6> QED
            BY <1>1, <1>3, <1>7, <6>1 DEF Now, Claiming
        <5> QED
          BY <5>1, <5>2
      <4> QED
        BY <4>3, <4>4 DEF Claims
    <3>7. Staged(j)'
      BY <1>3, <1>7, <3>1 DEF Staged, Now, Unfinished
    <3> QED
      BY <3>4, <3>5, <3>6, <3>7 DEF Tracked
  <2> QED
    BY <1>2, <1>3, <1>4, <1>7, <1>10, <1>11, <2>1, WorkerInv
<1> QED
  BY <1>10, <1>11

\* The worker at work on a job whose claim was not stolen is the only one.
LEMMA SoleClaim ==
    ASSUME EmailTyped, NEW j, Once(j), Claims(j),
           NEW w \in Workers, worker[w].at \in Claiming, NEW e \in worker[w].hold, e.job = j,
           NEW v \in Workers, worker[v].at \in Claiming, NEW f \in worker[v].hold, f.job = j
    PROVE  v = w
<1>1. e \in Entry /\ f \in Entry /\ e.by = <<w, life[w]>> /\ f.by = <<v, life[v]>>
  BY ClaimOf
<1>2. <<"inFlight", e>> \in Places(j) /\ <<"inFlight", f>> \in Places(j)
  BY <1>1 DEF Claims, Places
<1>3. e = f
  BY <1>2 DEF Once
<1> QED
  BY <1>1, <1>3

\* The worker at work on a job reads or writes its row, or sends the mail.
LEMMA WorkKeeps ==
    ASSUME EmailTyped, NEW w \in Workers, NEW e \in Entry, worker[w].at \in Claiming,
           worker[w].hold = {e}, NEW at \in Claiming, Now(w, at, {e}),
           worker'[w].todo = worker[w].todo,
           email' \in [Jobs -> {"none", "PENDING", "SENT", "FAILED", "DEAD"}],
           \A i \in Jobs : email'[i] = "none" <=> email[i] = "none",
           \A i \in Jobs \ {e.job} : email'[i] = email[i],
           sends' \in [Jobs -> 0..2], \A i \in Jobs : sends[i] > 0 => sends'[i] > 0,
           at = "accepted" => sends'[e.job] > 0,
           Staged(e.job) /\ at \in {"send", "accepted", "failing"} => Unfinished(e.job)',
           Staged(e.job) /\ at = "ack" => ~ Unfinished(e.job)',
           UNCHANGED <<producer, main, inFlight, delayed, aged, life, crashes, dropped, stolen>>
    PROVE  EmailTyped' /\ (JobsInv => JobsInv')
<1> DEFINE j == e.job
<1>1. /\ producer[j] = "over" /\ j \in Jobs
      /\ e.by = <<w, life[w]>> /\ e.tries < MaxTries
  BY EntryParts DEF EmailTyped, Hands, Hand, Claiming
<1>2. Hand(w)'
  BY <1>1 DEF Now, Hand, Empty, Claiming
<1>3. Keys'
  BY DEF EmailTyped, Keys, Key
<1>4. EmailTyped'
  BY <1>2, <1>3, WorkerTyped DEF EmailTyped, EmailTypeOK
<1>5. ASSUME JobsInv PROVE JobsInv'
  <2>1. ASSUME j \notin stolen' PROVE Once(j)' /\ Claims(j)' /\ Staged(j)' /\ Tracked(j)'
    <3>1. Once(j) /\ Claims(j) /\ Staged(j)
      BY <1>1, <1>5, <2>1 DEF JobsInv, JobInv
    <3>2. Places(j)' = Places(j)
      BY DEF Places, Now, Carrying, Claiming
    <3>3. <<"inFlight", e>> \in Places(j)
      BY <3>1 DEF Places, Claims
    <3>4. Once(j)' /\ Tracked(j)'
      BY <3>1, <3>2, <3>3 DEF Once, Tracked
    <3>5. Claims(j)'
      BY <3>1 DEF Claims, Now
    <3>6. Staged(j)'
      <4>1. ASSUME NEW v \in Workers \ {w}, NEW x \in worker[v].hold, x.job = j
            PROVE  worker[v].at \notin Claiming
        BY <3>1, <4>1, SoleClaim
      <4> QED
        BY <3>1, <4>1 DEF Staged, Now, Claiming
    <3> QED
      BY <3>4, <3>5, <3>6
  <2> QED
    BY <1>1, <1>4, <1>5, <2>1, WorkerInv
<1> QED
  BY <1>4, <1>5

\* The handler of drainOne.
LEMMA RowSteps ==
    ASSUME EmailTyped, NEW w \in Workers,
           \/ ReadRow(w) \/ SendMail(w) \/ MarkMailSent(w) \/ MarkMailFailed(w) \/ AckThrows(w)
    PROVE  EmailTyped' /\ (JobsInv => JobsInv')
<1>1. worker[w].at \in Claiming /\ worker[w].at \notin Empty
  BY DEF ReadRow, SendMail, MarkMailSent, MarkMailFailed, AckThrows, Claiming, Empty
<1>2. PICK e \in Entry : worker[w].hold = {e} /\ e.job \in Jobs
  BY <1>1, HoldOf
<1> DEFINE j == e.job
<1>3. email[j] \in {"PENDING", "SENT", "FAILED", "DEAD"}
  BY <1>2, HeldIsPushed DEF EmailTyped, EmailTypeOK
<1>4. /\ worker \in [Workers -> WorkerRecord]
      /\ email \in [Jobs -> {"none", "PENDING", "SENT", "FAILED", "DEAD"}]
      /\ sends \in [Jobs -> 0..2]
  BY DEF EmailTyped, EmailTypeOK
<1>5. /\ UNCHANGED <<producer, main, inFlight, delayed, aged, life, crashes, dropped, stolen>>
      /\ AckThrows(w) \/ ReadRow(w) \/ MarkMailSent(w) \/ MarkMailFailed(w) => sends' = sends
      /\ AckThrows(w) \/ ReadRow(w) \/ SendMail(w) => email' = email
  BY DEF ReadRow, SendMail, MarkMailSent, MarkMailFailed, AckThrows, queueVars
\* Where the worker goes with the entry still in its hands.
<1>6. ASSUME NEW at \in Claiming, Goes(w, at, {e})
      PROVE  Now(w, at, {e}) /\ worker'[w].todo = worker[w].todo
  BY <1>2, <1>4, <1>6, GoesIs DEF Claiming, Stages
<1>7. CASE AckThrows(w)
  <2>1. Goes(w, "failed", {e}) /\ "failed" \in Claiming
    BY <1>2, <1>7 DEF AckThrows, Claiming
  <2> QED
    BY <1>1, <1>2, <1>4, <1>5, <1>6, <1>7, <2>1, WorkKeeps
<1>8. CASE ReadRow(w)
  <2>1. PICK at \in {"ack", "send", "failed"} :
           /\ Goes(w, at, {e})
           /\ at = "ack" => email[j] \in {"SENT", "DEAD"}
           /\ at = "send" => email[j] \notin {"SENT", "DEAD"}
    BY <1>2, <1>8 DEF ReadRow
  <2>2. at \in Claiming /\ at # "accepted" /\ at # "failing"
    BY DEF Claiming
  <2>3. /\ at = "ack" => ~ Unfinished(j)'
        /\ at = "send" => Unfinished(j)'
    BY <1>3, <1>5, <1>8, <2>1 DEF Unfinished
  <2> QED
    BY <1>1, <1>2, <1>4, <1>5, <1>6, <1>8, <2>1, <2>2, <2>3, WorkKeeps
<1>9. CASE SendMail(w)
  <2>1. PICK at \in {"accepted", "failing"} :
           /\ Goes(w, at, {e})
           /\ \/ at = "accepted" /\ sends' = [sends EXCEPT ![j] = IF @ < 2 THEN @ + 1 ELSE @]
              \/ at = "failing" /\ UNCHANGED sends
    BY <1>2, <1>9 DEF SendMail
  <2>2. /\ sends' \in [Jobs -> 0..2] /\ \A i \in Jobs : sends[i] > 0 => sends'[i] > 0
        /\ at = "accepted" => sends'[j] > 0
    BY <1>2, <1>4, <2>1
  <2>3. at \in Claiming /\ at # "ack"
    BY DEF Claiming
  <2>4. Staged(j) => Unfinished(j)'
    <3>1. worker[w].at = "send" /\ email' = email
      BY <1>5, <1>9 DEF SendMail
    <3> QED
      BY <1>2, <3>1 DEF Staged, Unfinished
  <2> QED
    BY <1>1, <1>2, <1>4, <1>5, <1>6, <1>9, <2>1, <2>2, <2>3, <2>4, WorkKeeps
<1>10. CASE MarkMailSent(w)
  <2>1. PICK at \in {"ack", "failing"} :
           /\ Goes(w, at, {e})
           /\ \/ at = "ack" /\ email' = [email EXCEPT ![j] = "SENT"]
              \/ at = "failing" /\ UNCHANGED email
    BY <1>2, <1>10 DEF MarkMailSent
  <2>2. /\ email' \in [Jobs -> {"none", "PENDING", "SENT", "FAILED", "DEAD"}]
        /\ \A i \in Jobs : email'[i] = "none" <=> email[i] = "none"
        /\ \A i \in Jobs \ {j} : email'[i] = email[i]
        /\ at = "ack" => email'[j] = "SENT"
        /\ at = "failing" => email'[j] = email[j]
    BY <1>2, <1>3, <1>4, <2>1
  <2>3. at \in Claiming /\ at # "accepted" /\ at # "send"
    BY DEF Claiming
  <2>4. Staged(j) /\ at = "failing" => Unfinished(j)'
    <3>1. worker[w].at = "accepted"
      BY <1>10 DEF MarkMailSent
    <3> QED
      BY <1>2, <2>2, <3>1 DEF Staged, Unfinished
  <2>5. at = "ack" => ~ Unfinished(j)'
    BY <2>2 DEF Unfinished
  <2> QED
    BY <1>1, <1>2, <1>4, <1>5, <1>6, <1>10, <2>1, <2>2, <2>3, <2>4, <2>5, WorkKeeps
<1>11. CASE MarkMailFailed(w)
  <2>1. /\ Goes(w, "failed", {e}) /\ "failed" \in Claiming
        /\ email' = [email EXCEPT ![j] = "FAILED"] \/ UNCHANGED email
    BY <1>2, <1>11 DEF MarkMailFailed, Claiming
  <2>2. /\ email' \in [Jobs -> {"none", "PENDING", "SENT", "FAILED", "DEAD"}]
        /\ \A i \in Jobs : email'[i] = "none" <=> email[i] = "none"
        /\ \A i \in Jobs \ {j} : email'[i] = email[i]
    BY <1>2, <1>3, <1>4, <2>1
  <2> QED
    BY <1>1, <1>2, <1>4, <1>5, <1>6, <1>11, <2>1, <2>2, WorkKeeps
<1> QED
  BY <1>7, <1>8, <1>9, <1>10, <1>11

\* ack, or the LREM that precedes a retry.
LEMMA RemoveKeeps ==
    ASSUME EmailTyped, NEW w \in Workers, RemoveClaim(w)
    PROVE  EmailTyped' /\ (JobsInv => JobsInv')
<1>1. worker[w].at \in {"ack", "failed"} /\ worker[w].at \in Claiming
  BY DEF RemoveClaim, Claiming
<1>2. PICK e \in Entry : worker[w].hold = {e} /\ e.job \in Jobs
  BY <1>1, HoldOf DEF Empty, Claiming
<1> DEFINE j == e.job
           at == IF worker[w].at = "ack" THEN AtRest(w) ELSE "retry"
           hold == IF worker[w].at = "ack" THEN {} ELSE {Retry(e)}
<1>3. /\ producer[j] = "over" /\ e.tries < MaxTries
      /\ e.by = <<w, life[w]>> /\ life[w] \in 0..MaxCrashes
  BY <1>1, <1>2 DEF EmailTyped, EmailTypeOK, Hands, Hand
<1>4. Retry(e) \in Entry /\ Retry(e).job = j /\ Retry(e).by = Unstamped
  BY <1>3, RetryIs
<1>5. /\ inFlight' = LRem(inFlight, e) /\ Goes(w, at, hold) /\ aged' \subseteq aged
      /\ UNCHANGED <<email, producer, main, delayed, life, crashes, sends, dropped, stolen>>
  BY <1>2 DEF RemoveClaim, Retry
<1>6. /\ inFlight' \in [Entry -> Nat] /\ \A x \in Entry \ {e} : inFlight'[x] = inFlight[x]
      /\ inFlight[e] > 0 => inFlight'[e] = inFlight[e] - 1
      /\ inFlight[e] \in Nat /\ (inFlight'[e] > 0 => inFlight[e] > 0)
  BY <1>5, RemIs DEF EmailTyped, EmailTypeOK
<1>7. /\ at \in {"off", "gone", "retry"} /\ at \in Stages
      /\ at = "retry" <=> worker[w].at = "failed"
      /\ hold = IF at = "retry" THEN {Retry(e)} ELSE {}
      /\ hold \in SUBSET Entry
  BY <1>1, <1>4 DEF AtRest, Stages
<1> HIDE DEF at, hold
<1>8. Now(w, at, hold) /\ worker'[w].todo = worker[w].todo
  BY <1>5, <1>7, GoesIs DEF EmailTyped, EmailTypeOK
<1>9. \A x \in hold : x = Retry(e) /\ x.job = j
  BY <1>4, <1>7
<1>10. Hand(w)'
  <2>1. CASE at = "retry"
    BY <1>3, <1>4, <1>5, <1>7, <1>8, <2>1 DEF Now, Hand, Empty, Claiming
  <2>2. CASE at # "retry"
    BY <1>7, <1>8, <2>2 DEF Now, Hand, Empty
  <2> QED
    BY <2>1, <2>2
<1>11. Keys'
  BY <1>5, <1>6 DEF EmailTyped, Keys, Key
<1>12. EmailTyped'
  BY <1>5, <1>6, <1>8, <1>10, <1>11, WorkerTyped DEF EmailTyped, EmailTypeOK
<1>13. ASSUME JobsInv PROVE JobsInv'
  <2>1. ASSUME j \notin stolen' PROVE Once(j)' /\ Claims(j)' /\ Staged(j)' /\ Tracked(j)'
    <3>1. Once(j) /\ Claims(j) /\ Staged(j)
      BY <1>2, <1>5, <1>13, <2>1 DEF JobsInv, JobInv
    <3>2. inFlight[e] > 0
      BY <1>1, <1>2, <3>1 DEF Claims
    <3>3. <<"inFlight", e>> \in Places(j) /\ inFlight'[e] = 0
      BY <1>2, <1>6, <3>1, <3>2 DEF Places, Once
    <3>4. /\ Places(j)' \subseteq (Places(j) \ {<<"inFlight", e>>}) \cup {<<"hand", w>>}
          /\ at = "retry" => <<"hand", w>> \in Places(j)'
      BY <1>4, <1>5, <1>6, <1>7, <1>8, <3>3 DEF Places, Now, Carrying
    <3>5. Once(j)'
      <4>1. \A p, q \in Places(j)' : p = q
        BY <3>1, <3>3, <3>4, PlaceMoves
      <4> QED
        BY <1>5, <1>6, <3>1, <3>3, <4>1 DEF Once
    <3>6. Claims(j)'
      <4>1. \A v \in Workers \ {w} : worker[v].at \in Claiming =>
               e \notin worker[v].hold /\ worker[v].hold \subseteq Entry
        BY <1>3, ClaimOf
      <4>2. \A v \in Workers : worker'[v].at \in Claiming => v # w /\ worker'[v] = worker[v]
        BY <1>7, <1>8 DEF Now, Claiming
      <4>3. ASSUME NEW v \in Workers, NEW x \in worker'[v].hold, worker'[v].at \in Claiming,
                   x.job = j
            PROVE  inFlight'[x] > 0
        BY <1>6, <3>1, <4>1, <4>2, <4>3 DEF Claims
      <4>4. ASSUME NEW x \in Entry, x.job = j, inFlight'[x] > 0,
                   NEW v \in Workers, NEW k \in 0..MaxCrashes, x.by = <<v, k>>
            PROVE  /\ k <= life'[v]
                   /\ k = life'[v] => x \in worker'[v].hold /\ worker'[v].at \in Claiming
        <5>1. x # e /\ inFlight[x] > 0
          BY <1>6, <3>3, <4>4
        <5>2. k <= life[v] /\ (k = life[v] => x \in worker[v].hold /\ worker[v].at \in Claiming)
          BY <3>1, <4>4, <5>1 DEF Claims
        <5>3. x \in worker[v].hold => v # w
          BY <1>2, <5>1
        <5> QED
          BY <1>5, <1>8, <5>2, <5>3 DEF Now
      <4> QED
        BY <4>3, <4>4 DEF Claims
    <3>7. Staged(j)'
      BY <1>5, <1>7, <1>8, <3>1 DEF Staged, Now, Unfinished
    <3>8. Tracked(j)'
      <4>1. CASE at = "retry"
        BY <3>4, <4>1 DEF Tracked
      <4>2. CASE at # "retry"
        <5>1. ~ Unfinished(j)
          BY <1>1, <1>2, <1>7, <3>1, <4>2 DEF Staged
        <5> QED
          BY <1>5, <5>1 DEF Tracked, Unfinished
      <4> QED
        BY <4>1, <4>2
    <3> QED
      BY <3>5, <3>6, <3>7, <3>8
  <2> QED
    BY <1>2, <1>5, <1>6, <1>8, <1>9, <1>12, <1>13, <2>1, WorkerInv
<1> QED
  BY <1>12, <1>13

\* A retry is scheduled, or the tries are used up.
LEMMA RetryKeeps ==
    ASSUME EmailTyped, NEW w \in Workers, ScheduleRetry(w)
    PROVE  EmailTyped' /\ (JobsInv => JobsInv')
<1>1. worker[w].at = "retry"
  BY DEF ScheduleRetry
<1>2. PICK e \in Entry : worker[w].hold = {e} /\ e.job \in Jobs
  BY <1>1, HoldOf DEF Empty
<1> DEFINE j == e.job
           at == IF e.tries >= MaxTries THEN "dead" ELSE AtRest(w)
           hold == IF e.tries >= MaxTries THEN {e} ELSE {}
<1>3. /\ producer[j] = "over" /\ e.by = Unstamped /\ e.tries \in 0..MaxTries /\ MaxTries \in Nat
  BY <1>1, <1>2, EntryParts, EmailQueueAssumption DEF EmailTyped, Hands, Hand, Claiming
<1>4. /\ Goes(w, at, hold) /\ aged' \subseteq aged
      /\ delayed' = IF e.tries >= MaxTries THEN delayed ELSE delayed \cup {e}
      /\ UNCHANGED <<email, producer, main, inFlight, life, crashes, sends, dropped, stolen>>
  BY <1>2 DEF ScheduleRetry
<1>5. /\ at \in {"off", "gone", "dead"} /\ at \in Stages
      /\ hold = IF at = "dead" THEN {e} ELSE {}
      /\ at = "dead" => delayed' = delayed
      /\ at # "dead" => delayed' = delayed \cup {e} /\ e.tries < MaxTries
  BY <1>3, <1>4 DEF AtRest, Stages
<1> HIDE DEF at, hold
<1>6. Now(w, at, hold) /\ worker'[w].todo = worker[w].todo
  BY <1>4, <1>5, GoesIs DEF EmailTyped, EmailTypeOK
<1>7. Hand(w)'
  <2>1. CASE at = "dead"
    BY <1>3, <1>4, <1>5, <1>6, <2>1 DEF Now, Hand, Empty, Claiming
  <2>2. CASE at # "dead"
    BY <1>5, <1>6, <2>2 DEF Now, Hand, Empty
  <2> QED
    BY <2>1, <2>2
<1>8. Keys' /\ delayed' \subseteq Entry
  BY <1>3, <1>4, <1>5 DEF EmailTyped, EmailTypeOK, Keys, Key
<1>9. EmailTyped'
  BY <1>4, <1>6, <1>7, <1>8, WorkerTyped DEF EmailTyped, EmailTypeOK
<1>10. ASSUME JobsInv PROVE JobsInv'
  <2>1. ASSUME j \notin stolen' PROVE Once(j)' /\ Claims(j)' /\ Staged(j)' /\ Tracked(j)'
    <3>1. Once(j) /\ Claims(j) /\ Staged(j)
      BY <1>2, <1>4, <1>10, <2>1 DEF JobsInv, JobInv
    <3>2. <<"hand", w>> \in Places(j)
      BY <1>1, <1>2 DEF Places, Carrying
    <3> DEFINE q == IF at = "dead" THEN <<"hand", w>> ELSE <<"delayed", e>>
    <3>3. Places(j)' \subseteq (Places(j) \ {<<"hand", w>>}) \cup {q} /\ q \in Places(j)'
      <4>1. CASE at = "dead"
        BY <1>2, <1>4, <1>5, <1>6, <4>1 DEF Places, Now, Carrying
      <4>2. CASE at # "dead"
        BY <1>2, <1>4, <1>5, <1>6, <4>2 DEF Places, Now, Carrying
      <4> QED
        BY <4>1, <4>2
    <3> HIDE DEF q
    <3>4. Once(j)'
      <4>1. \A a, b \in Places(j)' : a = b
        BY <3>1, <3>2, <3>3, PlaceMoves
      <4> QED
        BY <1>4, <3>1, <4>1 DEF Once
    <3>5. Claims(j)'
      BY <1>1, <1>4, <1>5, <1>6, <3>1 DEF Claims, Now, Claiming
    <3>6. Staged(j)'
      BY <1>4, <1>5, <1>6, <3>1 DEF Staged, Now, Unfinished
    <3> QED
      BY <3>3, <3>4, <3>5, <3>6 DEF Tracked
  <2>2. /\ \A x \in worker[w].hold \cup hold : x.job = j
        /\ \A x \in Entry : x.job # j => (x \in delayed' <=> x \in delayed)
    BY <1>2, <1>5
  <2> QED
    BY <1>2, <1>4, <1>6, <1>9, <1>10, <2>1, <2>2, WorkerInv
<1> QED
  BY <1>9, <1>10

\* The row is given up, or its entry is dropped.
LEMMA DeadKeeps ==
    ASSUME EmailTyped, NEW w \in Workers, DeadLetter(w)
    PROVE  EmailTyped' /\ (JobsInv => JobsInv')
<1>1. worker[w].at = "dead"
  BY DEF DeadLetter
<1>2. PICK e \in Entry : worker[w].hold = {e} /\ e.job \in Jobs
  BY <1>1, HoldOf DEF Empty
<1> DEFINE j == e.job
<1>3. /\ Goes(w, AtRest(w), {})
      /\ \/ email' = [email EXCEPT ![j] = "DEAD"] /\ UNCHANGED dropped
         \/ dropped' = dropped \cup {j} /\ UNCHANGED email
      /\ UNCHANGED <<producer, main, inFlight, delayed, aged, life, crashes, sends, stolen>>
  BY <1>2 DEF DeadLetter, queueVars
<1>4. email[j] # "none"
  BY <1>2, HeldIsPushed
<1>5. /\ email' \in [Jobs -> {"none", "PENDING", "SENT", "FAILED", "DEAD"}]
      /\ \A i \in Jobs : email'[i] = "none" <=> email[i] = "none"
      /\ \A i \in Jobs \ {j} : email'[i] = email[i]
      /\ dropped \subseteq dropped' /\ dropped' \subseteq Jobs
      /\ email'[j] = "DEAD" \/ j \in dropped'
      /\ Unfinished(j)' => Unfinished(j)
      /\ email'[j] = email[j] \/ email'[j] = "DEAD"
  BY <1>2, <1>3, <1>4 DEF EmailTyped, EmailTypeOK, Unfinished
<1>6. AtRest(w) \in Empty /\ AtRest(w) \in Stages
  BY DEF AtRest, Empty, Stages
<1>7. Now(w, AtRest(w), {}) /\ worker'[w].todo = worker[w].todo
  BY <1>3, <1>6, GoesIs DEF EmailTyped, EmailTypeOK
<1>8. Hand(w)' /\ Keys'
  BY <1>3, <1>6, <1>7 DEF Now, Hand, EmailTyped, Keys, Key
<1>9. EmailTyped'
  BY <1>3, <1>5, <1>7, <1>8, WorkerTyped DEF EmailTyped, EmailTypeOK
<1>10. ASSUME JobsInv PROVE JobsInv'
  <2>1. ASSUME j \notin stolen' PROVE Once(j)' /\ Claims(j)' /\ Staged(j)' /\ Tracked(j)'
    <3>1. Once(j) /\ Claims(j) /\ Staged(j)
      BY <1>2, <1>3, <1>10, <2>1 DEF JobsInv, JobInv
    <3>2. <<"hand", w>> \in Places(j)
      BY <1>1, <1>2 DEF Places, Carrying
    <3>3. Places(j)' \subseteq Places(j)
      BY <1>3, <1>7 DEF Places, Now
    <3>4. Once(j)' /\ Tracked(j)'
      BY <1>3, <1>5, <3>1, <3>3 DEF Once, Tracked, Unfinished
    <3>5. Claims(j)'
      BY <1>1, <1>3, <1>7, <3>1 DEF Claims, Now, Claiming
    <3>6. ASSUME NEW v \in Workers, worker[v].at \in Claiming, NEW x \in worker[v].hold, x.job = j
          PROVE  FALSE
      <4>1. x \in Entry /\ inFlight[x] > 0
        BY <3>1, <3>6, ClaimOf DEF Claims
      <4>2. <<"inFlight", x>> \in Places(j) /\ <<"inFlight", x>> # <<"hand", w>>
        BY <3>6, <4>1 DEF Places
      <4> QED
        BY <3>1, <3>2, <4>2 DEF Once
    <3>7. Staged(j)'
      <4>1. \A v \in Workers : \A x \in worker'[v].hold : v # w /\ worker'[v] = worker[v]
        BY <1>7 DEF Now
      <4> QED
        BY <3>6, <4>1 DEF Staged, Claiming
    <3> QED
      BY <3>4, <3>5, <3>7
  <2> QED
    BY <1>2, <1>3, <1>5, <1>7, <1>9, <1>10, <2>1, WorkerInv
<1> QED
  BY <1>9, <1>10

\* A worker is killed between two statements.
LEMMA KillKeeps ==
    ASSUME EmailTyped, NEW w \in Workers, KillWorker(w)
    PROVE  EmailTyped' /\ (JobsInv => JobsInv')
<1>1. /\ crashes < MaxCrashes /\ crashes' = crashes + 1 /\ life' = [life EXCEPT ![w] = @ + 1]
      /\ worker' = [worker EXCEPT ![w] = [WorkerIdle EXCEPT !.at = AtRest(w)]]
      /\ dropped' = IF worker[w].at \in Carrying
                    THEN dropped \cup {e.job : e \in worker[w].hold} ELSE dropped
      /\ UNCHANGED <<email, producer, main, inFlight, delayed, aged, sends, stolen>>
  BY DEF KillWorker, Carrying, queueVars
<1>2. /\ worker \in [Workers -> WorkerRecord] /\ life \in [Workers -> 0..MaxCrashes]
      /\ \A v \in Workers : life[v] <= crashes
  BY DEF EmailTyped, EmailTypeOK, Lives
<1>3. Now(w, AtRest(w), {}) /\ worker'[w].todo = {}
  <2>1. [WorkerIdle EXCEPT !.at = AtRest(w)] = [at |-> AtRest(w), hold |-> {}, todo |-> {}]
    BY DEF WorkerIdle
  <2>2. AtRest(w) \in Stages
    BY DEF AtRest, Stages
  <2> QED
    BY <1>1, <1>2, <2>1, <2>2, TodoIs
<1>4. /\ life' \in [Workers -> 0..MaxCrashes] /\ crashes' \in 0..MaxCrashes
      /\ life'[w] = life[w] + 1 /\ \A v \in Workers \ {w} : life'[v] = life[v]
      /\ Lives'
  BY <1>1, <1>2, EmailQueueAssumption DEF Lives, EmailTyped, EmailTypeOK
<1>5. /\ dropped' \subseteq Jobs /\ dropped \subseteq dropped'
      /\ worker[w].at \in Carrying => \A e \in worker[w].hold : e.job \in dropped'
  BY <1>1, HeldIsPushed DEF EmailTyped, EmailTypeOK
<1>6. EmailTypeOK'
  BY <1>1, <1>3, <1>4, <1>5 DEF EmailTyped, EmailTypeOK, Now
<1>7. Hands'
  <2>1. Hand(w)'
    BY <1>3 DEF Now, Hand, AtRest, Empty
  <2>2. ASSUME NEW v \in Workers, v # w PROVE Hand(v)'
    <3>1. Hand(v) /\ worker'[v] = worker[v] /\ life'[v] = life[v]
      BY <1>3, <1>4, <2>2 DEF EmailTyped, Hands, Now
    <3> QED
      BY <1>1, <3>1 DEF Hand
  <2> QED
    BY <2>1, <2>2 DEF Hands
<1>8. Keys' /\ Rows'
  BY <1>1 DEF EmailTyped, Keys, Key, Rows
<1>9. EmailTyped'
  BY <1>4, <1>6, <1>7, <1>8 DEF EmailTyped
<1>10. ASSUME JobsInv, NEW j \in Jobs, j \notin stolen PROVE JobInv(j)'
  <2>1. Once(j) /\ Claims(j) /\ StaleIsGone(j) /\ Staged(j) /\ Tracked(j)
    BY <1>10 DEF JobsInv, JobInv
  <2>2. \A v \in Workers : /\ worker'[v].hold \subseteq worker[v].hold
                           /\ worker'[v].todo \subseteq worker[v].todo
                           /\ \A x \in worker'[v].hold : v # w /\ worker'[v] = worker[v]
    BY <1>3 DEF Now
  <2>3. Places(j)' \subseteq Places(j)
    BY <1>1, <2>2 DEF Places
  <2>4. Once(j)' /\ Staged(j)'
    BY <1>1, <2>1, <2>2, <2>3 DEF Once, Staged, Unfinished
  <2>5. \A v \in Workers : /\ life[v] \in 0..MaxCrashes /\ life'[v] \in 0..MaxCrashes
                           /\ life'[v] >= life[v] /\ (v = w => life'[v] > life[v])
    BY <1>2, <1>4
  <2>6. Claims(j)'
    <3>1. ASSUME NEW x \in Entry, x.job = j, inFlight[x] > 0,
                 NEW v \in Workers, NEW k \in 0..MaxCrashes, x.by = <<v, k>>
          PROVE  /\ k <= life'[v]
                 /\ k = life'[v] => x \in worker'[v].hold /\ worker'[v].at \in Claiming
      <4>1. k <= life[v] /\ (k = life[v] => x \in worker[v].hold /\ worker[v].at \in Claiming)
        BY <2>1, <3>1 DEF Claims
      <4>2. k <= life'[v] /\ (k = life'[v] => v # w /\ k = life[v])
        BY <2>5, <4>1
      <4> QED
        BY <1>3, <4>1, <4>2 DEF Now
    <3> QED
      BY <1>1, <2>1, <2>2, <3>1 DEF Claims
  <2>7. StaleIsGone(j)'
    <3>1. \A x : Gone(x) => Gone(x)'
      BY <2>5 DEF Gone
    <3> QED
      BY <1>1, <2>1, <2>2, <3>1 DEF StaleIsGone
  <2>8. Tracked(j)'
    <3> SUFFICES ASSUME producer[j] = "over", Unfinished(j), j \notin dropped'
                 PROVE  Places(j)' # {}
      BY <1>1 DEF Tracked, Unfinished
    <3>1. Places(j) # {}
      BY <1>5, <2>1 DEF Tracked
    <3>2. worker[w].at \in Carrying => \A x \in worker[w].hold : x.job # j
      BY <1>5
    <3>3. Places(j) \subseteq Places(j)'
      BY <1>1, <1>3, <3>2 DEF Places, Now
    <3> QED
      BY <3>1, <3>3
  <2> QED
    BY <2>4, <2>6, <2>7, <2>8 DEF JobInv
<1>11. JobsInv => JobsInv'
  BY <1>1, <1>10 DEF JobsInv, JobInv
<1> QED
  BY <1>9, <1>11

-----------------------------------------------------------------------------
(* The theorems about EmailQueue.                                           *)

\* The inductive invariant.
EmailInv == EmailTyped /\ JobsInv

\* Every step of the queue keeps the inductive invariant.
LEMMA EmailStep == EmailInv /\ [EmailNext]_emailVars => EmailInv'
<1> SUFFICES ASSUME EmailTyped, JobsInv, [EmailNext]_emailVars
             PROVE  EmailTyped' /\ JobsInv'
  BY DEF EmailInv
<1>1. CASE UNCHANGED emailVars
  <2>1. EmailTyped'
    BY <1>1 DEF emailVars, queueVars, EmailTyped, EmailTypeOK, Hands, Hand, Keys, Key, Rows, Lives
  <2>2. \A j \in Jobs : SameJob(j)
    BY <1>1 DEF SameJob, emailVars, queueVars
  <2>3. \A v \in Workers : life[v] <= life'[v]
    BY <1>1 DEF EmailTyped, EmailTypeOK, emailVars
  <2> QED
    BY <2>1, <2>2, <2>3, OthersKept DEF JobsInv
<1>2. ASSUME NEW j \in Jobs, CreateRow(j) \/ PushPointer(j) \/ ProducerDies(j)
      PROVE  EmailTyped' /\ JobsInv'
  BY <1>2, CreateKeeps, PushKeeps
<1>3. ASSUME NEW w \in Workers, WorkerStep(w) PROVE EmailTyped' /\ JobsInv'
  BY <1>3, ScanKeeps, PushBackKeeps, RecoverKeeps, PromoteKeeps, ClaimKeeps, UnstampKeeps,
     StampKeeps, RowSteps, RemoveKeeps, RetryKeeps, DeadKeeps DEF WorkerStep
<1>4. ASSUME NEW w \in Workers, KillWorker(w) PROVE EmailTyped' /\ JobsInv'
  BY <1>4, KillKeeps
<1>5. ASSUME NEW e \in Entry, AgeEntry(e) PROVE EmailTyped' /\ JobsInv'
  BY <1>5, AgeKeeps
<1> QED
  BY <1>1, <1>2, <1>3, <1>4, <1>5 DEF EmailNext

\* It holds at first.
LEMMA EmailStart == EmailInit => EmailInv
<1> SUFFICES ASSUME EmailInit PROVE EmailInv
  OBVIOUS
<1>1. WorkerIdle \in WorkerRecord /\ WorkerIdle.at = "off" /\ WorkerIdle.hold = {} /\ WorkerIdle.todo = {}
  BY DEF WorkerIdle, WorkerRecord
<1>2. \A w \in Workers : /\ worker[w].at = "off" /\ worker[w].hold = {} /\ worker[w].todo = {}
                         /\ life[w] = 0
  BY <1>1 DEF EmailInit
<1>3. /\ \A e \in Entry : main[e] = 0 /\ inFlight[e] = 0
      /\ delayed = {} /\ aged = {} /\ \A j \in Jobs : producer[j] = "idle" /\ email[j] = "none"
  BY DEF EmailInit
<1>4. EmailTypeOK
  BY <1>1, EmailQueueAssumption DEF EmailInit, EmailTypeOK
<1>5. Hands /\ Keys /\ Rows /\ Lives
  BY <1>2, <1>3 DEF EmailInit, Hands, Hand, Empty, Keys, Key, Rows, Lives
<1>6. JobsInv
  <2> SUFFICES ASSUME NEW j \in Jobs PROVE JobInv(j)
    BY DEF JobsInv
  <2>1. Places(j) = {}
    BY <1>2, <1>3 DEF Places
  <2> QED
    BY <1>2, <1>3, <2>1 DEF JobInv, Once, Claims, StaleIsGone, Staged, Tracked
<1> QED
  BY <1>4, <1>5, <1>6 DEF EmailInv, EmailTyped

\* The inductive invariant of the queue: one pointer per job, and who may hold it.
THEOREM EmailInvariant == EmailSpec => []EmailInv
BY EmailStart, EmailStep, PTL DEF EmailSpec

\* Type correctness of the rows, the three keys and the workers.
THEOREM EmailTypeCorrect == EmailSpec => []EmailTypeOK
<1>1. EmailInv => EmailTypeOK
  BY DEF EmailInv, EmailTyped
<1> QED
  BY <1>1, EmailInvariant, PTL

\* A pushed job that is not finished is in one of the three Redis keys or in the hands
\* of a worker, unless its entry died in a worker's hands or its claim was stolen.
THEOREM UnfinishedIsTrackedAlways == EmailSpec => []UnfinishedIsTracked
<1>1. EmailInv => UnfinishedIsTracked
  <2> SUFFICES ASSUME EmailInv, NEW j \in Jobs, producer[j] = "over", Unfinished(j),
                      j \notin dropped \cup stolen
               PROVE  InHand(j) \/ Queued(j)
    BY DEF UnfinishedIsTracked
  <2>1. PICK p \in Places(j) : TRUE
    BY DEF EmailInv, JobsInv, JobInv, Tracked
  <2> QED
    BY <2>1 DEF Places, InHand, Queued
<1> QED
  BY <1>1, EmailInvariant, PTL

\* No step tries a finished job again, as long as its claim was not stolen.
LEMMA FinishedStays ==
    ASSUME EmailInv, [EmailNext]_emailVars, NEW j \in Jobs,
           email[j] \in {"SENT", "DEAD"}, j \notin stolen
    PROVE  email'[j] \in {"SENT", "DEAD"} /\ sends'[j] = sends[j]
<1>1. ~ Unfinished(j) /\ Staged(j) /\ email[j] # "none"
  BY DEF Unfinished, EmailInv, JobsInv, JobInv
<1>2. email \in [Jobs -> {"none", "PENDING", "SENT", "FAILED", "DEAD"}]
      /\ sends \in [Jobs -> 0..2]
  BY DEF EmailInv, EmailTyped, EmailTypeOK
<1>3. CASE UNCHANGED <<email, sends>>
  BY <1>3
<1>4. ASSUME NEW i \in Jobs, CreateRow(i) PROVE email'[j] \in {"SENT", "DEAD"} /\ sends'[j] = sends[j]
  <2>1. i # j
    BY <1>1, <1>4 DEF CreateRow, EmailInv, EmailTyped, Rows
  <2> QED
    BY <1>2, <1>4, <2>1 DEF CreateRow
<1>5. ASSUME NEW w \in Workers, SendMail(w) \/ MarkMailFailed(w) \/ MarkMailSent(w) \/ DeadLetter(w)
      PROVE  email'[j] \in {"SENT", "DEAD"} /\ sends'[j] = sends[j]
  <2>1. worker[w].at \in {"send", "failing", "accepted", "dead"} /\ worker[w].at \notin Empty
    BY <1>5 DEF SendMail, MarkMailFailed, MarkMailSent, DeadLetter, Empty
  <2>2. PICK e \in Entry : worker[w].hold = {e} /\ e.job \in Jobs
    BY <2>1, HoldOf DEF EmailInv
  <2>3. worker[w].at # "dead" => e.job # j
    BY <1>1, <2>1, <2>2 DEF Staged
  <2> QED
    BY <1>2, <1>5, <2>2, <2>3 DEF SendMail, MarkMailFailed, MarkMailSent, DeadLetter
<1>6. ASSUME NEW w \in Workers, WorkerStep(w)
      PROVE  \/ SendMail(w) \/ MarkMailFailed(w) \/ MarkMailSent(w) \/ DeadLetter(w)
             \/ UNCHANGED <<email, sends>>
  BY <1>6 DEF WorkerStep, ScanInFlight, ScanDelayed, PushBack, RecoverStale, PromoteDue, ClaimJob,
              RemoveUnstamped, PushStamped, ReadRow, RemoveClaim, AckThrows, ScheduleRetry
<1>7. CASE \/ UNCHANGED emailVars
           \/ \E i \in Jobs : PushPointer(i) \/ ProducerDies(i)
           \/ \E w \in Workers : KillWorker(w)
           \/ \E e \in Entry : AgeEntry(e)
  BY <1>3, <1>7 DEF emailVars, PushPointer, ProducerDies, KillWorker, AgeEntry
<1> QED
  BY <1>3, <1>4, <1>5, <1>6, <1>7 DEF EmailNext

\* A job that is SENT or DEAD stays so and its mail is not sent again, as long as its
\* claim was not taken for stale half-way.
THEOREM FinishedIsNotResentAlways == EmailSpec => FinishedIsNotResent
<1>1. EmailInv /\ [EmailNext]_emailVars
        => [\A j \in Jobs : email[j] \in {"SENT", "DEAD"} /\ j \notin stolen
              => email'[j] \in {"SENT", "DEAD"} /\ sends'[j] = sends[j]]_emailVars
  BY FinishedStays
<1> QED
  BY <1>1, EmailInvariant, PTL DEF EmailSpec, FinishedIsNotResent

-----------------------------------------------------------------------------
(* The refinement: what the queue tells of each mail, and what was sent.     *)

Mailed == {j \in Jobs : sends[j] > 0}

\* A step that changes one row, or sends one mail.
LEMMA OneMailRefines ==
    ASSUME NEW j \in Jobs, email[j] # "none" \/ (email'[j] = "PENDING" /\ Mailed' = Mailed),
           email'[j] \in {"PENDING", "SENT", "FAILED", "DEAD"},
           email[j] \in {"none", "PENDING", "SENT", "FAILED", "DEAD"},
           \A i \in Jobs \ {j} : email'[i] = email[i],
           \/ Mailed' = Mailed /\ (email'[j] = "SENT" => j \in Mailed)
           \/ Mailed' = Mailed \cup {j} /\ email' = email
    PROVE  [EmailContract!Next]_<<Mailed, EmailOutcome>>
<1> DEFINE old == EmailOutcome[j]
           new == EmailOutcome'[j]
<1>1. EmailOutcome' = [EmailOutcome EXCEPT ![j] = new]
  BY DEF EmailOutcome
<1>2. /\ old \in {"none", "open", "reported", "given_up"}
      /\ new \in {"open", "reported", "given_up"}
      /\ old = "none" <=> email[j] = "none"
      /\ old = "none" => new = "open"
      /\ new = "reported" => email'[j] = "SENT"
  BY DEF EmailOutcome
<1>3. CASE Mailed' = Mailed \cup {j} /\ email' = email
  <2>1. EmailOutcome' = EmailOutcome
    BY <1>3 DEF EmailOutcome
  <2>2. EmailOutcome[j] # "none"
    BY <1>2, <1>3
  <2> QED
    BY <1>3, <2>1, <2>2 DEF EmailContract!Next, EmailContract!Deliver, Mailed
<1>4. CASE Mailed' = Mailed /\ (email'[j] = "SENT" => j \in Mailed)
  <2>1. CASE new = old
    BY <1>1, <1>4, <2>1 DEF EmailOutcome
  <2>2. CASE new = "reported"
    BY <1>1, <1>2, <1>4, <2>2 DEF EmailContract!Next, EmailContract!Report, Mailed
  <2>3. CASE new = "given_up"
    BY <1>1, <1>2, <1>4, <2>3 DEF EmailContract!Next, EmailContract!GiveUp, Mailed
  <2>4. CASE new = "open" /\ old = "none"
    BY <1>1, <1>4, <2>4 DEF EmailContract!Next, EmailContract!Accept, Mailed
  <2>5. CASE new = "open" /\ old \in {"reported", "given_up"}
    BY <1>1, <1>4, <2>5 DEF EmailContract!Next, EmailContract!Reopen, Mailed
  <2> QED
    BY <1>2, <2>1, <2>2, <2>3, <2>4, <2>5
<1> QED
  BY <1>3, <1>4

\* Every step of the queue is a step of the contract, or none.
LEMMA EmailStepRefines ==
    ASSUME EmailTyped, EmailTyped', [EmailNext]_emailVars
    PROVE  [EmailContract!Next]_<<Mailed, EmailOutcome>>
<1>1. /\ \A j \in Jobs : email[j] \in {"none", "PENDING", "SENT", "FAILED", "DEAD"}
      /\ \A j \in Jobs : sends[j] \in 0..2
      /\ \A j \in Jobs : producer[j] = "idle" <=> email[j] = "none"
      /\ email \in [Jobs -> {"none", "PENDING", "SENT", "FAILED", "DEAD"}]
      /\ sends \in [Jobs -> 0..2]
  BY DEF EmailTyped, EmailTypeOK, Rows
<1>2. CASE UNCHANGED <<email, sends>>
  BY <1>2 DEF Mailed, EmailOutcome
<1>3. ASSUME NEW j \in Jobs, CreateRow(j)
      PROVE  [EmailContract!Next]_<<Mailed, EmailOutcome>>
  <2>1. /\ email'[j] = "PENDING" /\ \A i \in Jobs \ {j} : email'[i] = email[i]
        /\ Mailed' = Mailed
    BY <1>1, <1>3 DEF CreateRow, Mailed
  <2> QED
    BY <1>1, <2>1, OneMailRefines
<1>4. ASSUME NEW w \in Workers, SendMail(w) \/ MarkMailFailed(w) \/ MarkMailSent(w) \/ DeadLetter(w)
      PROVE  [EmailContract!Next]_<<Mailed, EmailOutcome>>
  <2>1. worker[w].at \notin Empty
    BY <1>4 DEF SendMail, MarkMailFailed, MarkMailSent, DeadLetter, Empty
  <2>2. PICK e \in Entry : worker[w].hold = {e} /\ e.job \in Jobs
    BY <2>1, HoldOf
  <2> DEFINE j == e.job
  <2>3. email[j] # "none" /\ (worker[w].at = "accepted" => j \in Mailed)
    BY <2>2, HeldIsPushed DEF EmailTyped, Hands, Hand, Mailed
  <2>4. CASE UNCHANGED sends
    <3>1. /\ email'[j] \in {"PENDING", "SENT", "FAILED", "DEAD"}
          /\ \A i \in Jobs \ {j} : email'[i] = email[i]
          /\ email'[j] = "SENT" => email[j] = "SENT" \/ worker[w].at = "accepted"
      BY <1>1, <1>4, <2>2, <2>3, <2>4
         DEF SendMail, MarkMailFailed, MarkMailSent, DeadLetter
    <3>2. Mailed' = Mailed
      BY <2>4 DEF Mailed
    <3>3. CASE email'[j] = email[j]
      <4>1. email' = email
        BY <1>1, <3>1, <3>3 DEF EmailTyped, EmailTypeOK
      <4> QED
        BY <1>2, <2>4, <4>1
    <3>4. CASE email'[j] # email[j]
      BY <1>1, <2>2, <2>3, <3>1, <3>2, <3>4, OneMailRefines
    <3> QED
      BY <3>3, <3>4
  <2>5. CASE sends' # sends
    <3>1. /\ email' = email
          /\ sends' = [sends EXCEPT ![j] = IF @ < 2 THEN @ + 1 ELSE @]
      BY <1>4, <2>2, <2>5 DEF SendMail, MarkMailFailed, MarkMailSent, DeadLetter
    <3>2. Mailed' = Mailed \cup {j}
      BY <1>1, <2>2, <3>1 DEF Mailed
    <3> QED
      BY <1>1, <2>2, <2>3, <3>1, <3>2, OneMailRefines
  <2> QED
    BY <2>4, <2>5
<1>5. ASSUME NEW w \in Workers, WorkerStep(w)
      PROVE  \/ SendMail(w) \/ MarkMailFailed(w) \/ MarkMailSent(w) \/ DeadLetter(w)
             \/ UNCHANGED <<email, sends>>
  BY <1>5 DEF WorkerStep, ScanInFlight, ScanDelayed, PushBack, RecoverStale, PromoteDue, ClaimJob,
              RemoveUnstamped, PushStamped, ReadRow, RemoveClaim, AckThrows, ScheduleRetry
<1>6. CASE \/ UNCHANGED emailVars
           \/ \E i \in Jobs : PushPointer(i) \/ ProducerDies(i)
           \/ \E w \in Workers : KillWorker(w)
           \/ \E e \in Entry : AgeEntry(e)
  BY <1>2, <1>6 DEF emailVars, PushPointer, ProducerDies, KillWorker, AgeEntry
<1> QED
  BY <1>2, <1>3, <1>4, <1>5, <1>6 DEF EmailNext

\* The email queue implements AtLeastOnce: a row is SENT only of a mail the mailer
\* accepted, and a row that was created is never forgotten, however many workers,
\* retries, thefts and crashes there were.
THEOREM EmailRefines == EmailSpec => EmailIsAtLeastOnce
<1>1. EmailInit => EmailContract!Init
  BY DEF EmailInit, EmailContract!Init, EmailOutcome
<1>2. EmailInv /\ EmailInv' /\ [EmailNext]_emailVars
        => [EmailContract!Next]_<<{j \in Jobs : sends[j] > 0}, EmailOutcome>>
  BY EmailStepRefines DEF EmailInv, Mailed
<1> QED
  BY <1>1, <1>2, EmailInvariant, PTL DEF EmailSpec, EmailIsAtLeastOnce, EmailContract!Spec

\* What that means for the rows: an EmailJob is SENT only if the mailer accepted its
\* mail, a mail has a row, and ...
SentIsMailed == \A j \in Jobs :
    /\ email[j] = "SENT" => sends[j] > 0
    /\ sends[j] > 0 => email[j] # "none"

\* ... a row is there for good.
RowsStand == [][\A j \in Jobs : EmailOutcome[j] # "none" => EmailOutcome'[j] # "none"]_<<Mailed, EmailOutcome>>

\* Both follow from AtLeastOnce alone, stolen claims and crashes included.
THEOREM SentIsMailedAlways == EmailSpec => []SentIsMailed /\ RowsStand
<1> DEFINE Kept == \A j \in Jobs : /\ EmailOutcome[j] = "reported" => j \in Mailed
                                   /\ j \in Mailed => EmailOutcome[j] # "none"
<1>1. EmailContract!Init => Kept
  BY DEF EmailContract!Init, Mailed
<1>2. Kept /\ [EmailContract!Next]_<<Mailed, EmailOutcome>> => Kept'
  <2> SUFFICES ASSUME Kept, [EmailContract!Next]_<<Mailed, EmailOutcome>>
               PROVE  Kept'
    OBVIOUS
  <2>1. CASE UNCHANGED <<Mailed, EmailOutcome>>
    BY <2>1
  <2>2. ASSUME NEW m \in Jobs, NEW v \in {"open", "reported", "given_up"},
               EmailOutcome' = [EmailOutcome EXCEPT ![m] = v], Mailed' = Mailed,
               v = "reported" => m \in Mailed
        PROVE  Kept'
    BY <2>2 DEF EmailOutcome
  <2>3. ASSUME NEW m \in Jobs, EmailContract!Deliver(m)
        PROVE  Kept'
    BY <2>3 DEF EmailContract!Deliver, Mailed
  <2> QED
    BY <2>1, <2>2, <2>3 DEF EmailContract!Next, EmailContract!Accept, EmailContract!Report,
       EmailContract!GiveUp, EmailContract!Reopen, Mailed
<1>3. [EmailContract!Next]_<<Mailed, EmailOutcome>>
        => [\A j \in Jobs : EmailOutcome[j] # "none" => EmailOutcome'[j] # "none"]_<<Mailed, EmailOutcome>>
  BY DEF EmailContract!Next, EmailContract!Accept, EmailContract!Report, EmailContract!GiveUp,
         EmailContract!Reopen, EmailContract!Deliver, EmailOutcome
<1>4. EmailInv /\ Kept => SentIsMailed
  BY DEF SentIsMailed, EmailOutcome, Mailed, EmailInv, EmailTyped, EmailTypeOK
<1>5. EmailInit => EmailContract!Init
  BY DEF EmailInit, EmailContract!Init, EmailOutcome
<1>6. EmailInv /\ EmailInv' /\ [EmailNext]_emailVars => [EmailContract!Next]_<<Mailed, EmailOutcome>>
  BY EmailStepRefines DEF EmailInv
<1> QED
  BY <1>1, <1>2, <1>3, <1>4, <1>5, <1>6, EmailInvariant, PTL DEF EmailSpec, RowsStand

-----------------------------------------------------------------------------
(* MCMail: the two pipelines side by side.                                   *)

\* A behaviour of MCMail is a behaviour of the outbox and of the queue.
LEMMA MailIsBoth == MailSpec => OutboxSpec /\ EmailSpec
<1>1. MailInit => OutboxInit /\ EmailInit
  BY DEF MailInit
<1>2. [MailNext]_<<pipeline, outboxVars, emailVars>>
        => [OutboxNext]_outboxVars /\ [EmailNext]_emailVars
  BY DEF MailNext
<1> QED
  BY <1>1, <1>2, PTL DEF MailSpec, OutboxSpec, EmailSpec

\* Every variable of the two has its type.
THEOREM MailTypeCorrect == MailSpec => []MailTypeOK
<1>1. OutboxInv /\ EmailInv => MailTypeOK
  BY DEF OutboxInv, EmailInv, EmailTyped, MailTypeOK
<1> QED
  BY <1>1, MailIsBoth, OutboxInvariant, EmailInvariant, PTL
=================================================================================
