----------------------------- MODULE PaymentProofs -----------------------------
(***************************************************************************)
(* Proofs about CircuitBreaker (its type, that one call probes at a time,  *)
(* that a failure count has a TTL, that it cools to half-open), about      *)
(* Disputes (in whatever order the events are delivered, the row follows   *)
(* Stripe) and about PlanBilling (so does the plan, where nothing upsets   *)
(* it).                                                                    *)
(***************************************************************************)
EXTENDS CircuitBreaker, Disputes, PlanBilling, FiniteSetTheorems, TLAPS

-----------------------------------------------------------------------------
(* CircuitBreaker.                                                          *)

\* Nobody probes, or cleans up after a probe, without holding the lock.
ProbersHoldLock == ~lapsed => \A c \in Calls : Probing(c) => probe = c

BreakerInv == BreakerTypeOK /\ ProbersHoldLock /\ CountIsTimed

\* A request that moves on leaves the others where they are.
LEMMA MovesTyped ==
    ASSUME BreakerTypeOK, NEW c \in Calls, NEW to \in CallStates, Moves(c, to)
    PROVE  /\ call' \in [Calls -> CallStates]
           /\ call'[c] = to
           /\ \A d \in Calls \ {c} : call'[d] = call[d]
BY DEF BreakerTypeOK, Moves

\* A breaker without keys satisfies the invariant.
LEMMA BreakerStart == BreakerInit => BreakerInv
<1> SUFFICES ASSUME BreakerInit
             PROVE  BreakerInv
  OBVIOUS
<1>1. call \in [Calls -> CallStates] /\ torn \subseteq CallStates
  BY DEF BreakerInit, CallStates
<1>2. BreakerTypeOK
  <2>1. fails \in 0..Trip /\ deaths \in 0..MaxDeaths
    BY BreakerAssumption DEF BreakerInit
  <2>2. open \in BOOLEAN /\ timed \in BOOLEAN /\ lapsed \in BOOLEAN /\ cleared \in BOOLEAN
    BY DEF BreakerInit
  <2> QED BY <1>1, <2>1, <2>2 DEF BreakerInit, BreakerTypeOK
<1>3. ProbersHoldLock /\ CountIsTimed
  BY DEF BreakerInit, ProbersHoldLock, CountIsTimed, Probing
<1> QED BY <1>2, <1>3 DEF BreakerInv

\* Every action moves one call, or is an expiry.
LEMMA BreakerTypeStep == BreakerTypeOK /\ [BreakerNext]_breakerVars => BreakerTypeOK'
<1> SUFFICES ASSUME BreakerTypeOK, [BreakerNext]_breakerVars
             PROVE  BreakerTypeOK'
  OBVIOUS
<1> USE BreakerAssumption
<1>1. ASSUME NEW c \in Calls, CallStep(c) \/ OpenThrows(c) \/ KillCall(c)
      PROVE  BreakerTypeOK'
  <2>1. PICK to \in CallStates : Moves(c, to)
    BY <1>1 DEF CallStep, ReadOpen, ReadArmed, TakeProbe, ProbeSucceeds, ProbeFails, CallEnds,
                CountFailure, SetCountTtl, SetOpen, SetArmed, DropProbe, OpenThrows, KillCall,
                CallStates
  <2>2. call' \in [Calls -> CallStates] /\ call[c] \in CallStates
    BY <2>1, MovesTyped DEF BreakerTypeOK
  <2>3. CASE ReadOpen(c) \/ ReadArmed(c) \/ ProbeFails(c) \/ CallEnds(c)
    BY <2>2, <2>3 DEF BreakerTypeOK, ReadOpen, ReadArmed, ProbeFails, CallEnds
  <2>4. CASE TakeProbe(c)
    BY <2>2, <2>4 DEF BreakerTypeOK, TakeProbe
  <2>5. CASE ProbeSucceeds(c)
    <3>1. cleared' \in BOOLEAN
      BY <2>5, Zenon DEF ProbeSucceeds
    <3>2. fails' \in 0..Trip
      BY <2>5 DEF ProbeSucceeds, BreakerTypeOK
    <3>3. timed' \in BOOLEAN
      BY <2>5 DEF ProbeSucceeds, BreakerTypeOK
    <3>4. armed' \in {"no", "short", "full"} /\ probe' \in Calls \cup {NoCall}
      BY <2>5 DEF ProbeSucceeds, BreakerTypeOK
    <3> QED BY <2>2, <2>5, <3>1, <3>2, <3>3, <3>4 DEF BreakerTypeOK, ProbeSucceeds
  <2>6. CASE CountFailure(c) \/ SetCountTtl(c)
    <3>1. fails' \in 0..Trip
      BY <2>6 DEF BreakerTypeOK, CountFailure, SetCountTtl
    <3>2. timed' \in BOOLEAN
      <4>1. (fails > 0) \in BOOLEAN
        OBVIOUS
      <4> QED BY <2>6, <4>1 DEF BreakerTypeOK, CountFailure, SetCountTtl
    <3> QED BY <2>2, <2>6, <3>1, <3>2 DEF BreakerTypeOK, CountFailure, SetCountTtl
  <2>7. CASE SetOpen(c) \/ SetArmed(c) \/ DropProbe(c)
    BY <2>2, <2>7 DEF BreakerTypeOK, SetOpen, SetArmed, DropProbe
  <2>8. CASE OpenThrows(c) \/ KillCall(c)
    BY <2>2, <2>8 DEF BreakerTypeOK, OpenThrows, KillCall
  <2> QED BY <1>1, <2>3, <2>4, <2>5, <2>6, <2>7, <2>8, Zenon DEF CallStep
<1>2. CASE OpenExpires \/ ArmedExpires \/ CountExpires
  <2>1. fails' \in 0..Trip
    BY <1>2 DEF BreakerTypeOK, OpenExpires, ArmedExpires, CountExpires
  <2>2. open' \in BOOLEAN /\ timed' \in BOOLEAN
    BY <1>2 DEF BreakerTypeOK, OpenExpires, ArmedExpires, CountExpires
  <2> QED BY <1>2, <2>1, <2>2 DEF BreakerTypeOK, OpenExpires, ArmedExpires, CountExpires
<1>3. CASE ProbeExpires
  <2>1. lapsed' \in BOOLEAN
    BY <1>3 DEF ProbeExpires
  <2> QED BY <1>3, <2>1 DEF BreakerTypeOK, ProbeExpires
<1>4. CASE UNCHANGED breakerVars
  BY <1>4 DEF BreakerTypeOK, breakerVars
<1> QED BY <1>1, <1>2, <1>3, <1>4 DEF BreakerNext

\* The lock passes from one prober to the next only through NoCall.
LEMMA LockStep ==
    BreakerTypeOK /\ ProbersHoldLock /\ [BreakerNext]_breakerVars => ProbersHoldLock'
<1> SUFFICES ASSUME BreakerTypeOK, ProbersHoldLock, [BreakerNext]_breakerVars
             PROVE  ProbersHoldLock'
  OBVIOUS
<1> USE BreakerAssumption
<1>1. ASSUME NEW c \in Calls, CallStep(c) \/ OpenThrows(c) \/ KillCall(c)
      PROVE  ProbersHoldLock'
  <2>1. CASE \/ ReadOpen(c) \/ ReadArmed(c) \/ CallEnds(c) \/ CountFailure(c) \/ SetCountTtl(c)
             \/ ProbeFails(c) \/ OpenThrows(c) \/ SetOpen(c) \/ SetArmed(c) \/ KillCall(c)
    <3>1. UNCHANGED <<probe, lapsed>>
      BY <2>1 DEF ReadOpen, ReadArmed, CallEnds, CountFailure, SetCountTtl, ProbeFails,
                  OpenThrows, SetOpen, SetArmed, KillCall
    <3>2. \A d \in Calls : Probing(d)' => Probing(d)
      BY <2>1 DEF BreakerTypeOK, Moves, Probing, ReadOpen, ReadArmed, CallEnds, CountFailure,
                  SetCountTtl, ProbeFails, OpenThrows, SetOpen, SetArmed, KillCall
    <3> QED BY <3>1, <3>2 DEF ProbersHoldLock
  <2>2. CASE TakeProbe(c)
    BY <2>2 DEF TakeProbe, Moves, BreakerTypeOK, ProbersHoldLock, Probing
  <2>3. CASE ProbeSucceeds(c) \/ DropProbe(c)
    <3>1. Probing(c) /\ ~Probing(c)' /\ lapsed' = lapsed
      BY <2>3 DEF ProbeSucceeds, DropProbe, Moves, BreakerTypeOK, Probing
    <3>2. \A d \in Calls \ {c} : Probing(d)' <=> Probing(d)
      BY <2>3 DEF ProbeSucceeds, DropProbe, Moves, BreakerTypeOK, Probing
    <3>3. ~lapsed => \A d \in Calls : ~Probing(d)'
      BY <3>1, <3>2 DEF ProbersHoldLock
    <3> QED BY <3>1, <3>3 DEF ProbersHoldLock
  <2> QED BY <1>1, <2>1, <2>2, <2>3 DEF CallStep
<1>2. CASE OpenExpires \/ ArmedExpires \/ CountExpires
  BY <1>2 DEF ProbersHoldLock, Probing, OpenExpires, ArmedExpires, CountExpires
<1>3. CASE ProbeExpires
  BY <1>3 DEF ProbersHoldLock, Probing, ProbeExpires, BreakerTypeOK
<1>4. CASE UNCHANGED breakerVars
  BY <1>4 DEF ProbersHoldLock, Probing, breakerVars
<1> QED BY <1>1, <1>2, <1>3, <1>4 DEF BreakerNext

\* A count without a TTL has a request on its way to PEXPIRE, or that died on it.
LEMMA CountStep ==
    BreakerTypeOK /\ CountIsTimed /\ [BreakerNext]_breakerVars => CountIsTimed'
<1> SUFFICES ASSUME BreakerTypeOK, CountIsTimed, [BreakerNext]_breakerVars
             PROVE  CountIsTimed'
  OBVIOUS
<1> USE BreakerAssumption
<1>1. ASSUME NEW c \in Calls, CallStep(c) \/ OpenThrows(c) \/ KillCall(c)
      PROVE  CountIsTimed'
  <2>1. CASE \/ ReadOpen(c) \/ ReadArmed(c) \/ TakeProbe(c) \/ ProbeFails(c) \/ CallEnds(c)
             \/ SetOpen(c) \/ SetArmed(c) \/ DropProbe(c) \/ OpenThrows(c) \/ KillCall(c)
    <3>1. UNCHANGED <<fails, timed>> /\ torn \subseteq torn'
      BY <2>1 DEF ReadOpen, ReadArmed, TakeProbe, ProbeFails, CallEnds, SetOpen, SetArmed,
                  DropProbe, OpenThrows, KillCall
    <3>2. \A d \in Calls : call[d] = "expire" => call'[d] = "expire" \/ "expire" \in torn'
      BY <2>1 DEF BreakerTypeOK, Moves, ReadOpen, ReadArmed, TakeProbe, ProbeFails, CallEnds,
                  SetOpen, SetArmed, DropProbe, OpenThrows, KillCall
    <3> QED BY <3>1, <3>2 DEF CountIsTimed
  <2>2. CASE ProbeSucceeds(c)
    BY <2>2 DEF ProbeSucceeds, Moves, BreakerTypeOK, CountIsTimed
  <2>3. CASE CountFailure(c)
    BY <2>3 DEF CountFailure, Moves, BreakerTypeOK, CountIsTimed
  <2>4. CASE SetCountTtl(c)
    BY <2>4 DEF SetCountTtl, CountIsTimed
  <2> QED BY <1>1, <2>1, <2>2, <2>3, <2>4 DEF CallStep
<1>2. CASE OpenExpires \/ ArmedExpires \/ ProbeExpires
  BY <1>2 DEF CountIsTimed, OpenExpires, ArmedExpires, ProbeExpires
<1>3. CASE CountExpires
  BY <1>3 DEF CountIsTimed, CountExpires
<1>4. CASE UNCHANGED breakerVars
  BY <1>4 DEF CountIsTimed, breakerVars
<1> QED BY <1>1, <1>2, <1>3, <1>4 DEF BreakerNext

\* The inductive invariant of the breaker, for any number of concurrent calls and
\* any threshold: its type, who may hold the probe lock, and the TTL of the count.
THEOREM BreakerInvariant == BreakerSpec => []BreakerInv
<1>1. BreakerInv /\ [BreakerNext]_breakerVars => BreakerInv'
  BY BreakerTypeStep, LockStep, CountStep DEF BreakerInv
<1> QED BY <1>1, BreakerStart, PTL DEF BreakerSpec

\* As long as every probe ran under its lock, at most one call probes at a time,
\* whatever dies, expires or fails late.
THEOREM OneProbeAlways == BreakerSpec => []OneProbe
<1>1. BreakerInv => OneProbe
  <2> SUFFICES ASSUME BreakerInv, ~lapsed
               PROVE  Cardinality({c \in Calls : call[c] = "probing"}) <= 1
    BY DEF OneProbe
  <2> DEFINE P == {c \in Calls : call[c] = "probing"}
  <2>1. P \subseteq {probe}
    BY DEF BreakerInv, ProbersHoldLock, Probing
  <2>2. CASE P = {}
    <3>1. Cardinality(P) = 0
      BY <2>2, FS_EmptySet
    <3> QED BY <3>1
  <2>3. CASE P = {probe}
    <3>1. Cardinality({probe}) = 1
      BY FS_Singleton, Zenon
    <3>2. Cardinality(P) = 1
      BY <2>3, <3>1
    <3> QED BY <3>2
  <2> QED BY <2>1, <2>2, <2>3
<1> QED BY <1>1, BreakerInvariant, PTL

\* The failure count has a TTL unless a request is between INCR and PEXPIRE or died
\* there: failures days apart are not added up.
THEOREM CountIsTimedAlways == BreakerSpec => []CountIsTimed
<1>1. BreakerInv => CountIsTimed
  BY DEF BreakerInv
<1> QED BY <1>1, BreakerInvariant, PTL

\* While the breaker is open its :armed outlives it, or something the property names is
\* in the way: what CoolsToHalfOpen says of the step that closes it, said of every state.
Disarming ==
    \/ cleared \/ torn \cap {"tripArm", "reopenArm"} # {}
    \/ \E c \in Calls : call[c] \in {"tripArm", "reopenArm"}

OpenIsArmed == open /\ armed # "full" => Disarming

\* Every step keeps an open breaker armed for half-open, but for the named exceptions.
LEMMA ArmedStep ==
    BreakerTypeOK /\ OpenIsArmed /\ [BreakerNext]_breakerVars => OpenIsArmed'
<1> SUFFICES ASSUME BreakerTypeOK, OpenIsArmed, [BreakerNext]_breakerVars
             PROVE  OpenIsArmed'
  OBVIOUS
<1>1. ASSUME NEW c \in Calls, CallStep(c) \/ OpenThrows(c) \/ KillCall(c)
      PROVE  OpenIsArmed'
  <2>1. CASE \/ ReadOpen(c) \/ ReadArmed(c) \/ TakeProbe(c) \/ ProbeFails(c) \/ CallEnds(c)
             \/ CountFailure(c) \/ SetCountTtl(c) \/ DropProbe(c) \/ OpenThrows(c) \/ KillCall(c)
    <3>1. UNCHANGED <<open, armed, cleared>> /\ torn \subseteq torn'
      BY <2>1 DEF ReadOpen, ReadArmed, TakeProbe, ProbeFails, CallEnds, CountFailure,
                  SetCountTtl, DropProbe, OpenThrows, KillCall
    <3>2. \A d \in Calls : call[d] \in {"tripArm", "reopenArm"}
                            => call'[d] = call[d] \/ call[d] \in torn'
      BY <2>1 DEF BreakerTypeOK, Moves, ReadOpen, ReadArmed, TakeProbe, ProbeFails, CallEnds,
                  CountFailure, SetCountTtl, DropProbe, OpenThrows, KillCall
    <3> QED BY <3>1, <3>2 DEF OpenIsArmed, Disarming
  <2>2. CASE ProbeSucceeds(c)
    <3>1. open' = open /\ (open => cleared')
      BY <2>2 DEF ProbeSucceeds
    <3> QED BY <3>1 DEF OpenIsArmed, Disarming
  <2>3. CASE SetOpen(c)
    <3>1. call'[c] \in {"tripArm", "reopenArm", "unlock"} /\ call'[c] # "unlock"
      BY <2>3 DEF SetOpen, Moves, BreakerTypeOK
    <3> QED BY <3>1 DEF OpenIsArmed, Disarming
  <2>4. CASE SetArmed(c)
    BY <2>4 DEF SetArmed, OpenIsArmed
  <2> QED BY <1>1, <2>1, <2>2, <2>3, <2>4 DEF CallStep
<1>2. CASE OpenExpires
  BY <1>2 DEF OpenExpires, OpenIsArmed
<1>3. CASE ArmedExpires \/ CountExpires \/ ProbeExpires \/ UNCHANGED breakerVars
  <2>1. /\ UNCHANGED <<open, call, torn, cleared>>
        /\ open /\ armed' # "full" => armed # "full"
    BY <1>3 DEF ArmedExpires, CountExpires, ProbeExpires, breakerVars
  <2> QED BY <2>1 DEF OpenIsArmed, Disarming
<1> QED BY <1>1, <1>2, <1>3 DEF BreakerNext

\* For any number of calls: when the key that opened the breaker expires, the one that
\* makes it half-open is still there, or one of the named accidents removed it.
THEOREM CoolsToHalfOpenAlways == BreakerSpec => CoolsToHalfOpen
<1> DEFINE Cools == open /\ ~open' => \/ armed' # "no" \/ cleared
                                      \/ torn \cap {"tripArm", "reopenArm"} # {}
                                      \/ \E c \in Calls : call[c] \in {"tripArm", "reopenArm"}
<1>1. BreakerInit => OpenIsArmed
  BY DEF BreakerInit, OpenIsArmed
<1>2. OpenIsArmed /\ [BreakerNext]_breakerVars => [Cools]_breakerVars
  <2> SUFFICES ASSUME OpenIsArmed, BreakerNext, open, ~open'
               PROVE  armed' # "no" \/ Disarming
    BY DEF Disarming
  <2>1. armed' = armed
    BY DEF BreakerNext, CallStep, ReadOpen, ReadArmed, TakeProbe, ProbeSucceeds, ProbeFails,
           CallEnds, CountFailure, SetCountTtl, SetOpen, SetArmed, DropProbe, OpenThrows, KillCall,
           OpenExpires, ArmedExpires, CountExpires, ProbeExpires
  <2> QED BY <2>1 DEF OpenIsArmed
<1>3. BreakerInv => BreakerTypeOK
  BY DEF BreakerInv
<1> QED BY <1>1, <1>2, <1>3, ArmedStep, BreakerInvariant, PTL DEF BreakerSpec, CoolsToHalfOpen

-----------------------------------------------------------------------------
(* Disputes.                                                                *)

Stages == DOMAIN NextStages

Rank(s) == StatusRank(MapDisputeStatus(s))

Decided == {"WON", "LOST", "WARNING_CLOSED"}

\* What has been applied to the row.
Applied == logged \ skipped

\* Stripe: the last event tells the stage, a final one is the last, only a final one
\* closes, and without an escalation the rank never falls.
StripeSays ==
    /\ IF stage = "none" THEN sentOut = {} ELSE \E e \in sentOut : e.status = stage
    /\ \A e \in sentOut : e.status \in Final => stage = e.status
    /\ \A e \in sentOut : e.type = "CLOSED" => e.status \in Final
    /\ ~escalated => \A e \in sentOut : Rank(e.status) <= Rank(stage)

\* The row: it shows the status of one of the events applied to it, and of none of them
\* is the rank higher.
RowSays ==
    /\ dispute # NoRow => \E e \in Applied : dispute = MapDisputeStatus(e.status)
    /\ \A e \in Applied : dispute # NoRow /\ Rank(e.status) <= StatusRank(dispute)
    /\ <<"CLOSED", NoRow>> \in trail => dispute \in Decided

DisputeInv == DisputeTypeOK /\ StripeSays /\ RowSays

\* The map and the ranks of the statuses at Stripe.
LEMMA StageRanks ==
    /\ \A s \in Stages : MapDisputeStatus(s) \in DisputeStatuses /\ Rank(s) \in 0..2
    /\ \A s \in Stages : Rank(s) = 2 <=> s \in Final
    /\ \A s \in Stages : Rank(s) = 2 <=> MapDisputeStatus(s) \in Decided
    /\ \A s, t \in Stages :
         Rank(s) = Rank(t) /\ Rank(s) # 2 => MapDisputeStatus(s) = MapDisputeStatus(t)
BY DEF Stages, NextStages, Rank, StatusRank, MapDisputeStatus, Final, DisputeStatuses, Decided

\* Only the decided dispute statuses have the highest rank.
LEMMA StatusRanks ==
    \A d \in DisputeStatuses : StatusRank(d) \in 0..2 /\ (StatusRank(d) = 2 <=> d \in Decided)
BY DEF StatusRank, DisputeStatuses, Decided

\* A dispute moves on from a stage that is not final, and its rank falls only when an
\* inquiry under review escalates.
LEMMA StageMoves ==
    ASSUME NEW s \in Stages, stage \in Stages,
           s \in NextStages[stage] \/ (s = stage /\ s \notin Final \cup {"none"})
    PROVE  /\ stage \notin Final /\ s # "none"
           /\ ~(stage = "warning_under_review" /\ s = "needs_response")
                 => stage = "none" \/ Rank(stage) <= Rank(s)
           /\ stage = "none" => s \notin Final
BY DEF Stages, NextStages, Rank, StatusRank, MapDisputeStatus, Final

\* A dispute Stripe has not opened satisfies the invariant.
LEMMA DisputeStart == DisputeInit => DisputeInv
BY DisputeAssumption
   DEF DisputeInit, DisputeInv, DisputeTypeOK, StripeSays, RowSays, Applied, NextStages

\* A new stage at Stripe keeps the invariant.
LEMMA MoveKeeps ==
    ASSUME DisputeInv, NEW s \in Stages, StripeMoves(s)
    PROVE  DisputeInv'
<1> DEFINE n == Cardinality(sentOut) + 1
           type == IF stage = "none" THEN "OPENED"
                   ELSE IF s \in Final THEN "CLOSED" ELSE "UPDATED"
           new == [type |-> type, status |-> s, seq |-> n]
<1>1. /\ n \in 1..MaxEvents /\ stage' = s /\ sentOut' = sentOut \cup {new}
      /\ escalated' = (escalated \/ (stage = "warning_under_review" /\ s = "needs_response"))
      /\ UNCHANGED <<matched, logged, skipped, dispute, trail>>
  BY DEF StripeMoves
<1>2. /\ stage \notin Final /\ s # "none"
      /\ ~escalated' => stage = "none" \/ Rank(stage) <= Rank(s)
      /\ stage = "none" => s \notin Final
  BY <1>1, StageMoves DEF StripeMoves, DisputeInv, DisputeTypeOK, Stages
<1>3. new \in DisputeEvent
  BY <1>1 DEF DisputeEvent, Stages
<1>4. DisputeTypeOK'
  <2>1. escalated' \in BOOLEAN
    BY <1>1
  <2> QED BY <1>1, <1>3, <2>1 DEF DisputeInv, DisputeTypeOK, Stages
<1>5. StripeSays'
  <2>1. new \in sentOut' /\ new.status = stage'
    BY <1>1
  <2>2. \A e \in sentOut : e.status \notin Final
    BY <1>2 DEF DisputeInv, StripeSays
  <2>3. \A e \in sentOut' : e.status \in Final => stage' = e.status
    BY <1>1, <2>2
  <2>4. \A e \in sentOut' : e.type = "CLOSED" => e.status \in Final
    <3>1. new.type = "CLOSED" => new.status \in Final
      BY <1>2
    <3> QED BY <1>1, <3>1 DEF DisputeInv, StripeSays
  <2>5. ~escalated' => \A e \in sentOut' : Rank(e.status) <= Rank(stage')
    <3> SUFFICES ASSUME ~escalated', NEW e \in sentOut'
                 PROVE  Rank(e.status) <= Rank(s)
      BY <1>1
    <3>1. Rank(s) \in 0..2
      BY StageRanks
    <3>2. CASE e = new
      BY <3>1, <3>2
    <3>3. CASE e \in sentOut
      <4>1. ~escalated /\ Rank(e.status) <= Rank(stage)
        BY <1>1, <3>3 DEF DisputeInv, StripeSays
      <4>2. stage # "none"
        BY <3>3 DEF DisputeInv, StripeSays
      <4>3. CASE Rank(stage) <= Rank(s)
        <5>1. Rank(e.status) \in 0..2 /\ Rank(stage) \in 0..2
          BY <3>3, StageRanks DEF DisputeInv, DisputeTypeOK, DisputeEvent, Stages
        <5> QED BY <3>1, <4>1, <4>3, <5>1
      <4> QED BY <1>1, <1>2, <3>3, <4>2, <4>3
    <3> QED BY <1>1, <3>2, <3>3
  <2> QED BY <1>1, <1>2, <2>1, <2>3, <2>4, <2>5 DEF StripeSays
<1>6. RowSays'
  BY <1>1 DEF DisputeInv, RowSays, Applied
<1> QED BY <1>4, <1>5, <1>6 DEF DisputeInv

\* The status the upsert leaves: the event's own, or the higher one it had.
LEMMA UpsertRanks ==
    ASSUME DisputeInv, NEW e \in sentOut
    PROVE  LET s == MapDisputeStatus(e.status)
               u == Upserted(s) IN
           /\ u \in DisputeStatuses
           /\ Rank(e.status) <= StatusRank(u)
           /\ u = s \/ (u = dispute /\ dispute # NoRow)
           /\ dispute # NoRow => StatusRank(dispute) <= StatusRank(u)
<1>1. e.status \in Stages
  BY DEF DisputeInv, DisputeTypeOK, DisputeEvent, Stages
<1>2. MapDisputeStatus(e.status) \in DisputeStatuses /\ Rank(e.status) \in 0..2
  BY <1>1, StageRanks
<1>3. dispute # NoRow => dispute \in DisputeStatuses /\ StatusRank(dispute) \in 0..2
  BY StatusRanks DEF DisputeInv, DisputeTypeOK
<1> QED BY <1>2, <1>3 DEF Upserted, Rank

\* An event delivered in any order keeps the invariant.
LEMMA DeliverKeeps ==
    ASSUME DisputeInv, NEW e \in sentOut, DeliverDispute(e)
    PROVE  DisputeInv'
<1> DEFINE s == MapDisputeStatus(e.status)
           u == Upserted(s)
<1>1. /\ e \notin logged /\ logged' = logged \cup {e}
      /\ UNCHANGED <<matched, stage, escalated, sentOut>>
  BY DEF DeliverDispute, stripeDispute
<1>2. StripeSays'
  BY <1>1 DEF DisputeInv, StripeSays, Rank
<1>3. e \in DisputeEvent /\ e.status \in Stages
  BY DEF DisputeInv, DisputeTypeOK, DisputeEvent, Stages
<1>4. CASE ~matched
  <2>1. skipped' = skipped \cup {e} /\ UNCHANGED <<dispute, trail>>
    BY <1>4 DEF DeliverDispute
  <2>2. DisputeTypeOK'
    BY <1>1, <2>1 DEF DisputeInv, DisputeTypeOK
  <2>3. Applied' = Applied
    BY <1>1, <2>1 DEF DisputeInv, DisputeTypeOK, Applied
  <2>4. RowSays'
    BY <2>1, <2>3 DEF DisputeInv, RowSays, Rank
  <2> QED BY <1>2, <2>2, <2>4 DEF DisputeInv
<1>5. CASE matched
  <2>1. /\ dispute' = u /\ skipped' = skipped
        /\ trail' = trail \cup {TrailEntry(e, u)}
    BY <1>5 DEF DeliverDispute
  <2>2. /\ u \in DisputeStatuses
        /\ Rank(e.status) <= StatusRank(u)
        /\ u = s \/ (u = dispute /\ dispute # NoRow)
        /\ dispute # NoRow => StatusRank(dispute) <= StatusRank(u)
    BY UpsertRanks
  <2>3. u # NoRow
    BY <2>2, DisputeAssumption
  <2>4. Applied' = Applied \cup {e}
    BY <1>1, <2>1 DEF DisputeInv, DisputeTypeOK, Applied
  <2>5. DisputeTypeOK'
    <3>1. TrailEntry(e, u) \in {"OPENED", "UPDATED", "CLOSED"} \X (DisputeStatuses \cup {NoRow})
      BY <1>3, <2>2 DEF TrailEntry, DisputeEvent
    <3> QED BY <1>1, <2>1, <2>2, <3>1 DEF DisputeInv, DisputeTypeOK
  <2>6. \E x \in Applied' : u = MapDisputeStatus(x.status)
    BY <2>2, <2>4 DEF DisputeInv, RowSays
  <2>7. \A x \in Applied' : Rank(x.status) <= StatusRank(u)
    <3> SUFFICES ASSUME NEW x \in Applied, x # e
                 PROVE  Rank(x.status) <= StatusRank(u)
      BY <2>2, <2>4
    <3>1. dispute # NoRow /\ Rank(x.status) <= StatusRank(dispute)
      BY DEF DisputeInv, RowSays
    <3>2. x.status \in Stages /\ dispute \in DisputeStatuses
      BY <3>1 DEF DisputeInv, DisputeTypeOK, DisputeEvent, Applied, Stages
    <3>3. Rank(x.status) \in 0..2 /\ StatusRank(dispute) \in 0..2 /\ StatusRank(u) \in 0..2
      BY <2>2, <3>2, StageRanks, StatusRanks
    <3> QED BY <2>2, <3>1, <3>3
  <2>8. <<"CLOSED", NoRow>> \in trail' => u \in Decided
    <3> SUFFICES ASSUME <<"CLOSED", NoRow>> \in trail'
                 PROVE  StatusRank(u) = 2
      BY <2>2, StatusRanks
    <3>1. StatusRank(u) \in 0..2
      BY <2>2, StatusRanks
    <3>2. CASE <<"CLOSED", NoRow>> \in trail
      <4>1. dispute \in Decided /\ dispute # NoRow /\ StatusRank(dispute) = 2
        BY <3>2, StatusRanks, DisputeAssumption DEF DisputeInv, RowSays, Decided, DisputeStatuses
      <4> QED BY <2>2, <3>1, <4>1
    <3>3. CASE <<"CLOSED", NoRow>> = TrailEntry(e, u)
      <4>1. e.type = "CLOSED"
        BY <3>3 DEF TrailEntry
      <4>2. Rank(e.status) = 2
        BY <1>3, <4>1, StageRanks DEF DisputeInv, StripeSays
      <4> QED BY <2>2, <3>1, <4>2
    <3> QED BY <2>1, <3>2, <3>3
  <2>9. RowSays'
    BY <2>1, <2>3, <2>6, <2>7, <2>8 DEF RowSays, Rank
  <2> QED BY <1>2, <2>5, <2>9 DEF DisputeInv
<1> QED BY <1>4, <1>5

\* Every step of a dispute keeps the invariant.
LEMMA DisputeStep == DisputeInv /\ [DisputeNext]_disputeVars => DisputeInv'
<1> SUFFICES ASSUME DisputeInv, [DisputeNext]_disputeVars
             PROVE  DisputeInv'
  OBVIOUS
<1>1. ASSUME NEW s \in DOMAIN NextStages, StripeMoves(s)
      PROVE  DisputeInv'
  BY <1>1, MoveKeeps DEF Stages
<1>2. CASE OrderMatches
  BY <1>2 DEF OrderMatches, stripeDispute, DisputeInv, DisputeTypeOK, StripeSays, RowSays,
              Applied, Rank
<1>3. ASSUME NEW e \in sentOut, DeliverDispute(e)
      PROVE  DisputeInv'
  BY <1>3, DeliverKeeps
<1>4. CASE UNCHANGED disputeVars
  BY <1>4 DEF disputeVars, stripeDispute, DisputeInv, DisputeTypeOK, StripeSays, RowSays,
              Applied, Rank
<1> QED BY <1>1, <1>2, <1>3, <1>4 DEF DisputeNext

\* The inductive invariant of Disputes, for any number of events.
THEOREM DisputeInvariant == DisputeSpec => []DisputeInv
<1> QED BY DisputeStart, DisputeStep, PTL DEF DisputeSpec

\* Once all events are applied the row has the status at Stripe.
LEMMA RowCatchesUp == DisputeInv => CaughtUp
<1> SUFFICES ASSUME DisputeInv, logged = sentOut, skipped = {}, ~escalated, stage # "none"
             PROVE  dispute = MapDisputeStatus(stage)
  BY DEF CaughtUp
<1>1. Applied = sentOut
  BY DEF Applied
<1>2. PICK last \in sentOut : last.status = stage
  BY DEF DisputeInv, StripeSays
<1>3. dispute # NoRow /\ Rank(stage) <= StatusRank(dispute)
  BY <1>1, <1>2 DEF DisputeInv, RowSays
<1>4. PICK e \in sentOut : dispute = MapDisputeStatus(e.status)
  BY <1>1, <1>3 DEF DisputeInv, RowSays
<1>5. e.status \in Stages /\ stage \in Stages
  BY DEF DisputeInv, DisputeTypeOK, DisputeEvent, Stages
<1>6. Rank(e.status) \in 0..2 /\ Rank(stage) \in 0..2 /\ Rank(e.status) <= Rank(stage)
  BY <1>5, StageRanks DEF DisputeInv, StripeSays
<1>7. Rank(e.status) = Rank(stage)
  BY <1>3, <1>4, <1>6 DEF Rank
<1>8. CASE Rank(stage) = 2
  BY <1>4, <1>5, <1>7, <1>8, StageRanks DEF DisputeInv, StripeSays
<1>9. CASE Rank(stage) # 2
  BY <1>4, <1>5, <1>7, <1>9, StageRanks
<1> QED BY <1>8, <1>9

\* No late event takes a decided dispute back or to another outcome.
LEMMA RowKeepsOutcome == DisputeInv => OutcomeIsKept
<1> SUFFICES ASSUME DisputeInv
             PROVE  OutcomeIsKept
  OBVIOUS
<1>1. ASSUME NEW e \in Applied, e.status \in Final
      PROVE  dispute = MapDisputeStatus(e.status)
  <2>1. dispute # NoRow /\ Rank(e.status) <= StatusRank(dispute)
    BY DEF DisputeInv, RowSays
  <2>2. PICK x \in Applied : dispute = MapDisputeStatus(x.status)
    BY <2>1 DEF DisputeInv, RowSays
  <2>3. /\ e \in sentOut /\ x \in sentOut
        /\ e.status \in Stages /\ x.status \in Stages
    BY DEF DisputeInv, DisputeTypeOK, DisputeEvent, Applied, Stages
  <2>4. Rank(e.status) = 2 /\ Rank(x.status) \in 0..2
    BY <1>1, <2>3, StageRanks
  <2>5. x.status \in Final
    BY <2>1, <2>2, <2>3, <2>4, StageRanks DEF Rank
  <2> QED BY <1>1, <2>2, <2>3, <2>5 DEF DisputeInv, StripeSays
<1>2. <<"CLOSED", NoRow>> \in trail => StatusRank(dispute) = 2
  BY StatusRanks DEF DisputeInv, RowSays, Decided, DisputeStatuses
<1> QED BY <1>1, <1>2 DEF OutcomeIsKept, Applied

\* In whatever order Stripe's events are delivered, the row ends at Stripe's status and
\* a decided dispute stays decided that way.
THEOREM DisputeFollowsStripeAlways == DisputeSpec => []DisputeFollowsStripe
<1>1. DisputeInv => DisputeFollowsStripe
  BY RowCatchesUp, RowKeepsOutcome DEF DisputeFollowsStripe
<1> QED BY <1>1, DisputeInvariant, PTL

-----------------------------------------------------------------------------
(* PlanBilling.                                                             *)

\* A subscription at Stripe was bought in a checkout that had its customer.
TabsMatch == \A s \in Subs :
    /\ tab[s].at \in {"open", "used"} => tab[s].customer # NoSub
    /\ stripeSub[s].raw = "none" <=> stripeSub[s].ver = 0
    /\ stripeSub[s].raw # "none" => tab[s].at = "used"

PlanTyped == PlanTypeOK /\ TabsMatch

\* What a change of a subscription at Stripe does to it and to the events.
LEMMA ChangeTyped ==
    ASSUME PlanTyped, NEW s \in Subs, NEW raw \in RawStatuses, NEW end \in Periods,
           NEW invoices \in SUBSET InvoiceEvent, Change(s, raw, end, invoices)
    PROVE  /\ stripeSub' \in [Subs -> [raw: RawStatuses, end: Periods, ver: 0..MaxVersion]]
           /\ stripeSub'[s].raw = raw /\ stripeSub'[s].ver = stripeSub[s].ver + 1
           /\ stripeSub'[s].end = end
           /\ \A t \in Subs \ {s} : stripeSub'[t] = stripeSub[t]
           /\ emitted' \subseteq SubEvent \cup InvoiceEvent
           /\ handled' \subseteq emitted'
           /\ UNCHANGED <<plan, source, compEnd, subStatus, subEnd, customer, handled, admin, clock>>
<1> USE PlanAssumption DEF PlanTyped, PlanTypeOK
<1> DEFINE v == stripeSub[s].ver + 1
<1>1. v \in 1..MaxVersion
  BY DEF Change
<1>2. [kind |-> "subscription", sub |-> s, ver |-> v, raw |-> raw, end |-> end] \in SubEvent
  BY <1>1 DEF SubEvent
<1>3. [raw |-> raw, end |-> end, ver |-> v]
        \in [raw: RawStatuses, end: Periods, ver: 0..MaxVersion]
  BY <1>1
<1>4. /\ stripeSub' = [stripeSub EXCEPT ![s] = [raw |-> raw, end |-> end, ver |-> v]]
      /\ emitted' = emitted \cup invoices \cup
           {[kind |-> "subscription", sub |-> s, ver |-> v, raw |-> raw, end |-> end]}
      /\ UNCHANGED <<plan, source, compEnd, subStatus, subEnd, customer, handled, admin, clock>>
  BY DEF Change, storeVars
<1> HIDE DEF v
<1>5. emitted' \subseteq SubEvent \cup InvoiceEvent /\ handled' \subseteq emitted'
  BY <1>2, <1>4
<1>6. stripeSub'[s] = [raw |-> raw, end |-> end, ver |-> v]
  BY <1>4
<1> QED
  BY <1>3, <1>4, <1>5, <1>6 DEF v

\* Every move of a running subscription is a change of it that Stripe announces.
LEMMA MovesAreChanges ==
    ASSUME PlanTyped, NEW s \in Subs, SubscriptionMoves(s)
    PROVE  /\ UNCHANGED <<tab, upsets>>
           /\ stripeSub[s].raw \in {"incomplete", "active", "past_due"}
           /\ \E raw \in {"active", "past_due", "canceled"}, end \in Periods,
                 invoices \in SUBSET InvoiceEvent : Change(s, raw, end, invoices)
<1> DEFINE failed == [kind |-> "invoice_failed", customer |-> tab[s].customer,
                      ver |-> stripeSub[s].ver + 1]
<1>1. clock + 1 \in Periods /\ stripeSub[s].end \in Periods
  BY PlanAssumption DEF PlanTyped, PlanTypeOK, Periods
<1>2. ASSUME stripeSub[s].raw = "active", stripeSub[s].ver + 1 <= MaxVersion
      PROVE  {failed} \in SUBSET InvoiceEvent
  BY <1>2, PlanAssumption DEF PlanTyped, PlanTypeOK, TabsMatch, Tab, InvoiceEvent
<1> HIDE DEF failed
<1>3. /\ UNCHANGED <<tab, upsets>>
      /\ stripeSub[s].raw \in {"incomplete", "active", "past_due"}
  BY DEF SubscriptionMoves, Paying
<1>4. CASE Change(s, "active", clock + 1, {}) \/ Change(s, "canceled", stripeSub[s].end, {})
  BY <1>1, <1>3, <1>4
<1>5. CASE stripeSub[s].raw = "active" /\ Change(s, "past_due", stripeSub[s].end, {failed})
  <2>1. stripeSub[s].ver + 1 <= MaxVersion
    BY <1>5 DEF Change
  <2> QED
    BY <1>1, <1>2, <1>3, <1>5, <2>1
<1> QED
  BY <1>4, <1>5 DEF SubscriptionMoves, failed

\* The steps of the checkout, of Stripe and of the clock.
LEMMA StripeTyped ==
    ASSUME PlanTyped,
           \/ \E s \in Subs : ReadForCheckout(s) \/ OpenCheckout(s) \/ SubscriptionMoves(s)
           \/ \E s \in Subs, raw \in {"incomplete", "active"} : SubscriptionStarts(s, raw)
           \/ CommissionInvoiceFails \/ PeriodPasses
    PROVE  PlanTyped'
<1> USE PlanAssumption DEF PlanTyped, storeVars, stripeSide
<1>1. ASSUME NEW s \in Subs, ReadForCheckout(s) PROVE PlanTyped'
  <2>1. tab' \in [Subs -> Tab]
    BY <1>1 DEF ReadForCheckout, PlanTypeOK, Tab
  <2>2. PlanTypeOK'
    BY <1>1, <2>1 DEF ReadForCheckout, PlanTypeOK
  <2>3. TabsMatch'
    BY <1>1 DEF ReadForCheckout, PlanTypeOK, TabsMatch
  <2> QED
    BY <2>2, <2>3
<1>2. ASSUME NEW s \in Subs, OpenCheckout(s) PROVE PlanTyped'
  <2>1. /\ tab' \in [Subs -> Tab] /\ customer' \in Subs \cup {NoSub}
        /\ tab'[s].at = "open" /\ tab'[s].customer # NoSub /\ stripeSub[s].raw = "none"
        /\ \A t \in Subs \ {s} : tab'[t] = tab[t]
    BY <1>2 DEF OpenCheckout, PlanTypeOK, Tab, TabsMatch
  <2>2. PlanTypeOK'
    BY <1>2, <2>1 DEF OpenCheckout, PlanTypeOK
  <2>3. TabsMatch'
    BY <1>2, <2>1 DEF OpenCheckout, TabsMatch
  <2> QED
    BY <2>2, <2>3
<1>3. ASSUME NEW s \in Subs, SubscriptionMoves(s) PROVE PlanTyped'
  <2>1. PICK raw \in {"active", "past_due", "canceled"}, end \in Periods,
             invoices \in SUBSET InvoiceEvent : Change(s, raw, end, invoices)
    BY <1>3, MovesAreChanges
  <2>2. UNCHANGED <<tab, upsets>> /\ stripeSub[s].raw # "none" /\ raw \in RawStatuses
    BY <1>3, MovesAreChanges DEF RawStatuses
  <2>3. PlanTypeOK'
    BY <2>1, <2>2, ChangeTyped DEF PlanTypeOK
  <2>4. TabsMatch'
    BY <2>1, <2>2, ChangeTyped DEF PlanTypeOK, TabsMatch
  <2> QED
    BY <2>3, <2>4
<1>4. ASSUME NEW s \in Subs, NEW raw \in {"incomplete", "active"}, SubscriptionStarts(s, raw)
      PROVE  PlanTyped'
  <2>1. Change(s, raw, clock + 1, {}) /\ raw \in RawStatuses /\ clock + 1 \in Periods
    BY <1>4 DEF SubscriptionStarts, RawStatuses, Periods, PlanTypeOK
  <2>2. /\ tab' = [tab EXCEPT ![s].at = "used"] /\ tab' \in [Subs -> Tab] /\ tab[s].at = "open"
        /\ upsets' \subseteq {"reordered", "two_subs", "stale_admin", "dunned"}
    BY <1>4 DEF SubscriptionStarts, PlanTypeOK, Tab
  <2>3. PlanTypeOK'
    BY <2>1, <2>2, ChangeTyped DEF PlanTypeOK
  <2>4. /\ tab'[s].at = "used" /\ tab'[s].customer = tab[s].customer
        /\ \A t \in Subs \ {s} : tab'[t] = tab[t]
    BY <2>2 DEF PlanTypeOK, Tab
  <2>5. stripeSub[s].ver \in Nat
    BY DEF PlanTypeOK
  <2>6. TabsMatch'
    BY <2>1, <2>2, <2>4, <2>5, ChangeTyped DEF TabsMatch
  <2> QED
    BY <2>3, <2>6
<1>5. CASE CommissionInvoiceFails
  BY <1>5 DEF CommissionInvoiceFails, PlanTypeOK, TabsMatch, InvoiceEvent
<1>6. CASE PeriodPasses
  BY <1>6 DEF PeriodPasses, PlanTypeOK, TabsMatch
<1> QED
  BY <1>1, <1>2, <1>3, <1>4, <1>5, <1>6

\* The steps of the webhooks, of the sweep and of the back office.
LEMMA StoreTyped ==
    ASSUME PlanTyped,
           \/ Deliver \/ SweepComps \/ SweepLapsed
           \/ \E a \in Admins : AdminWrites(a) \/ \E to \in {"FREE", "PRO"} : AdminReads(a, to)
    PROVE  PlanTyped'
<1> USE PlanAssumption DEF PlanTyped, storeVars, stripeSide
<1>1. ASSUME NEW ev \in emitted, SyncSubscription(ev) PROVE PlanTyped'
  <2>1. ev \in SubEvent
    BY <1>1 DEF SyncSubscription, PlanTypeOK, SubEvent, InvoiceEvent
  <2>2. MapStatus(ev.raw) \in {"ACTIVE", "PAST_DUE", "CANCELED"}
    BY DEF MapStatus
  <2>3. plan' \in {"FREE", "PRO"} /\ source' \in {"null", "SUBSCRIPTION", "COMP"}
    BY <1>1 DEF SyncSubscription, PlanTypeOK
  <2>4. subEnd' \in Periods /\ customer' \in Subs \cup {NoSub}
    BY <1>1, <2>1 DEF SyncSubscription, PlanTypeOK, SubEvent, Tab
  <2>5. /\ handled' \subseteq emitted'
        /\ upsets' \subseteq {"reordered", "two_subs", "stale_admin", "dunned"}
        /\ UNCHANGED <<compEnd, tab, stripeSub, emitted, admin, clock>>
        /\ subStatus' = MapStatus(ev.raw)
    BY <1>1 DEF SyncSubscription, PlanTypeOK
  <2>6. PlanTypeOK'
    BY <2>2, <2>3, <2>4, <2>5 DEF PlanTypeOK
  <2> QED
    BY <2>5, <2>6 DEF TabsMatch
<1>2. ASSUME NEW ev \in emitted, MarkPastDue(ev) PROVE PlanTyped'
  BY <1>2 DEF MarkPastDue, PlanTypeOK, TabsMatch
<1>3. CASE SweepComps \/ SweepLapsed
  <2>1. /\ compEnd' \in Periods /\ UNCHANGED <<subEnd, customer, tab, stripeSub, emitted, handled,
                                                  admin, clock, upsets>>
        /\ plan' = "FREE" /\ source' = "null" /\ subStatus' \in {subStatus, "CANCELED"}
    BY <1>3 DEF SweepComps, SweepLapsed, PlanTypeOK, Periods
  <2> QED
    BY <2>1 DEF PlanTypeOK, TabsMatch
<1>4. ASSUME NEW a \in Admins, NEW to \in {"FREE", "PRO"}, AdminReads(a, to) PROVE PlanTyped'
  BY <1>4 DEF AdminReads, PlanTypeOK, TabsMatch, AdminRequest
<1>5. ASSUME NEW a \in Admins, AdminWrites(a) PROVE PlanTyped'
  <2>1. admin' \in [Admins -> AdminRequest] /\ admin[a].to \in {"FREE", "PRO"}
    BY <1>5 DEF AdminWrites, PlanTypeOK, AdminRequest
  <2>2. compEnd' \in Periods /\ source' \in {"null", "SUBSCRIPTION", "COMP"}
    BY <1>5 DEF AdminWrites, PlanTypeOK, Periods
  <2> QED
    BY <1>5, <2>1, <2>2 DEF AdminWrites, PlanTypeOK, TabsMatch
<1> QED
  BY <1>1, <1>2, <1>3, <1>4, <1>5 DEF Deliver

\* Type correctness of the plan, of the subscriptions and of their events.
THEOREM PlanTypeCorrect == PlanSpec => []PlanTyped
<1>1. PlanInit => PlanTyped
  <2> SUFFICES ASSUME PlanInit PROVE PlanTyped
    OBVIOUS
  <2>1. /\ tab \in [Subs -> Tab]
        /\ admin \in [Admins -> AdminRequest]
        /\ stripeSub \in [Subs -> [raw: RawStatuses, end: Periods, ver: 0..MaxVersion]]
    BY PlanAssumption DEF PlanInit, Tab, AdminRequest, RawStatuses, Periods
  <2> QED
    BY <2>1, PlanAssumption DEF PlanInit, PlanTyped, PlanTypeOK, TabsMatch, Periods
<1>2. PlanTyped /\ UNCHANGED planVars => PlanTyped'
  BY DEF PlanTyped, PlanTypeOK, TabsMatch, planVars, storeVars, stripeSide
<1>3. PlanTyped /\ [PlanNext]_planVars => PlanTyped'
  BY <1>2, StripeTyped, StoreTyped DEF PlanNext
<1> QED
  BY <1>1, <1>3, PTL DEF PlanSpec

\* The subscription events of s.
EventsOf(s) == {ev \in emitted : ev.kind = "subscription" /\ ev.sub = s}

\* s runs at Stripe, or some of its events are still under way.
Live(s) ==
    \/ stripeSub[s].raw \in {"incomplete", "active", "past_due"}
    \/ EventsOf(s) \ handled # {}

\* The event of its last change.
Latest(s) == [kind |-> "subscription", sub |-> s, ver |-> stripeSub[s].ver,
              raw |-> stripeSub[s].raw, end |-> stripeSub[s].end]

\* Every change was announced, and the last event says how the subscription is.
EventsMatch == \A s \in Subs :
    /\ stripeSub[s].raw # "none" => Latest(s) \in emitted
    /\ \A ev \in EventsOf(s) :
         ev.ver <= stripeSub[s].ver /\ (ev.ver = stripeSub[s].ver => ev = Latest(s))

\* What upsets excludes: one subscription at a time, ...
OneLive == \A s, t \in Subs : Live(s) /\ Live(t) => s = t

\* ... whose last event, once processed, decides the plan, ...
ActiveIsPro == \A s \in Subs :
    stripeSub[s].raw = "active" /\ Latest(s) \in handled
        => plan = "PRO" /\ source = "SUBSCRIPTION" /\ subStatus # "PAST_DUE"

\* ... and no plan by subscription without one.
ProIsLive == source = "SUBSCRIPTION" => \E s \in Subs : Live(s)

PlanInv == EventsMatch /\ (upsets = {} => OneLive /\ ActiveIsPro /\ ProIsLive)

\* A change of s adds its new event, and leaves the others with theirs.
LEMMA ChangeEvents ==
    ASSUME PlanTyped, EventsMatch, NEW s \in Subs, NEW raw \in RawStatuses \ {"none"},
           NEW end \in Periods, NEW invoices \in SUBSET InvoiceEvent,
           Change(s, raw, end, invoices)
    PROVE  /\ EventsMatch'
           /\ Latest(s)' \notin handled /\ Latest(s)' \in EventsOf(s)'
           /\ \A t \in Subs \ {s} : EventsOf(t)' = EventsOf(t) /\ Latest(t)' = Latest(t)
<1> DEFINE v == stripeSub[s].ver + 1
           e == [kind |-> "subscription", sub |-> s, ver |-> v, raw |-> raw, end |-> end]
<1>1. emitted' = emitted \cup invoices \cup {e}
  BY DEF Change
<1>2. /\ stripeSub'[s].raw = raw /\ stripeSub'[s].ver = v /\ stripeSub'[s].end = end
      /\ \A t \in Subs \ {s} : stripeSub'[t] = stripeSub[t]
      /\ UNCHANGED handled
  BY ChangeTyped
<1>3. Latest(s)' = e /\ \A t \in Subs \ {s} : Latest(t)' = Latest(t)
  BY <1>2 DEF Latest
<1>4. \A ev \in invoices : ev.kind # "subscription"
  BY DEF InvoiceEvent
<1>5. e.kind = "subscription" /\ e.sub = s /\ e.ver = v
  OBVIOUS
<1> HIDE DEF e
<1>6. /\ EventsOf(s)' = EventsOf(s) \cup {e}
      /\ \A t \in Subs \ {s} : EventsOf(t)' = EventsOf(t)
  BY <1>1, <1>4, <1>5 DEF EventsOf
<1>7. stripeSub[s].ver \in Nat /\ handled \subseteq emitted
  BY DEF PlanTyped, PlanTypeOK
<1>8. \A ev \in EventsOf(s) : ev.ver <= stripeSub[s].ver
  BY DEF EventsMatch
<1>9. \A ev \in EventsOf(s) : ev.ver \in Nat
  BY DEF EventsOf, PlanTyped, PlanTypeOK, SubEvent, InvoiceEvent
<1>10. e \notin EventsOf(s)
  BY <1>5, <1>7, <1>8
<1>11. e \notin handled
  BY <1>5, <1>7, <1>10 DEF EventsOf
<1>12. \A ev \in EventsOf(s)' : ev.ver <= v /\ (ev.ver = v => ev = e)
  BY <1>5, <1>6, <1>7, <1>8, <1>9
<1>13. EventsMatch'
  <2> SUFFICES ASSUME NEW t \in Subs
               PROVE  /\ stripeSub'[t].raw # "none" => Latest(t)' \in emitted'
                      /\ \A ev \in EventsOf(t)' : /\ ev.ver <= stripeSub'[t].ver
                                                  /\ ev.ver = stripeSub'[t].ver => ev = Latest(t)'
    BY DEF EventsMatch
  <2>1. CASE t = s
    BY <1>1, <1>2, <1>3, <1>12, <2>1
  <2>2. CASE t # s
    BY <1>1, <1>2, <1>3, <1>6, <2>2 DEF EventsMatch
  <2> QED
    BY <2>1, <2>2
<1> QED
  BY <1>3, <1>6, <1>11, <1>13

\* A step that changes neither the subscriptions nor the events keeps all that is
\* said of them.
LEMMA SameEvents ==
    ASSUME UNCHANGED stripeSide
    PROVE  /\ EventsMatch => EventsMatch'
           /\ \A s \in Subs : Latest(s)' = Latest(s) /\ EventsOf(s)' = EventsOf(s)
           /\ UNCHANGED handled => \A s \in Subs : Live(s)' = Live(s)
<1> USE DEF stripeSide
<1>1. \A s \in Subs : Latest(s)' = Latest(s) /\ EventsOf(s)' = EventsOf(s)
  BY DEF Latest, EventsOf
<1>2. ASSUME UNCHANGED handled, NEW s \in Subs PROVE Live(s)' = Live(s)
  BY <1>1, <1>2 DEF Live
<1>3. EventsMatch => EventsMatch'
  BY <1>1 DEF EventsMatch
<1> QED
  BY <1>1, <1>2, <1>3

\* A subscription that changes was the live one, or becomes it where none is.
LEMMA ChangeKeepsPlan ==
    ASSUME PlanTyped, PlanInv, NEW s \in Subs, NEW raw \in RawStatuses \ {"none"},
           NEW end \in Periods, NEW invoices \in SUBSET InvoiceEvent,
           Change(s, raw, end, invoices),
           upsets' = {} => upsets = {} /\ \A t \in Subs \ {s} : ~ Live(t)
    PROVE  PlanInv'
<1>1. /\ EventsMatch'
      /\ Latest(s)' \notin handled /\ Latest(s)' \in EventsOf(s)'
      /\ \A t \in Subs \ {s} : EventsOf(t)' = EventsOf(t) /\ Latest(t)' = Latest(t)
  BY ChangeEvents DEF PlanInv
<1>2. /\ \A t \in Subs \ {s} : stripeSub'[t] = stripeSub[t]
      /\ UNCHANGED <<plan, source, subStatus, handled>>
  BY ChangeTyped
<1> SUFFICES ASSUME upsets' = {} PROVE OneLive' /\ ActiveIsPro' /\ ProIsLive'
  BY <1>1 DEF PlanInv
<1>3. upsets = {} /\ \A t \in Subs \ {s} : ~ Live(t)
  OBVIOUS
<1>4. \A t \in Subs \ {s} : ~ Live(t)'
  BY <1>1, <1>2, <1>3 DEF Live
<1>5. Live(s)'
  BY <1>1, <1>2 DEF Live
<1>6. OneLive' /\ ProIsLive'
  BY <1>4, <1>5 DEF OneLive, ProIsLive
<1>7. ActiveIsPro'
  BY <1>1, <1>2, <1>3 DEF ActiveIsPro, PlanInv
<1> QED
  BY <1>6, <1>7

\* A delivered subscription event: out of order, or the latest of its subscription.
LEMMA SyncKeepsInv ==
    ASSUME PlanTyped, PlanInv, NEW ev \in emitted, SyncSubscription(ev)
    PROVE  PlanInv'
<1>1. /\ ev \notin handled /\ ev.kind = "subscription" /\ handled' = handled \cup {ev}
      /\ UNCHANGED stripeSide /\ subStatus' = MapStatus(ev.raw)
      /\ upsets' = {} => upsets = {} /\ Newer(ev) = {}
  BY DEF SyncSubscription
<1>2. ev \in SubEvent /\ ev.sub \in Subs
  BY <1>1 DEF PlanTyped, PlanTypeOK, SubEvent, InvoiceEvent
<1> DEFINE s == ev.sub
<1>3. /\ EventsMatch'
      /\ \A t \in Subs : Latest(t)' = Latest(t) /\ EventsOf(t)' = EventsOf(t)
  BY <1>1, SameEvents DEF PlanInv
<1> SUFFICES ASSUME upsets' = {} PROVE OneLive' /\ ActiveIsPro' /\ ProIsLive'
  BY <1>3 DEF PlanInv
<1>4. OneLive /\ ActiveIsPro /\ ProIsLive /\ EventsMatch
  BY <1>1 DEF PlanInv
<1>5. ev \in EventsOf(s) /\ Live(s)
  BY <1>1 DEF EventsOf, Live
<1>6. stripeSub' = stripeSub /\ emitted' = emitted
  BY <1>1 DEF stripeSide
<1>7. \A t \in Subs : Live(t)' => Live(t)
  BY <1>1, <1>3, <1>6 DEF Live
<1>8. OneLive'
  BY <1>4, <1>7 DEF OneLive
<1>9. \A t \in Subs \ {s} : ~ Live(t)
  BY <1>2, <1>4, <1>5 DEF OneLive
\* No newer event of s was processed.
<1>10. ev # Latest(s) => Latest(s) \notin handled
  <2> SUFFICES ASSUME ev # Latest(s), Latest(s) \in handled PROVE FALSE
    OBVIOUS
  <2>1. ev.ver < stripeSub[s].ver
    <3>1. ev.ver <= stripeSub[s].ver /\ ev.ver # stripeSub[s].ver
      BY <1>2, <1>4, <1>5 DEF EventsMatch
    <3>2. ev.ver \in Nat /\ stripeSub[s].ver \in Nat
      BY <1>2, PlanAssumption DEF SubEvent, PlanTyped, PlanTypeOK
    <3> QED
      BY <3>1, <3>2
  <2>2. Latest(s).kind = "subscription" /\ Latest(s).sub = s /\ Latest(s).ver > ev.ver
    BY <2>1, <1>2, PlanAssumption DEF Latest, SubEvent, PlanTyped, PlanTypeOK
  <2>3. Latest(s) \in Newer(ev)
    BY <2>2 DEF Newer
  <2> QED
    BY <1>1, <2>3
<1>11. ActiveIsPro'
  <2> SUFFICES ASSUME NEW t \in Subs, stripeSub[t].raw = "active", Latest(t) \in handled'
               PROVE  plan' = "PRO" /\ source' = "SUBSCRIPTION" /\ subStatus' # "PAST_DUE"
    BY <1>3, <1>6 DEF ActiveIsPro
  <2>1. t = s
    BY <1>9 DEF Live
  <2>2. ev = Latest(s)
    BY <1>1, <1>10, <2>1
  <2>3. ev.raw = "active"
    BY <2>1, <2>2 DEF Latest
  <2> QED
    BY <1>1, <2>3 DEF SyncSubscription, MapStatus
<1>12. ProIsLive'
  <2> SUFFICES ASSUME source' = "SUBSCRIPTION" PROVE Live(s)'
    BY <1>2 DEF ProIsLive
  <2>1. CASE ev = Latest(s)
    <3>1. ev.raw = stripeSub[s].raw
      BY <2>1 DEF Latest
    <3>2. ev.raw # "canceled"
      BY DEF SyncSubscription
    <3>3. stripeSub[s].raw # "none"
      <4>1. ev.ver # 0 /\ ev.ver = stripeSub[s].ver
        BY <1>2, <2>1 DEF SubEvent, Latest
      <4> QED
        BY <1>2, <4>1 DEF PlanTyped, TabsMatch
    <3>4. stripeSub[s].raw \in RawStatuses
      BY <1>2 DEF PlanTyped, PlanTypeOK
    <3> QED
      BY <1>6, <3>1, <3>2, <3>3, <3>4 DEF Live, RawStatuses
  <2>2. CASE ev # Latest(s)
    <3>1. stripeSub[s].raw # "none"
      <4>1. ev.ver <= stripeSub[s].ver /\ ev.ver \in Nat \ {0} /\ stripeSub[s].ver \in Nat
        BY <1>2, <1>4, <1>5, PlanAssumption DEF EventsMatch, SubEvent, PlanTyped, PlanTypeOK
      <4> QED
        BY <1>2, <4>1 DEF PlanTyped, TabsMatch
    <3>2. Latest(s) \in emitted /\ Latest(s) \notin handled'
      BY <1>1, <1>2, <1>4, <1>10, <2>2, <3>1 DEF EventsMatch
    <3>3. Latest(s) \in EventsOf(s)
      BY <3>2 DEF EventsOf, Latest
    <3> QED
      BY <1>2, <1>3, <3>2, <3>3 DEF Live
  <2> QED
    BY <2>1, <2>2
<1> QED
  BY <1>8, <1>11, <1>12

\* The steps that leave Stripe's side alone, other than a subscription event.
LEMMA StoreKeepsInv ==
    ASSUME PlanTyped, PlanInv, UNCHANGED stripeSide,
           \/ UNCHANGED <<plan, source, subStatus, handled, upsets>>
           \/ \E ev \in emitted : MarkPastDue(ev)
           \/ SweepComps \/ SweepLapsed
           \/ \E a \in Admins : AdminWrites(a)
    PROVE  PlanInv'
<1>1. EventsMatch' /\ \A s \in Subs : Latest(s)' = Latest(s) /\ EventsOf(s)' = EventsOf(s)
  BY SameEvents DEF PlanInv
<1> SUFFICES ASSUME upsets' = {} PROVE OneLive' /\ ActiveIsPro' /\ ProIsLive'
  BY <1>1 DEF PlanInv
<1>2. upsets = {}
  BY DEF MarkPastDue, SweepComps, SweepLapsed, AdminWrites
<1>3. OneLive /\ ActiveIsPro /\ ProIsLive
  BY <1>2 DEF PlanInv
<1>4. stripeSub' = stripeSub /\ emitted' = emitted
  BY DEF stripeSide
<1>5. \A s \in Subs : Latest(s) \in handled' <=> Latest(s) \in handled
  BY DEF MarkPastDue, SweepComps, SweepLapsed, AdminWrites, Latest
<1>6. \A s \in Subs : Live(s)' = Live(s)
  <2>1. \A s \in Subs : \A ev \in EventsOf(s) : ev \in handled' <=> ev \in handled
    BY DEF MarkPastDue, SweepComps, SweepLapsed, AdminWrites, EventsOf
  <2> QED
    BY <1>1, <1>4, <2>1 DEF Live
<1>7. OneLive'
  BY <1>3, <1>6 DEF OneLive
<1>8. source' = "SUBSCRIPTION" => source = "SUBSCRIPTION"
  BY DEF MarkPastDue, SweepComps, SweepLapsed, AdminWrites
<1>9. ProIsLive'
  BY <1>3, <1>6, <1>8 DEF ProIsLive
<1>10. ActiveIsPro'
  <2> SUFFICES ASSUME NEW s \in Subs, stripeSub[s].raw = "active", Latest(s) \in handled
               PROVE  plan' = "PRO" /\ source' = "SUBSCRIPTION" /\ subStatus' # "PAST_DUE"
    BY <1>1, <1>4, <1>5 DEF ActiveIsPro
  <2>1. plan = "PRO" /\ source = "SUBSCRIPTION" /\ subStatus # "PAST_DUE"
    BY <1>3 DEF ActiveIsPro
  <2> QED
    BY <2>1 DEF MarkPastDue, SweepComps, SweepLapsed, AdminWrites
<1> QED
  BY <1>7, <1>9, <1>10

\* The steps of Stripe.
LEMMA StripeKeepsInv ==
    ASSUME PlanTyped, PlanInv,
           \/ \E s \in Subs : SubscriptionMoves(s)
           \/ \E s \in Subs, raw \in {"incomplete", "active"} : SubscriptionStarts(s, raw)
           \/ CommissionInvoiceFails
    PROVE  PlanInv'
<1>1. ASSUME NEW s \in Subs, SubscriptionMoves(s) PROVE PlanInv'
  <2>1. PICK raw \in {"active", "past_due", "canceled"}, end \in Periods,
             invoices \in SUBSET InvoiceEvent : Change(s, raw, end, invoices)
    BY <1>1, MovesAreChanges
  <2>2. UNCHANGED upsets /\ Live(s) /\ raw \in RawStatuses \ {"none"}
    BY <1>1, MovesAreChanges DEF Live, RawStatuses
  <2>3. upsets' = {} => upsets = {} /\ \A t \in Subs \ {s} : ~ Live(t)
    BY <2>2 DEF PlanInv, OneLive
  <2> QED
    BY <2>1, <2>2, <2>3, ChangeKeepsPlan
<1>2. ASSUME NEW s \in Subs, NEW raw \in {"incomplete", "active"}, SubscriptionStarts(s, raw)
      PROVE  PlanInv'
  <2>1. /\ Change(s, raw, clock + 1, {}) /\ raw \in RawStatuses \ {"none"}
        /\ clock + 1 \in Periods /\ {} \in SUBSET InvoiceEvent
    BY <1>2, PlanAssumption
       DEF SubscriptionStarts, RawStatuses, Periods, PlanTyped, PlanTypeOK
  <2>2. Overlapping(s) => upsets' # {}
    BY <1>2 DEF SubscriptionStarts
  <2>3. \A t \in Subs \ {s} : Live(t) => Overlapping(s)
    BY DEF Live, Overlapping, EventsOf
  <2>4. upsets' = {} => upsets = {} /\ \A t \in Subs \ {s} : ~ Live(t)
    BY <1>2, <2>2, <2>3 DEF SubscriptionStarts
  <2> QED
    BY <2>1, <2>4, ChangeKeepsPlan
<1>3. CASE CommissionInvoiceFails
  <2>1. /\ \A ev \in emitted' \ emitted : ev.kind # "subscription"
        /\ emitted \subseteq emitted'
        /\ UNCHANGED <<plan, source, subStatus, stripeSub, handled, upsets>>
    BY <1>3 DEF CommissionInvoiceFails, storeVars
  <2>2. \A s \in Subs : EventsOf(s)' = EventsOf(s) /\ Latest(s)' = Latest(s)
    BY <2>1 DEF EventsOf, Latest
  <2>3. \A s \in Subs : Live(s)' = Live(s)
    BY <2>1, <2>2 DEF Live
  <2>4. EventsMatch'
    BY <2>1, <2>2 DEF PlanInv, EventsMatch
  <2>5. upsets = {} => OneLive' /\ ActiveIsPro' /\ ProIsLive'
    BY <2>1, <2>2, <2>3 DEF PlanInv, OneLive, ActiveIsPro, ProIsLive
  <2> QED
    BY <2>1, <2>4, <2>5 DEF PlanInv
<1> QED
  BY <1>1, <1>2, <1>3

\* Every step keeps the inductive invariant.
LEMMA PlanStep == PlanTyped /\ PlanInv /\ [PlanNext]_planVars => PlanInv'
<1> SUFFICES ASSUME PlanTyped, PlanInv, [PlanNext]_planVars PROVE PlanInv'
  OBVIOUS
<1>1. ASSUME UNCHANGED <<storeVars, stripeSide, handled, upsets>> PROVE PlanInv'
  BY <1>1, StoreKeepsInv DEF storeVars
<1>2. ASSUME NEW s \in Subs, ReadForCheckout(s) \/ OpenCheckout(s) PROVE PlanInv'
  <2>1. UNCHANGED stripeSide /\ UNCHANGED <<plan, source, subStatus, handled, upsets>>
    BY <1>2 DEF ReadForCheckout, OpenCheckout, storeVars
  <2> QED
    BY <2>1, StoreKeepsInv
<1>3. ASSUME NEW a \in Admins, NEW to \in {"FREE", "PRO"}, AdminReads(a, to) PROVE PlanInv'
  BY <1>1, <1>3 DEF AdminReads
<1>4. CASE PeriodPasses
  BY <1>1, <1>4 DEF PeriodPasses
<1>5. CASE UNCHANGED planVars
  BY <1>1, <1>5 DEF planVars
<1>6. CASE Deliver
  <2>1. ASSUME NEW ev \in emitted, MarkPastDue(ev) PROVE PlanInv'
    <3>1. UNCHANGED stripeSide
      BY <2>1 DEF MarkPastDue
    <3> QED
      BY <2>1, <3>1, StoreKeepsInv
  <2> QED
    BY <1>6, <2>1, SyncKeepsInv DEF Deliver
<1>7. CASE SweepComps \/ SweepLapsed
  <2>1. UNCHANGED stripeSide
    BY <1>7 DEF SweepComps, SweepLapsed
  <2> QED
    BY <1>7, <2>1, StoreKeepsInv
<1>8. ASSUME NEW a \in Admins, AdminWrites(a) PROVE PlanInv'
  <2>1. UNCHANGED stripeSide
    BY <1>8 DEF AdminWrites
  <2> QED
    BY <1>8, <2>1, StoreKeepsInv
<1> QED
  BY <1>2, <1>3, <1>4, <1>5, <1>6, <1>7, <1>8, StripeKeepsInv DEF PlanNext

\* Once every event is processed and nothing upset the order, the plan agrees with
\* the subscriptions at Stripe (syncSubscriptionFromStripe, markSubscriptionPastDue,
\* sweepExpiredPlans, the back-office comp).
THEOREM PlanFollowsStripeAlways == PlanSpec => []PlanFollowsStripe
<1>1. PlanInit => PlanInv
  BY DEF PlanInit, PlanInv, EventsMatch, EventsOf, OneLive, Live, ActiveIsPro, ProIsLive
<1>2. PlanTyped /\ PlanInv => PlanFollowsStripe
  <2> SUFFICES ASSUME PlanTyped, PlanInv, Settled, upsets = {}
               PROVE  /\ (\E s \in Subs : stripeSub[s].raw = "active")
                            => plan = "PRO" /\ source = "SUBSCRIPTION"
                      /\ (\A s \in Subs : stripeSub[s].raw \in {"none", "canceled"})
                            => source # "SUBSCRIPTION"
    BY DEF PlanFollowsStripe
  <2>1. \A s \in Subs : stripeSub[s].raw # "none" => Latest(s) \in handled
    BY DEF PlanInv, EventsMatch, Settled
  <2>2. \A s \in Subs : EventsOf(s) \ handled = {}
    BY DEF Settled, EventsOf
  <2>3. ActiveIsPro /\ ProIsLive
    BY DEF PlanInv
  <2>4. \A s \in Subs : stripeSub[s].raw = "active" => plan = "PRO" /\ source = "SUBSCRIPTION"
    BY <2>1, <2>3 DEF ActiveIsPro
  <2>5. source = "SUBSCRIPTION"
          => \E s \in Subs : stripeSub[s].raw \in {"incomplete", "active", "past_due"}
    BY <2>2, <2>3 DEF ProIsLive, Live
  <2> QED
    BY <2>4, <2>5
<1> QED
  BY <1>1, <1>2, PlanStep, PlanTypeCorrect, PTL DEF PlanSpec
=============================================================================
