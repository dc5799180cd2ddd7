----------------------------- MODULE CircuitBreaker -----------------------------
(***************************************************************************)
(* The breaker around the Stripe charge of checkout, shared by every       *)
(* instance through four Redis keys.  One action is one Redis command or   *)
(* the end of the guarded call; a request can be killed between any two,   *)
(* and a command that throws inside recordFailure ends it alike.           *)
(* What the safe... helpers make of a throw is part of their actions; the  *)
(* in-process breaker used when :open cannot be read is left out.          *)
(***************************************************************************)
EXTENDS Naturals, FiniteSets

CONSTANTS
    Calls,          \* requests inside breaker.execute at once
    Trip,           \* failureThreshold
    NoCall,
    MaxDeaths       \* bound: deaths

ASSUME BreakerAssumption ==
    /\ NoCall \notin Calls
    /\ Trip \in Nat /\ Trip > 1
    /\ MaxDeaths \in Nat

VARIABLES
    open,       \* the key :open is present
    armed,      \* :armed, "short" when :open was written again after it
    fails,      \* :fails, capped at Trip
    timed,      \* :fails has a TTL
    probe,      \* :probe, and who took it
    call,       \* how far each request is
    deaths,     \* requests killed or cut short by an error of Redis
    torn,       \* history: where those requests were
    lapsed,     \* history: a probe ran without its lock
    cleared     \* history: a probe's success removed the :armed of a new opening

breakerVars == <<open, armed, fails, timed, probe, call, deaths, lapsed, cleared, torn>>

CallStates == {"off", "checked", "halfOpen", "closed", "probing", "count", "expire",
               "trip", "tripArm", "reopen", "reopenArm", "unlock"}

BreakerTypeOK ==
    /\ open \in BOOLEAN
    /\ armed \in {"no", "short", "full"}
    /\ fails \in 0..Trip
    /\ timed \in BOOLEAN
    /\ probe \in Calls \cup {NoCall}
    /\ call \in [Calls -> CallStates]
    /\ deaths \in 0..MaxDeaths
    /\ lapsed \in BOOLEAN /\ cleared \in BOOLEAN
    /\ torn \subseteq CallStates

BreakerInit ==
    /\ open = FALSE /\ armed = "no" /\ fails = 0 /\ timed = FALSE /\ probe = NoCall
    /\ call = [c \in Calls |-> "off"]
    /\ deaths = 0 /\ lapsed = FALSE /\ cleared = FALSE /\ torn = {}

Moves(c, to) == call' = [call EXCEPT ![c] = to]

-----------------------------------------------------------------------------
(* run                                                                       *)

ReadOpen(c) ==
    /\ call[c] = "off" /\ ~open
    /\ Moves(c, "checked")
    /\ UNCHANGED <<open, armed, fails, timed, probe, deaths, lapsed, cleared, torn>>

\* safeGet: a read that throws counts as absent.
ReadArmed(c) ==
    /\ call[c] = "checked"
    /\ \/ Moves(c, "closed")
       \/ armed # "no" /\ Moves(c, "halfOpen")
    /\ UNCHANGED <<open, armed, fails, timed, probe, deaths, lapsed, cleared, torn>>

\* Mutant of TakeProbe: the lock is written without NX.
TakeProbeAnyway(c) ==
    /\ call[c] = "halfOpen"
    /\ probe' = c
    /\ Moves(c, "probing")
    /\ UNCHANGED <<open, armed, fails, timed, deaths, lapsed, cleared, torn>>

\* SET NX: who does not get the lock is refused; when it throws the call probes
\* without one.
TakeProbe(c) ==
    /\ call[c] = "halfOpen"
    /\ \/ /\ probe = NoCall
          /\ probe' = c
          /\ Moves(c, "probing")
          /\ UNCHANGED lapsed
       \/ /\ probe # NoCall
          /\ Moves(c, "off")
          /\ UNCHANGED <<probe, lapsed>>
       \/ /\ lapsed' = TRUE
          /\ Moves(c, "probing")
          /\ UNCHANGED probe
    /\ UNCHANGED <<open, armed, fails, timed, deaths, cleared, torn>>

\* DEL :fails :armed :probe; safeDel ignores an error.
ProbeSucceeds(c) ==
    /\ call[c] = "probing"
    /\ \/ armed' = "no" /\ fails' = 0 /\ timed' = FALSE /\ probe' = NoCall
       \/ UNCHANGED <<armed, fails, timed, probe>>
    /\ cleared' = (open \/ \E d \in Calls : call[d] \in {"tripArm", "reopenArm"} \/ cleared)
    /\ Moves(c, "off")
    /\ UNCHANGED <<open, deaths, lapsed, torn>>

ProbeFails(c) ==
    /\ call[c] = "probing"
    /\ Moves(c, "reopen")
    /\ UNCHANGED <<open, armed, fails, timed, probe, deaths, lapsed, cleared, torn>>

CallEnds(c) ==
    /\ call[c] = "closed"
    /\ \E outcome \in {"off", "count"} : Moves(c, outcome)
    /\ UNCHANGED <<open, armed, fails, timed, probe, deaths, lapsed, cleared, torn>>

(* recordFailure                                                             *)

\* INCR; the first failure of a window also sets its TTL.
CountFailure(c) ==
    LET n == IF fails < Trip THEN fails + 1 ELSE Trip IN
    /\ call[c] = "count"
    /\ fails' = n
    /\ Moves(c, IF fails = 0 THEN "expire" ELSE IF n >= Trip THEN "trip" ELSE "off")
    /\ UNCHANGED <<open, armed, timed, probe, deaths, lapsed, cleared, torn>>

\* PEXPIRE does nothing when the key is gone.
SetCountTtl(c) ==
    /\ call[c] = "expire"
    /\ timed' = (fails > 0)
    /\ Moves(c, "off")
    /\ UNCHANGED <<open, armed, fails, probe, deaths, lapsed, cleared, torn>>

(* open, and the DEL :probe of a failed probe, whoever holds it by then      *)

\* Mutant of SetOpen: a failed probe does not write :armed again.
SetOpenOnly(c) ==
    /\ call[c] \in {"trip", "reopen"}
    /\ open' = TRUE
    /\ armed' = IF armed = "no" THEN "no" ELSE "short"
    /\ Moves(c, IF call[c] = "trip" THEN "tripArm" ELSE "unlock")
    /\ UNCHANGED <<fails, timed, probe, deaths, lapsed, cleared, torn>>

SetOpen(c) ==
    /\ call[c] \in {"trip", "reopen"}
    /\ open' = TRUE
    /\ armed' = IF armed = "no" THEN "no" ELSE "short"
    /\ Moves(c, IF call[c] = "trip" THEN "tripArm" ELSE "reopenArm")
    /\ UNCHANGED <<fails, timed, probe, deaths, lapsed, cleared, torn>>

SetArmed(c) ==
    /\ call[c] \in {"tripArm", "reopenArm"}
    /\ armed' = "full"
    /\ cleared' = FALSE
    /\ Moves(c, IF call[c] = "tripArm" THEN "off" ELSE "unlock")
    /\ UNCHANGED <<open, fails, timed, probe, deaths, lapsed, torn>>

\* open() of a failed probe swallows an error; the lock is dropped all the same.
OpenThrows(c) ==
    /\ call[c] \in {"reopen", "reopenArm"}
    /\ deaths < MaxDeaths
    /\ deaths' = deaths + 1
    /\ torn' = torn \cup {call[c]}
    /\ Moves(c, "unlock")
    /\ UNCHANGED <<open, armed, fails, timed, probe, lapsed, cleared>>

DropProbe(c) ==
    /\ call[c] = "unlock"
    /\ probe' \in {NoCall, probe}
    /\ Moves(c, "off")
    /\ UNCHANGED <<open, armed, fails, timed, deaths, lapsed, cleared, torn>>

KillCall(c) ==
    /\ call[c] # "off"
    /\ deaths < MaxDeaths
    /\ deaths' = deaths + 1
    /\ torn' = torn \cup {call[c]}
    /\ Moves(c, "off")
    /\ UNCHANGED <<open, armed, fails, timed, probe, lapsed, cleared>>

-----------------------------------------------------------------------------
(* Redis expires keys.  :armed outlives the :open written just before it.    *)

OpenExpires ==
    /\ open
    /\ open' = FALSE
    /\ UNCHANGED <<armed, fails, timed, probe, call, deaths, lapsed, cleared, torn>>

ArmedExpires ==
    /\ armed = "short" \/ (armed = "full" /\ ~open)
    /\ armed' = "no"
    /\ UNCHANGED <<open, fails, timed, probe, call, deaths, lapsed, cleared, torn>>

CountExpires ==
    /\ timed
    /\ fails' = 0 /\ timed' = FALSE
    /\ UNCHANGED <<open, armed, probe, call, deaths, lapsed, cleared, torn>>

Probing(c) == call[c] \in {"probing", "reopen", "reopenArm", "unlock"}

ProbeExpires ==
    /\ probe # NoCall
    /\ lapsed' = (lapsed \/ Probing(probe))
    /\ probe' = NoCall
    /\ UNCHANGED <<open, armed, fails, timed, call, deaths, cleared, torn>>

-----------------------------------------------------------------------------
CallStep(c) ==
    \/ ReadOpen(c) \/ ReadArmed(c) \/ TakeProbe(c) \/ ProbeSucceeds(c) \/ ProbeFails(c)
    \/ CallEnds(c) \/ CountFailure(c) \/ SetCountTtl(c)
    \/ SetOpen(c) \/ SetArmed(c) \/ DropProbe(c)

BreakerNext ==
    \/ \E c \in Calls : CallStep(c) \/ OpenThrows(c) \/ KillCall(c)
    \/ OpenExpires \/ ArmedExpires \/ CountExpires \/ ProbeExpires

BreakerSpec == BreakerInit /\ [][BreakerNext]_breakerVars

-----------------------------------------------------------------------------
\* One call probes a half-open breaker at a time, whichever calls, late failures and
\* expiries there are, until one probes without the lock: because SET threw, or because
\* it outlived the ten seconds and its own DEL then frees its successor's lock.
OneProbe ==
    ~lapsed => Cardinality({c \in Calls : call[c] = "probing"}) <= 1

\* The failure count never lives on without a TTL, which would make failures days
\* apart trip the breaker: unless the request died between INCR and PEXPIRE, or a
\* window ended in between and the next failure waits for its own PEXPIRE.
CountIsTimed ==
    fails > 0 /\ ~timed => "expire" \in torn \/ \E c \in Calls : call[c] = "expire"

\* An open breaker that has cooled down is half-open, never closed at once: unless
\* a request died inside open(), or the success of an older probe
\* disarmed the new opening.
CoolsToHalfOpen ==
    [][open /\ ~open' => \/ armed' # "no" \/ cleared
                         \/ torn \cap {"tripArm", "reopenArm"} # {}
                         \/ \E c \in Calls : call[c] \in {"tripArm", "reopenArm"}]_breakerVars
=============================================================================
