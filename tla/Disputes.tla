-------------------------------- MODULE Disputes --------------------------------
(***************************************************************************)
(* One dispute at Stripe and the Dispute row and financial events that     *)
(* follow it.  Stripe delivers each event late, in any order, until it is  *)
(* processed once, in a Serializable transaction with its WebhookLog row.  *)
(***************************************************************************)
EXTENDS Naturals, FiniteSets

CONSTANTS
    MaxEvents,      \* bound: events Stripe sends about the dispute
    NoRow

VARIABLES
    matched,    \* the order's stripePaymentIntentId is stored
    stage,      \* the status at Stripe
    escalated,  \* history: an inquiry under review became a formal dispute
    sentOut,    \* events Stripe has sent
    logged,     \* events whose WebhookLog row is processed
    skipped,    \* those of them that matched no order
    dispute,    \* Dispute.status
    trail       \* FinancialEvent rows: <<type, status part of sourceId>>

stripeDispute == <<stage, escalated, sentOut>>
disputeVars == <<matched, stripeDispute, logged, skipped, dispute, trail>>

Final == {"won", "lost", "warning_closed", "prevented"}

\* What Stripe does with a dispute; an inquiry may become a formal dispute.
NextStages ==
    [s \in {"none", "warning_needs_response", "warning_under_review",
            "needs_response", "under_review"} \cup Final |->
        CASE s = "none" -> {"warning_needs_response", "needs_response"}
          [] s = "warning_needs_response" -> {"warning_under_review", "warning_closed", "needs_response"}
          [] s = "warning_under_review" -> {"warning_closed", "needs_response"}
          [] s = "needs_response" -> {"under_review", "lost", "prevented"}
          [] s = "under_review" -> {"won", "lost"}
          [] OTHER -> {}]

MapDisputeStatus(s) ==
    CASE s \in {"needs_response", "warning_needs_response"} -> "NEEDS_RESPONSE"
      [] s \in {"won", "prevented"} -> "WON"
      [] s = "lost" -> "LOST"
      [] s = "warning_closed" -> "WARNING_CLOSED"
      [] OTHER -> "UNDER_REVIEW"

DisputeStatuses == {"NEEDS_RESPONSE", "UNDER_REVIEW", "WON", "LOST", "WARNING_CLOSED"}

ASSUME DisputeAssumption ==
    /\ MaxEvents \in Nat \ {0}
    /\ NoRow \notin DisputeStatuses

StatusRank(s) == CASE s = "NEEDS_RESPONSE" -> 0 [] s = "UNDER_REVIEW" -> 1 [] OTHER -> 2

DisputeEvent == [type: {"OPENED", "UPDATED", "CLOSED"}, status: DOMAIN NextStages,
                 seq: 1..MaxEvents]

DisputeTypeOK ==
    /\ matched \in BOOLEAN
    /\ stage \in DOMAIN NextStages
    /\ escalated \in BOOLEAN
    /\ sentOut \subseteq DisputeEvent
    /\ skipped \subseteq logged /\ logged \subseteq sentOut
    /\ dispute \in DisputeStatuses \cup {NoRow}
    /\ trail \subseteq {"OPENED", "UPDATED", "CLOSED"} \X (DisputeStatuses \cup {NoRow})

DisputeInit ==
    /\ matched = FALSE
    /\ stage = "none" /\ escalated = FALSE
    /\ sentOut = {} /\ logged = {} /\ skipped = {}
    /\ dispute = NoRow
    /\ trail = {}

-----------------------------------------------------------------------------
\* Stripe: every change of the dispute is one event, the last one `closed`.
StripeMoves(s) ==
    LET n == Cardinality(sentOut) + 1 IN
    /\ s \in NextStages[stage] \/ (s = stage /\ s \notin Final \cup {"none"})
    /\ n \in 1..MaxEvents
    /\ stage' = s
    /\ escalated' = (escalated \/ (stage = "warning_under_review" /\ s = "needs_response"))
    /\ sentOut' = sentOut \cup
         {[type |-> IF stage = "none" THEN "OPENED" ELSE IF s \in Final THEN "CLOSED" ELSE "UPDATED",
           status |-> s, seq |-> n]}
    /\ UNCHANGED <<matched, logged, skipped, dispute, trail>>

\* The order's payment event is processed: its PaymentIntent is known from now on.
OrderMatches ==
    /\ ~matched /\ matched' = TRUE
    /\ UNCHANGED <<stripeDispute, logged, skipped, dispute, trail>>

\* Mutant of Upserted: the last event processed wins.
LastEventWins(s) == s

\* upsertDisputeRow: the status never goes back.
Upserted(s) ==
    IF dispute = NoRow \/ StatusRank(s) >= StatusRank(dispute) THEN s ELSE dispute

\* writeFinancialEventOnce; DISPUTE_UPDATED folds the persisted status into its key.
TrailEntry(e, status) == <<e.type, IF e.type = "UPDATED" THEN status ELSE NoRow>>

\* onDispute
DeliverDispute(e) ==
    LET status == Upserted(MapDisputeStatus(e.status)) IN
    /\ e \in sentOut \ logged
    /\ logged' = logged \cup {e}
    /\ IF matched
       THEN /\ dispute' = status
            /\ trail' = trail \cup {TrailEntry(e, status)}
            /\ UNCHANGED skipped
       ELSE /\ skipped' = skipped \cup {e}
            /\ UNCHANGED <<dispute, trail>>
    /\ UNCHANGED <<matched, stripeDispute>>

-----------------------------------------------------------------------------
DisputeNext ==
    \/ \E s \in DOMAIN NextStages : StripeMoves(s)
    \/ OrderMatches
    \/ \E e \in sentOut : DeliverDispute(e)

DisputeSpec == DisputeInit /\ [][DisputeNext]_disputeVars

-----------------------------------------------------------------------------
\* Once all events are processed the row shows the status at Stripe: unless one was
\* processed before the order could be matched, or an inquiry under review
\* escalated, which the rank holds for a step back.
CaughtUp ==
    logged = sentOut /\ skipped = {} /\ ~escalated /\ stage # "none"
        => dispute = MapDisputeStatus(stage)

\* No late event takes a decided dispute back or to another outcome, and the trail
\* has DISPUTE_CLOSED only once the row is decided.
OutcomeIsKept ==
    /\ \A e \in logged \ skipped : e.status \in Final => dispute = MapDisputeStatus(e.status)
    /\ <<"CLOSED", NoRow>> \in trail => StatusRank(dispute) = 2

\* In whatever order Stripe's events are processed, the row ends at Stripe's status,
\* and from the event that decided the dispute on it stays decided that way.
DisputeFollowsStripe == CaughtUp /\ OutcomeIsKept
=============================================================================
