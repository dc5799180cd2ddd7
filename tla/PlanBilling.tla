------------------------------ MODULE PlanBilling ------------------------------
(***************************************************************************)
(* The plan of one store: checkout of the Pro subscription, the            *)
(* stripe-billing webhooks, the daily downgrade sweep and the back-office  *)
(* comp.  Stripe owns the subscription; Store.plan follows its events,     *)
(* which arrive late and in any order, each processed once.                *)
(***************************************************************************)
EXTENDS Naturals

CONSTANTS
    Subs,           \* checkouts the owner can start, each one subscription
    Admins,         \* back-office requests in flight
    NoSub,          \* a null subscription or customer id
    MaxVersion,     \* bound: changes of one subscription
    MaxClock        \* bound: billing periods that pass

ASSUME PlanAssumption ==
    /\ NoSub \notin Subs
    /\ MaxVersion \in Nat \ {0}
    /\ MaxClock \in Nat

VARIABLES
    plan,       \* Store.plan
    source,     \* Store.planSource
    compEnd,    \* Store.planCompExpiresAt, as a period; 0 is null
    subStatus,  \* Store.subscriptionStatus
    subEnd,     \* Store.subscriptionCurrentPeriodEnd, as a period
    customer,   \* Store.stripeCustomerId: the checkout that created it
    tab,        \* each checkout: reading the store, open at Stripe, or used
    stripeSub,  \* each subscription at Stripe
    emitted,    \* events Stripe has sent
    handled,    \* events whose WebhookLog row is processed
    admin,      \* the back-office requests
    clock,      \* the current billing period
    upsets      \* history: why the plan may differ from Stripe's view

storeVars == <<plan, source, compEnd, subStatus, subEnd, customer>>
stripeSide == <<stripeSub, emitted>>
planVars == <<storeVars, tab, stripeSide, handled, admin, clock, upsets>>

RawStatuses == {"none", "incomplete", "active", "past_due", "canceled"}
Periods == 0..(MaxClock + 1)

\* A subscription event carries a snapshot; an invoice event only a customer.
SubEvent == [kind: {"subscription"}, sub: Subs, ver: 1..MaxVersion,
             raw: RawStatuses, end: Periods]
InvoiceEvent == [kind: {"invoice_failed"}, customer: Subs, ver: 0..MaxVersion]

Tab == [at: {"none", "read", "open", "used"}, customer: Subs \cup {NoSub}]
AdminRequest == [at: {"idle", "write", "over"}, to: {"FREE", "PRO"}]

PlanTypeOK ==
    /\ plan \in {"FREE", "PRO"}
    /\ source \in {"null", "SUBSCRIPTION", "COMP"}
    /\ compEnd \in Periods
    /\ subStatus \in {"null", "ACTIVE", "PAST_DUE", "CANCELED"}
    /\ subEnd \in Periods
    /\ customer \in Subs \cup {NoSub}
    /\ tab \in [Subs -> Tab]
    /\ stripeSub \in [Subs -> [raw: RawStatuses, end: Periods, ver: 0..MaxVersion]]
    /\ emitted \subseteq SubEvent \cup InvoiceEvent
    /\ handled \subseteq emitted
    /\ admin \in [Admins -> AdminRequest]
    /\ clock \in 0..MaxClock
    /\ upsets \subseteq {"reordered", "two_subs", "stale_admin", "dunned"}

PlanInit ==
    /\ plan = "FREE" /\ source = "null" /\ compEnd = 0
    /\ subStatus = "null" /\ subEnd = 0 /\ customer = NoSub
    /\ tab = [s \in Subs |-> [at |-> "none", customer |-> NoSub]]
    /\ stripeSub = [s \in Subs |-> [raw |-> "none", end |-> 0, ver |-> 0]]
    /\ emitted = {} /\ handled = {}
    /\ admin = [a \in Admins |-> [at |-> "idle", to |-> "FREE"]]
    /\ clock = 0
    /\ upsets = {}

-----------------------------------------------------------------------------
(* POST /api/billing/checkout.                                               *)

\* The store is read; an active subscription is refused.
ReadForCheckout(s) ==
    /\ tab[s].at = "none"
    /\ subStatus # "ACTIVE"
    /\ tab' = [tab EXCEPT ![s] = [at |-> "read", customer |-> customer]]
    /\ UNCHANGED <<storeVars, stripeSide, handled, admin, clock, upsets>>

\* getOrCreateBillingCustomer and the hosted session, which stays payable.
OpenCheckout(s) ==
    LET fresh == tab[s].customer = NoSub IN
    /\ tab[s].at = "read"
    /\ tab' = [tab EXCEPT ![s] = [at |-> "open",
                                  customer |-> IF fresh THEN s ELSE @.customer]]
    /\ customer' = IF fresh THEN s ELSE customer
    /\ UNCHANGED <<plan, source, compEnd, subStatus, subEnd, stripeSide, handled,
                   admin, clock, upsets>>

(* Stripe.                                                                   *)

Paying(s) == stripeSub[s].raw \in {"active", "past_due"}

\* Another subscription still runs, or its events are still under way.
Overlapping(s) == \E t \in Subs \ {s} :
    \/ stripeSub[t].raw \in {"incomplete", "active", "past_due"}
    \/ \E ev \in emitted \ handled : ev.kind = "subscription" /\ ev.sub = t

\* The subscription changes to `raw`; every change is announced.
Change(s, raw, end, invoices) ==
    LET v == stripeSub[s].ver + 1 IN
    /\ v <= MaxVersion
    /\ stripeSub' = [stripeSub EXCEPT ![s] = [raw |-> raw, end |-> end, ver |-> v]]
    /\ emitted' = emitted \cup invoices \cup
         {[kind |-> "subscription", sub |-> s, ver |-> v, raw |-> raw, end |-> end]}
    /\ UNCHANGED <<storeVars, handled, admin, clock>>

\* The buyer pays the session; a first payment may be left incomplete.
SubscriptionStarts(s, raw) ==
    /\ tab[s].at = "open"
    /\ tab' = [tab EXCEPT ![s].at = "used"]
    /\ upsets' = IF Overlapping(s) THEN upsets \cup {"two_subs"} ELSE upsets
    /\ Change(s, raw, clock + 1, {})

SubscriptionMoves(s) ==
    /\ \/ stripeSub[s].raw = "incomplete" /\ Change(s, "active", clock + 1, {})
       \/ stripeSub[s].raw = "incomplete" /\ Change(s, "canceled", stripeSub[s].end, {})
       \/ Paying(s) /\ Change(s, "canceled", stripeSub[s].end, {})
       \/ stripeSub[s].raw = "past_due" /\ Change(s, "active", clock + 1, {})
       \/ /\ stripeSub[s].raw = "active" /\ stripeSub[s].end <= clock
          /\ \/ Change(s, "active", clock + 1, {})
             \/ Change(s, "past_due", stripeSub[s].end,
                       {[kind |-> "invoice_failed", customer |-> tab[s].customer,
                         ver |-> stripeSub[s].ver + 1]})
    /\ UNCHANGED <<tab, upsets>>

\* A commission invoice, billed to the same customer, is not paid.
CommissionInvoiceFails ==
    /\ customer # NoSub
    /\ emitted' = emitted \cup {[kind |-> "invoice_failed", customer |-> customer, ver |-> 0]}
    /\ UNCHANGED <<storeVars, tab, stripeSub, handled, admin, clock, upsets>>

PeriodPasses ==
    /\ clock < MaxClock
    /\ clock' = clock + 1
    /\ UNCHANGED <<storeVars, tab, stripeSide, handled, admin, upsets>>

-----------------------------------------------------------------------------
(* POST /api/webhooks/stripe-billing: a Serializable transaction per event.  *)

\* Mutant of MapStatus: Stripe's status is stored as it is.
MapStatusVerbatim(raw) == raw

MapStatus(raw) ==
    CASE raw = "past_due" -> "PAST_DUE" [] raw = "canceled" -> "CANCELED" [] OTHER -> "ACTIVE"

Newer(ev) == {x \in handled : /\ x.kind = "subscription"
                              /\ x.sub = ev.sub /\ x.ver > ev.ver}

\* Mutant of SyncSubscription: a canceled subscription leaves the plan to the sweep.
SyncKeepsPlan(ev) ==
    /\ ev \in emitted \ handled /\ ev.kind = "subscription"
    /\ handled' = handled \cup {ev}
    /\ subStatus' = MapStatus(ev.raw)
    /\ subEnd' = ev.end
    /\ customer' = tab[ev.sub].customer
    /\ IF ev.raw = "active" THEN plan' = "PRO" /\ source' = "SUBSCRIPTION"
                            ELSE UNCHANGED <<plan, source>>
    /\ upsets' = IF Newer(ev) # {} THEN upsets \cup {"reordered"} ELSE upsets
    /\ UNCHANGED <<compEnd, tab, stripeSide, admin, clock>>

\* syncSubscriptionFromStripe.  metadata.storeId finds the store, whatever
\* subscription the store has now.
SyncSubscription(ev) ==
    /\ ev \in emitted \ handled /\ ev.kind = "subscription"
    /\ handled' = handled \cup {ev}
    /\ subStatus' = MapStatus(ev.raw)
    /\ subEnd' = ev.end
    /\ customer' = tab[ev.sub].customer
    /\ CASE ev.raw = "active" -> plan' = "PRO" /\ source' = "SUBSCRIPTION"
         [] ev.raw = "canceled" /\ source = "SUBSCRIPTION" -> plan' = "FREE" /\ source' = "null"
         [] OTHER -> UNCHANGED <<plan, source>>
    /\ upsets' = IF Newer(ev) # {} THEN upsets \cup {"reordered"} ELSE upsets
    /\ UNCHANGED <<compEnd, tab, stripeSide, admin, clock>>

\* markSubscriptionPastDue.
MarkPastDue(ev) ==
    LET hit == customer = ev.customer /\ source = "SUBSCRIPTION" IN
    /\ ev \in emitted \ handled /\ ev.kind = "invoice_failed"
    /\ handled' = handled \cup {ev}
    /\ subStatus' = IF hit THEN "PAST_DUE" ELSE subStatus
    /\ upsets' = IF hit /\ \E s \in Subs : stripeSub[s].raw = "active"
                 THEN upsets \cup {"dunned"} ELSE upsets
    /\ UNCHANGED <<plan, source, compEnd, subEnd, customer, tab, stripeSide, admin, clock>>

\* sweepExpiredPlans: the two guarded updates.
SweepComps ==
    /\ plan = "PRO" /\ source = "COMP" /\ compEnd # 0 /\ compEnd <= clock
    /\ plan' = "FREE" /\ source' = "null" /\ compEnd' = 0
    /\ UNCHANGED <<subStatus, subEnd, customer, tab, stripeSide, handled, admin, clock, upsets>>

\* Mutant of SweepLapsed: it looks for subscriptions that are CANCELED already.
SweepCanceled ==
    /\ plan = "PRO" /\ source = "SUBSCRIPTION"
    /\ subStatus = "CANCELED" /\ subEnd <= clock
    /\ plan' = "FREE" /\ source' = "null"
    /\ UNCHANGED <<compEnd, subStatus, subEnd, customer, tab, stripeSide, handled, admin, clock, upsets>>

SweepLapsed ==
    /\ plan = "PRO" /\ source = "SUBSCRIPTION"
    /\ subStatus = "PAST_DUE" /\ subEnd <= clock
    /\ plan' = "FREE" /\ source' = "null" /\ subStatus' = "CANCELED"
    /\ UNCHANGED <<compEnd, subEnd, customer, tab, stripeSide, handled, admin, clock, upsets>>

-----------------------------------------------------------------------------
(* PATCH /api/admin/stores/[id]/plan: a read, then an unconditional update.  *)

AdminReads(a, to) ==
    /\ admin[a].at = "idle"
    /\ admin' = [admin EXCEPT ![a] = [
         at |-> IF source = "SUBSCRIPTION" \/ (to = "FREE" /\ plan = "FREE")
                THEN "over" ELSE "write", to |-> to]]
    /\ UNCHANGED <<storeVars, tab, stripeSide, handled, clock, upsets>>

AdminWrites(a) ==
    /\ admin[a].at = "write"
    /\ clock < MaxClock      \* bound: no comp beyond the last period
    /\ plan' = admin[a].to
    /\ IF admin[a].to = "PRO" THEN source' = "COMP" /\ compEnd' = clock + 1
                              ELSE source' = "null" /\ compEnd' = 0
    /\ admin' = [admin EXCEPT ![a].at = "over"]
    /\ upsets' = IF source = "SUBSCRIPTION" THEN upsets \cup {"stale_admin"} ELSE upsets
    /\ UNCHANGED <<subStatus, subEnd, customer, tab, stripeSide, handled, clock>>

-----------------------------------------------------------------------------
Deliver == \E ev \in emitted : SyncSubscription(ev) \/ MarkPastDue(ev)

PlanNext ==
    \/ \E s \in Subs : ReadForCheckout(s) \/ OpenCheckout(s) \/ SubscriptionMoves(s)
    \/ \E s \in Subs, raw \in {"incomplete", "active"} : SubscriptionStarts(s, raw)
    \/ CommissionInvoiceFails \/ PeriodPasses
    \/ Deliver \/ SweepComps \/ SweepLapsed
    \/ \E a \in Admins : \/ \E to \in {"FREE", "PRO"} : AdminReads(a, to)
                         \/ AdminWrites(a)

PlanSpec == PlanInit /\ [][PlanNext]_planVars

\* Stripe redelivers until the event is processed; the sweep runs every day.
PlanFairness ==
    /\ WF_planVars(Deliver)
    /\ WF_planVars(SweepComps) /\ WF_planVars(SweepLapsed)
    /\ WF_planVars(PeriodPasses)

PlanFairSpec == PlanSpec /\ PlanFairness

-----------------------------------------------------------------------------
Settled == emitted \subseteq handled

\* Once every event is processed, the plan agrees with the subscriptions at Stripe:
\* a paid one means Pro, and with all canceled the store has no plan by subscription.
\* What breaks it is named in `upsets`: events of a subscription out of order, two
\* subscriptions at once, an admin write on a stale read, a failed invoice that is
\* not the subscription's latest.
PlanFollowsStripe ==
    Settled /\ upsets = {} =>
        /\ (\E s \in Subs : stripeSub[s].raw = "active")
                => plan = "PRO" /\ source = "SUBSCRIPTION"
        /\ (\A s \in Subs : stripeSub[s].raw \in {"none", "canceled"})
                => source # "SUBSCRIPTION"

\* Liveness: Pro never outlives its ground: with no paid subscription left at Stripe
\* it ends, unless a stale event revived it or the owner or an admin renewed it.
ProEnds ==
    (plan = "PRO" /\ ~\E s \in Subs : stripeSub[s].raw \in {"incomplete", "active"})
        ~> plan = "FREE" \/ upsets # {} \/ \E s \in Subs : stripeSub[s].raw \in {"incomplete", "active"}
=============================================================================
