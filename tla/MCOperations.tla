------------------------------ MODULE MCOperations ------------------------------
(***************************************************************************)
(* The components of the shop that share no state with one another, each   *)
(* checked on a small instance: the behaviours of this specification are   *)
(* the behaviours of one of them, picked by `part`.  The plan comes twice: *)
(* one subscription with a back-office request, and two without; so does   *)
(* the stock: one order with edits of the threshold, and two without.  And *)
(* the checkout: retries under one key, and two keys with a promo code.    *)
(***************************************************************************)
EXTENDS PlanBilling, Inventory, CircuitBreaker, Disputes, Accounts, Membership,
        Checkout

CONSTANTS sub1, sub2, admin1, sale1, sale2, form1, call1, call2, req1, req2,
          code1, pw1, pw2, invite1, invite2, org1, org2, own1, own2,
          key1, key2, post1, post2

VARIABLE part       \* the component whose behaviours are explored; fixed

TwoSubs == {sub1, sub2}
OneAdmin == {admin1}
TwoSales == {sale1, sale2}
OneForm == {form1}
TwoCalls == {call1, call2}
TwoRequests == {req1, req2}
OneCode == {code1}
TwoPasswords == {pw1, pw2}
TwoInvites == {invite1, invite2}
TwoOrgs == {org1, org2}
TwoOwn == {own1, own2}
TwoKeys == {key1, key2}
TwoPosts == {post1, post2}

opsVars == <<part, planVars, stockVars, breakerVars, disputeVars, accountVars, memberVars,
             checkoutVars>>

OpsInit ==
    /\ part \in {"plan", "plans", "stock", "sales", "breaker", "dispute", "account", "team",
                "retries", "codes"}
    /\ PlanInit /\ BreakerInit /\ DisputeInit
    \* the choices of the other initial states are made in their own part only
    /\ StockInit /\ (part \notin {"stock", "sales"} => stock = MaxStock /\ threshold = MaxThreshold /\ ~isVariant)
    /\ AccountsInit /\ (part # "account" => password = NoPassword /\ ~verified)
    /\ MemberInit /\ (part # "team" => ~hasAccount /\ \A i \in Invites : invite[i].org = org1)
    /\ CheckoutInit /\ (part # "codes" => promo.limit = 1)

InPlan(A) ==
    /\ part = "plan" /\ A /\ tab'[sub2] = tab[sub2]
    /\ UNCHANGED <<part, stockVars, breakerVars, disputeVars, accountVars, memberVars,
                   checkoutVars>>

\* Bounds of the instance with two subscriptions.
InPlans(A) ==
    /\ part = "plans" /\ A /\ admin' = admin /\ clock' <= 1
    /\ \A s \in Subs : stripeSub'[s].ver <= 2
    /\ UNCHANGED <<part, stockVars, breakerVars, disputeVars, accountVars, memberVars,
                   checkoutVars>>

InStock(A) ==
    /\ part = "stock" /\ A /\ sale'[sale2] = sale[sale2]
    /\ UNCHANGED <<part, planVars, breakerVars, disputeVars, accountVars, memberVars,
                   checkoutVars>>

InSales(A) ==
    /\ part = "sales" /\ A /\ threshold' = threshold
    /\ UNCHANGED <<part, planVars, breakerVars, disputeVars, accountVars, memberVars,
                   checkoutVars>>

\* Two requests under one key; the seller leaves the promo code alone.
InRetries(A) ==
    /\ part = "retries" /\ A
    /\ \A p \in Posts : post'[p].at # "idle" => post'[p].key = key1
    /\ promo' = [promo EXCEPT !.uses = promo'.uses]
    /\ UNCHANGED <<part, planVars, stockVars, breakerVars, disputeVars, accountVars, memberVars>>

\* Two manual orders with the promo code, while the seller edits it.  What a paid order
\* becomes does not matter to the code.
InCodes(A) ==
    /\ part = "codes" /\ A
    /\ \A p \in Posts : post'[p].at # "idle" =>
         /\ post'[p].key = IF p = post1 THEN key1 ELSE key2
         /\ post'[p].coded /\ post'[p].method = "manual"
    /\ \A k \in Keys : purchase'[k].status \notin {"PREPARING", "REFUNDED", "CANCELLED"}
    /\ UNCHANGED <<part, planVars, stockVars, breakerVars, disputeVars, accountVars, memberVars>>

OpsNext ==
    \/ InPlan(PlanNext) \/ InPlans(PlanNext)
    \/ InStock(StockNext) \/ InSales(StockNext)
    \/ /\ part = "breaker" /\ BreakerNext
       /\ UNCHANGED <<part, planVars, stockVars, disputeVars, accountVars, memberVars,
                      checkoutVars>>
    \/ /\ part = "dispute" /\ DisputeNext
       /\ UNCHANGED <<part, planVars, stockVars, breakerVars, accountVars, memberVars,
                      checkoutVars>>
    \/ /\ part = "account" /\ AccountsNext
       /\ UNCHANGED <<part, planVars, stockVars, breakerVars, disputeVars, memberVars,
                      checkoutVars>>
    \/ /\ part = "team" /\ MemberNext
       /\ UNCHANGED <<part, planVars, stockVars, breakerVars, disputeVars, accountVars,
                      checkoutVars>>
    \/ InRetries(CheckoutNext) \/ InCodes(CheckoutNext)

\* PlanFairness and StockFairness.  In the parts of the other components nothing of
\* them is ever enabled but PeriodPasses, which is limited to its own parts.
OpsSpec ==
    /\ OpsInit /\ [][OpsNext]_opsVars
    /\ WF_planVars(Deliver) /\ WF_planVars(SweepComps) /\ WF_planVars(SweepLapsed)
    /\ WF_planVars((part = "plan" \/ (part = "plans" /\ clock < 1)) /\ PeriodPasses)
    /\ StockFairness

\* Every variable of every component has its type.
OpsTypeOK ==
    /\ PlanTypeOK /\ StockTypeOK /\ BreakerTypeOK /\ DisputeTypeOK /\ AccountsTypeOK /\ MemberTypeOK
    /\ CheckoutTypeOK
=============================================================================
