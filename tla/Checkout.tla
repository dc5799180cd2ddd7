------------------------------- MODULE Checkout -------------------------------
(***************************************************************************)
(* POST /api/orders statement by statement: the replay of an               *)
(* Idempotency-Key, the promo code with its redemption limit, the row, the *)
(* charge and the stored payment page, for requests that overlap or repeat *)
(* one another.  OrderLifecycle has what becomes of an order; here it is   *)
(* reduced to what the replay and the promo code tell apart.               *)
(***************************************************************************)
EXTENDS Integers, FiniteSets

CONSTANTS
    Keys,       \* Idempotency-Keys; an order per key, so a key names its order
    Posts,      \* requests, first attempts and retries alike
    MaxUses     \* bound: values of maxRedemptions

ASSUME CheckoutAssumption == MaxUses \in Nat \ {0} /\ IsFiniteSet(Keys) /\ Keys # {}

VARIABLES
    purchase,   \* the Order row of each key
    post,       \* each request
    answer,     \* what each request was answered
    promo,      \* the Discount row of the store, under its code
    lax,        \* history: why the limit may be exceeded
    doubtful    \* history: orders whose payment page was stored although storing it threw

checkoutVars == <<purchase, post, answer, promo, lax, doubtful>>

Methods == {"card", "manual"}
PurchaseRecord ==
    [status: {"none", "PENDING", "PAID", "PREPARING", "REFUNDED", "CANCELLED", "EXPIRED", "FAILED"},
     method: Methods, coded: BOOLEAN, url: BOOLEAN]
PostRecord ==
    [at: {"idle", "replay", "cart", "promo", "priced", "charging", "storing", "failing",
          "answering", "over"},
     key: Keys, method: Methods, coded: BOOLEAN, room: Int]
Answers == {"none", "placed", "inFlight", "newKey", "mismatch", "refused", "failed", "error"}
PromoRecord ==
    [at: {"none", "code", "renamed"}, usable: BOOLEAN, limit: 1..MaxUses, uses: Nat]

CheckoutTypeOK ==
    /\ purchase \in [Keys -> PurchaseRecord]
    /\ post \in [Posts -> PostRecord]
    /\ answer \in [Posts -> Answers]
    /\ promo \in PromoRecord
    /\ lax \subseteq {"overlap", "edit"}
    /\ doubtful \subseteq Keys

CheckoutInit ==
    /\ purchase = [k \in Keys |-> [status |-> "none", method |-> "card", coded |-> FALSE, url |-> FALSE]]
    /\ post = [p \in Posts |->
         [at |-> "idle", key |-> CHOOSE k \in Keys : TRUE, method |-> "card", coded |-> FALSE, room |-> 0]]
    /\ answer = [p \in Posts |-> "none"]
    /\ \E n \in 1..MaxUses : promo = [at |-> "code", usable |-> TRUE, limit |-> n, uses |-> 0]
    /\ lax = {} /\ doubtful = {}

Order(p) == purchase[post[p].key]

Proceed(p, at) == post' = [post EXCEPT ![p].at = at]

Reply(p, what) ==
    /\ Proceed(p, "over")
    /\ answer' = [answer EXCEPT ![p] = what]

\* Orders that will redeem the code when they are paid.
Awaiting == {k \in Keys : purchase[k].status = "PENDING" /\ purchase[k].coded}

Room(d) == d.limit - d.uses

-----------------------------------------------------------------------------
(* The request.                                                              *)

\* The client, whose checkout form keeps one key for as long as it is open.
Submit(p, k, method, coded) ==
    /\ post[p].at = "idle"
    /\ post' = [post EXCEPT ![p] = [at |-> "replay", key |-> k, method |-> method,
                                    coded |-> coded, room |-> 0]]
    /\ UNCHANGED <<purchase, answer, promo, lax, doubtful>>

\* fingerprintBody: the cart and the code, here told apart by the code; the payment
\* method is not part of it.
SameBody(p) == Order(p).coded = post[p].coded

\* Mutant of Outcome: a pending order is echoed before it has its payment page.
EchoAnyway(o) == IF o.status \in {"PENDING", "PAID"} THEN "placed" ELSE "newKey"

\* What the order of an earlier attempt is answered with.
Outcome(o) ==
    CASE o.status = "PENDING" /\ ~o.url       -> "inFlight"
      [] o.status = "PENDING" /\ o.url        -> "placed"
      [] o.status = "PAID"                    -> "placed"
      [] o.status \notin {"PENDING", "PAID"}  -> "newKey"

LookUpKey(p) ==
    /\ post[p].at = "replay"
    /\ IF Order(p).status = "none"
       THEN Proceed(p, "cart") /\ UNCHANGED answer
       ELSE Reply(p, IF SameBody(p) THEN Outcome(Order(p)) ELSE "mismatch")
    /\ UNCHANGED <<purchase, promo, lax, doubtful>>

\* The cart is priced, and the delivery quoted, or refused: stock, options, address.
PriceCart(p) ==
    /\ post[p].at = "cart"
    /\ \/ Proceed(p, IF post[p].coded THEN "promo" ELSE "priced") /\ UNCHANGED answer
       \/ Reply(p, "refused")
    /\ UNCHANGED <<purchase, promo, lax, doubtful>>

\* Mutant of Redeemable: the limit is not tested.
RedeemableForEver == promo.at = "code" /\ promo.usable

\* evaluateDiscount and discountStatus.
Redeemable == promo.at = "code" /\ promo.usable /\ promo.uses < promo.limit

EvaluateDiscount(p) ==
    /\ post[p].at = "promo"
    /\ IF Redeemable
       THEN post' = [post EXCEPT ![p].at = "priced", ![p].room = Room(promo)] /\ UNCHANGED answer
       ELSE Reply(p, "refused")
    /\ UNCHANGED <<purchase, promo, lax, doubtful>>

\* order.create: the key is unique, and a request that lost the race fails on it.
CreateOrder(p) ==
    LET k == post[p].key
        taken == Cardinality(Awaiting) >= Room(promo)
        shared == Awaiting # {} \/ Room(promo) # post[p].room IN
    /\ post[p].at = "priced" /\ purchase[k].status = "none"
    /\ purchase' = [purchase EXCEPT ![k] = [status |-> "PENDING", method |-> post[p].method,
                                            coded |-> post[p].coded, url |-> FALSE]]
    /\ Proceed(p, IF post[p].method = "card" THEN "charging" ELSE "answering")
    /\ lax' = IF post[p].coded /\ taken /\ shared THEN lax \cup {"overlap"} ELSE lax
    /\ UNCHANGED <<answer, promo, doubtful>>

KeyTaken(p) ==
    /\ post[p].at = "priced" /\ Order(p).status # "none"
    /\ Reply(p, "error")
    /\ UNCHANGED <<purchase, promo, lax, doubtful>>

\* breaker.execute: the charge answers, or it throws or the breaker is open.
Charge(p) ==
    /\ post[p].at = "charging"
    /\ \E at \in {"storing", "failing"} : Proceed(p, at)
    /\ UNCHANGED <<purchase, answer, promo, lax, doubtful>>

StoreUrl(p) ==
    /\ post[p].at = "storing"
    /\ purchase' = [purchase EXCEPT ![post[p].key].url = TRUE]
    /\ Proceed(p, "answering")
    /\ UNCHANGED <<answer, promo, lax, doubtful>>

\* The update throws; the database may have committed it all the same.
StoreThrows(p) ==
    /\ post[p].at = "storing"
    /\ \/ UNCHANGED <<purchase, doubtful>>
       \/ /\ purchase' = [purchase EXCEPT ![post[p].key].url = TRUE]
          /\ doubtful' = doubtful \cup {post[p].key}
    /\ Proceed(p, "failing")
    /\ UNCHANGED <<answer, promo, lax>>

\* The catch block updates by id, whatever the order is by then.
MarkFailed(p) ==
    /\ post[p].at = "failing"
    /\ purchase' = [purchase EXCEPT ![post[p].key].status = "FAILED"]
    /\ Reply(p, "failed")
    /\ UNCHANGED <<promo, lax, doubtful>>

AnswerCreated(p) ==
    /\ post[p].at = "answering"
    /\ Reply(p, "placed")
    /\ UNCHANGED <<purchase, promo, lax, doubtful>>

\* The server dies, or the answer is lost on its way.
PostDies(p) ==
    /\ post[p].at \notin {"idle", "over"}
    /\ Proceed(p, "over")
    /\ UNCHANGED <<purchase, answer, promo, lax, doubtful>>

-----------------------------------------------------------------------------
(* What becomes of an order, as far as a replay or the promo code sees it.   *)

SetStatus(k, s) == purchase' = [purchase EXCEPT ![k].status = s]

\* applyOrderPaidEffects: the redemption counts now, if the code is still there.
\* A card order needs the stored session and a buyer who was sent to its page.
SettlePurchase(k) ==
    /\ purchase[k].status = "PENDING"
    /\ \/ purchase[k].method = "manual"
       \/ purchase[k].url /\ \E p \in Posts : post[p].key = k /\ answer[p] = "placed"
    /\ SetStatus(k, "PAID")
    /\ promo' = IF purchase[k].coded /\ promo.at = "code"
                THEN [promo EXCEPT !.uses = @ + 1] ELSE promo
    /\ UNCHANGED <<post, answer, lax, doubtful>>

\* The expiry cron, the abandoned checkout, a seller's cancellation.
ClosePending(k) ==
    /\ purchase[k].status = "PENDING"
    /\ \E s \in {"EXPIRED", "CANCELLED"} : SetStatus(k, s)
    /\ UNCHANGED <<post, answer, promo, lax, doubtful>>

SellerPrepares(k) ==
    /\ purchase[k].status = "PAID"
    /\ SetStatus(k, "PREPARING")
    /\ UNCHANGED <<post, answer, promo, lax, doubtful>>

\* A refund leaves redemptionCount as it is.
RefundPurchase(k) ==
    /\ purchase[k].status \in {"PAID", "PREPARING"}
    /\ SetStatus(k, "REFUNDED")
    /\ UNCHANGED <<post, answer, promo, lax, doubtful>>

-----------------------------------------------------------------------------
(* The seller's promo code.                                                  *)

\* A row under the code whose room is below what is promised already.
SetPromo(d) ==
    /\ promo' = d
    /\ lax' = IF Room(d) < Cardinality(Awaiting) THEN lax \cup {"edit"} ELSE lax
    /\ UNCHANGED <<purchase, post, answer, doubtful>>

EditLimit(n) ==
    /\ promo.at # "none" /\ n # promo.limit
    /\ SetPromo([promo EXCEPT !.limit = n])

\* `active`, the dates, the minimum: set by the seller or come with time.
TogglePromo ==
    /\ promo.at # "none"
    /\ SetPromo([promo EXCEPT !.usable = ~@])

RenamePromo ==
    /\ promo.at # "none"
    /\ SetPromo([promo EXCEPT !.at = IF @ = "code" THEN "renamed" ELSE "code"])

DeletePromo ==
    /\ promo.at # "none"
    /\ SetPromo([promo EXCEPT !.at = "none", !.uses = 0])

CreatePromo(n) ==
    /\ promo.at = "none"
    /\ SetPromo([at |-> "code", usable |-> TRUE, limit |-> n, uses |-> 0])

-----------------------------------------------------------------------------
CheckoutNext ==
    \/ \E p \in Posts :
         \/ \E k \in Keys, method \in Methods, coded \in BOOLEAN : Submit(p, k, method, coded)
         \/ LookUpKey(p) \/ PriceCart(p) \/ EvaluateDiscount(p)
         \/ CreateOrder(p) \/ KeyTaken(p)
         \/ Charge(p) \/ StoreUrl(p) \/ StoreThrows(p) \/ MarkFailed(p) \/ AnswerCreated(p)
         \/ PostDies(p)
    \/ \E k \in Keys :
         SettlePurchase(k) \/ ClosePending(k) \/ SellerPrepares(k) \/ RefundPurchase(k)
    \/ \E n \in 1..MaxUses : EditLimit(n) \/ CreatePromo(n)
    \/ TogglePromo \/ RenamePromo \/ DeletePromo

CheckoutSpec == CheckoutInit /\ [][CheckoutNext]_checkoutVars

-----------------------------------------------------------------------------
\* An order that any request with its key was told is placed is not failed by the
\* request that made it: retries that overlap the charge are put off, and only an
\* update that committed and threw can fail an order whose payment page is out.
HandedOutIsLive ==
    \A p \in Posts : answer[p] = "placed" /\ Order(p).status = "FAILED" => post[p].key \in doubtful

\* The limit is tested when the cart is priced and counted when the order is paid: a
\* code is redeemed more often than it may be only if orders awaited payment together,
\* or the seller took back room that was promised.
LimitNeedsOverlap ==
    promo.uses > promo.limit => lax # {}

\* A retry is never told to submit a new key, and so to buy again, while the order of
\* the key is paid.
ReplayNeverSellsTwice ==
    \A p \in Posts : answer[p] = "newKey" => Order(p).status \notin {"PAID", "PREPARING"}
=============================================================================
