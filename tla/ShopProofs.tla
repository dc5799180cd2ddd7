------------------------------ MODULE ShopProofs ------------------------------
(***************************************************************************)
(* Proofs about Inventory (its type, the ledger and the re-arming of the   *)
(* low-stock alert), about Checkout (who makes an order, what a request    *)
(* was told of it, and the limit of a promo code), and about the           *)
(* composition of all the components that share no state.                  *)
(***************************************************************************)
EXTENDS MCOperations, IdentityProofs, PaymentProofs

StockInv == StockTypeOK /\ LedgerMatchesStock /\ RearmedWhenRecovered

\* The stock, its ledger and the forms at first.
LEMMA StockStart == StockInit => StockInv
<1> SUFFICES ASSUME StockInit
             PROVE  StockInv
  OBVIOUS
<1>1. 0 \in Quantities /\ 0 \in Thresholds /\ 0 \in 0..MaxAlerts
  BY InventoryAssumption DEF Quantities, Thresholds
<1>2. stock \in Levels /\ ledger \in Int
  BY InventoryAssumption DEF StockInit, Quantities, Levels
<1>3. sale \in [Sales -> SaleRecord]
  BY <1>1 DEF StockInit, SaleRecord
<1>4. form \in [Forms -> FormRecord]
  BY <1>1 DEF StockInit, FormRecord
<1> QED BY <1>1, <1>2, <1>3, <1>4
        DEF StockInit, StockInv, StockTypeOK, LedgerMatchesStock, RearmedWhenRecovered

\* A stock write that uses the threshold it read re-arms the alert, and one that
\* used an older threshold is on record.
LEMMA WriteRearms ==
    ASSUME StockInv, NEW n \in Levels, NEW limit \in Thresholds, SetStock(n, limit),
           threshold' = threshold
    PROVE  /\ stock' \in Levels
           /\ notified' \in BOOLEAN /\ told' \in BOOLEAN /\ muted' \in BOOLEAN
           /\ RearmedWhenRecovered'
<1>1. stock' \in Levels
  BY DEF SetStock
<1>2. notified' \in BOOLEAN /\ told' \in BOOLEAN /\ muted' \in BOOLEAN
  BY DEF SetStock
<1>3. RearmedWhenRecovered'
  BY InventoryAssumption
     DEF SetStock, StockInv, StockTypeOK, RearmedWhenRecovered, Low, Levels, Thresholds
<1> QED BY <1>1, <1>2, <1>3

\* A ledger row written from the current quantity keeps the books.
LEMMA ChangeBooks ==
    ASSUME StockInv, NEW read \in Int, NEW n \in Levels, NEW limit \in Thresholds,
           ApplyStockChange(read, limit, n), threshold' = threshold,
           drift' \subseteq {"form", "variant"}, drift' = {} => read = stock /\ drift = {}
    PROVE  /\ stock' \in Levels /\ ledger' \in Int
           /\ notified' \in BOOLEAN /\ told' \in BOOLEAN /\ muted' \in BOOLEAN
           /\ RearmedWhenRecovered' /\ LedgerMatchesStock'
<1>1. SetStock(n, limit) /\ stock' = n /\ ledger' = ledger + (n - read)
  BY DEF ApplyStockChange, SetStock
<1>2. ledger' \in Int
  BY <1>1, InventoryAssumption DEF StockInv, StockTypeOK, Levels
<1>3. LedgerMatchesStock'
  BY <1>1, InventoryAssumption DEF StockInv, StockTypeOK, LedgerMatchesStock, Levels
<1> QED BY <1>1, <1>2, <1>3, WriteRearms

\* Every writer of the quantity keeps the books and re-arms the alert, or goes on record.
LEMMA StockStep == StockInv /\ [StockNext]_stockVars => StockInv'
<1> SUFFICES ASSUME StockInv, [StockNext]_stockVars
             PROVE  StockInv'
  OBVIOUS
<1> USE InventoryAssumption
<1>1. StockTypeOK /\ stock \in Int /\ threshold \in Thresholds
  BY DEF StockInv, StockTypeOK, Levels
<1>2. ASSUME NEW o \in Sales, NEW n \in Quantities, PlaceOrder(o, n)
      PROVE  StockInv'
  <2>1. sale' \in [Sales -> SaleRecord]
    BY <1>1, <1>2 DEF PlaceOrder, StockTypeOK, SaleRecord
  <2> QED BY <1>2, <2>1
          DEF PlaceOrder, StockInv, StockTypeOK, LedgerMatchesStock, RearmedWhenRecovered, Low
<1>3. ASSUME NEW o \in Sales, PayOrder(o)
      PROVE  StockInv'
  <2>1. Floor(stock - sale[o].size) \in Levels
    BY <1>1 DEF StockTypeOK, SaleRecord, Floor, Levels, Quantities
  <2>2. sale' \in [Sales -> SaleRecord]
    BY <1>1, <1>3 DEF PayOrder, StockTypeOK, SaleRecord
  <2>3. alerts' \in 0..MaxAlerts
    <3>1. alerts' \in Nat /\ alerts' <= MaxAlerts
      BY <1>1, <1>3 DEF PayOrder, StockTypeOK
    <3> QED BY <3>1
  <2>4. /\ ApplyStockChange(stock, threshold, Floor(stock - sale[o].size))
        /\ threshold' = threshold /\ drift' = drift
    BY <1>3 DEF PayOrder
  <2>5. /\ stock' \in Levels /\ ledger' \in Int
        /\ notified' \in BOOLEAN /\ told' \in BOOLEAN /\ muted' \in BOOLEAN
        /\ RearmedWhenRecovered' /\ LedgerMatchesStock'
    BY <1>1, <2>1, <2>4, ChangeBooks DEF StockTypeOK
  <2> QED BY <1>1, <1>3, <2>2, <2>3, <2>5 DEF PayOrder, StockInv, StockTypeOK
<1>4. ASSUME NEW o \in Sales, RefundOrder(o)
      PROVE  StockInv'
  <2>1. stock + sale[o].size \in Levels
    BY <1>1, <1>4 DEF RefundOrder, StockTypeOK, SaleRecord, Levels, Quantities
  <2>2. sale' \in [Sales -> SaleRecord]
    BY <1>1, <1>4 DEF RefundOrder, StockTypeOK, SaleRecord
  <2>3. /\ ApplyStockChange(stock, threshold, stock + sale[o].size)
        /\ threshold' = threshold /\ drift' = drift
    BY <1>4 DEF RefundOrder
  <2>4. /\ stock' \in Levels /\ ledger' \in Int
        /\ notified' \in BOOLEAN /\ told' \in BOOLEAN /\ muted' \in BOOLEAN
        /\ RearmedWhenRecovered' /\ LedgerMatchesStock'
    BY <1>1, <2>1, <2>3, ChangeBooks DEF StockTypeOK
  <2> QED BY <1>1, <1>4, <2>2, <2>4 DEF RefundOrder, StockInv, StockTypeOK
<1>5. ASSUME NEW n \in Levels, AdjustInventory(n)
      PROVE  StockInv'
  <2>1. /\ stock' \in Levels /\ ledger' \in Int
        /\ notified' \in BOOLEAN /\ told' \in BOOLEAN /\ muted' \in BOOLEAN
        /\ RearmedWhenRecovered' /\ LedgerMatchesStock'
    BY <1>1, <1>5, ChangeBooks DEF AdjustInventory, StockTypeOK
  <2> QED BY <1>1, <1>5, <2>1 DEF AdjustInventory, StockInv, StockTypeOK
<1>6. ASSUME NEW n \in Quantities, EditVariant(n)
      PROVE  StockInv'
  <2>1. told' \in BOOLEAN /\ muted' \in BOOLEAN /\ n \in Levels
    BY <1>6 DEF EditVariant, Quantities, Levels
  <2>2. RearmedWhenRecovered'
    BY <1>6 DEF EditVariant, RearmedWhenRecovered, Low
  <2>3. LedgerMatchesStock'
    BY <1>6 DEF EditVariant, LedgerMatchesStock
  <2> QED BY <1>1, <1>6, <2>1, <2>2, <2>3 DEF EditVariant, StockInv, StockTypeOK
<1>7. ASSUME NEW t \in Thresholds, EditThreshold(t)
      PROVE  StockInv'
  <2>1. told' \in BOOLEAN /\ muted' \in BOOLEAN
    BY <1>7 DEF EditThreshold
  <2>2. RearmedWhenRecovered'
    <3>1. /\ muted' = (notified /\ (muted \/ stock > t)) /\ UNCHANGED <<stock, notified>>
          /\ threshold' = t
      BY <1>7 DEF EditThreshold
    <3>2. Low(stock)' <=> ~(stock > t)
      BY <1>1, <3>1 DEF Low, Thresholds
    <3> QED BY <3>1, <3>2 DEF RearmedWhenRecovered
  <2>3. LedgerMatchesStock'
    BY <1>7 DEF EditThreshold, StockInv, LedgerMatchesStock
  <2> QED BY <1>1, <1>7, <2>1, <2>2, <2>3 DEF EditThreshold, StockInv, StockTypeOK
<1>8. ASSUME NEW f \in Forms, NEW n \in Quantities, ReadProduct(f, n)
      PROVE  StockInv'
  <2>1. form' \in [Forms -> FormRecord]
    BY <1>1, <1>8 DEF ReadProduct, StockTypeOK, FormRecord
  <2> QED BY <1>1, <1>8, <2>1
          DEF ReadProduct, StockInv, StockTypeOK, LedgerMatchesStock, RearmedWhenRecovered, Low
<1>9. ASSUME NEW f \in Forms, SkipUnchanged(f) \/ ReadInTransaction(f)
      PROVE  StockInv'
  <2>1. form' \in [Forms -> FormRecord]
    BY <1>1, <1>9 DEF SkipUnchanged, ReadInTransaction, StockTypeOK, FormRecord
  <2> QED BY <1>1, <1>9, <2>1
          DEF SkipUnchanged, ReadInTransaction, StockInv, StockTypeOK, LedgerMatchesStock,
              RearmedWhenRecovered, Low
<1>10. ASSUME NEW f \in Forms, WriteLocked(f)
       PROVE  StockInv'
  <2>1. form' \in [Forms -> FormRecord] /\ form[f].to \in Levels
    BY <1>1, <1>10 DEF WriteLocked, StockTypeOK, FormRecord, Quantities, Levels
  <2>2. /\ stock' \in Levels /\ ledger' \in Int
        /\ notified' \in BOOLEAN /\ told' \in BOOLEAN /\ muted' \in BOOLEAN
        /\ RearmedWhenRecovered' /\ LedgerMatchesStock'
    BY <1>1, <1>10, <2>1, ChangeBooks DEF WriteLocked, StockTypeOK
  <2> QED BY <1>1, <1>10, <2>1, <2>2 DEF WriteLocked, StockInv, StockTypeOK
<1>11. ASSUME NEW f \in Forms, WriteUnlocked(f)
       PROVE  StockInv'
  <2>1. /\ form' \in [Forms -> FormRecord]
        /\ form[f].to \in Levels /\ form[f].seen \in Int /\ form[f].limit \in Thresholds
    BY <1>1, <1>11 DEF WriteUnlocked, StockTypeOK, FormRecord, Quantities, Levels
  <2>2. /\ drift' \subseteq {"form", "variant"}
        /\ drift' = {} => form[f].seen = stock /\ drift = {}
    BY <1>1, <1>11 DEF WriteUnlocked, StockTypeOK
  <2>3. ApplyStockChange(form[f].seen, form[f].limit, form[f].to) /\ threshold' = threshold
    BY <1>11 DEF WriteUnlocked
  <2>4. /\ stock' \in Levels /\ ledger' \in Int
        /\ notified' \in BOOLEAN /\ told' \in BOOLEAN /\ muted' \in BOOLEAN
        /\ RearmedWhenRecovered' /\ LedgerMatchesStock'
    BY <2>1, <2>2, <2>3, ChangeBooks
  <2> QED BY <1>1, <1>11, <2>1, <2>2, <2>4 DEF WriteUnlocked, StockInv, StockTypeOK
<1>12. CASE SweepLowStock
  BY <1>12 DEF SweepLowStock, StockInv, StockTypeOK, LedgerMatchesStock, RearmedWhenRecovered, Low
<1>13. CASE DispatchAlert
  <2>1. muted' \in BOOLEAN
    BY <1>13 DEF DispatchAlert
  <2>4. told' \in BOOLEAN
    <3>1. Low(stock) \in BOOLEAN
      BY DEF Low
    <3> QED BY <1>13, <3>1 DEF DispatchAlert
  <2>2. alerts' \in 0..MaxAlerts
    BY <1>1, <1>13 DEF DispatchAlert, StockTypeOK
  <2>3. RearmedWhenRecovered' /\ LedgerMatchesStock'
    BY <1>13 DEF DispatchAlert, StockInv, RearmedWhenRecovered, LedgerMatchesStock, Low
  <2> QED BY <1>1, <1>13, <2>1, <2>2, <2>3, <2>4 DEF DispatchAlert, StockInv, StockTypeOK
<1>14. CASE UNCHANGED stockVars
  BY <1>14 DEF stockVars, StockInv, StockTypeOK, LedgerMatchesStock, RearmedWhenRecovered, Low
<1> QED BY <1>2, <1>3, <1>4, <1>5, <1>6, <1>7, <1>8, <1>9, <1>10, <1>11, <1>12, <1>13, <1>14
        DEF StockNext

\* The inductive invariant of Inventory, for any number of orders and forms.
THEOREM StockInvariant == StockSpec => []StockInv
<1> QED BY StockStart, StockStep, PTL DEF StockSpec

\* The quantity is the sum of its ledger rows unless a form raced another write or
\* a variant was edited: clamped sales and their refunds included.
THEOREM LedgerMatchesStockAlways == StockSpec => []LedgerMatchesStock
<1>1. StockInv => LedgerMatchesStock
  BY DEF StockInv
<1> QED BY <1>1, StockInvariant, PTL

\* An item that recovered is re-armed, even by a form that wrote on a stale read.
THEOREM RearmedWhenRecoveredAlways == StockSpec => []RearmedWhenRecovered
<1>1. StockInv => RearmedWhenRecovered
  BY DEF StockInv
<1> QED BY <1>1, StockInvariant, PTL

-----------------------------------------------------------------------------
(* Requests that overlap or repeat one another.                              *)

\* A request that has made the order of its key and is not over.
Making(p) == post[p].at \in {"charging", "storing", "failing", "answering"}

HasPage(k) == purchase[k].method = "manual" \/ purchase[k].url

AnsweredAreOver == \A p \in Posts : answer[p] # "none" => post[p].at = "over"

OneMaker ==
    \A p, q \in Posts : Making(p) /\ Making(q) /\ post[p].key = post[q].key => p = q

\* What a request that made the order of its key knows about it.
Rights(p) ==
    /\ Order(p).status \notin {"none", "FAILED"}
    /\ post[p].at # "answering" => Order(p).method = "card"
    /\ post[p].at \in {"charging", "storing"} => ~Order(p).url
    /\ post[p].at = "failing" /\ Order(p).url => post[p].key \in doubtful
    /\ post[p].at = "answering" => HasPage(post[p].key)

MakersOwn == \A p \in Posts : Making(p) => Rights(p)

PagesAreOut ==
    /\ \A p \in Posts : answer[p] = "placed" => Order(p).status # "none" /\ HasPage(post[p].key)
    /\ \A k \in Keys : purchase[k].status = "PAID" => HasPage(k)

HandedInv ==
    CheckoutTypeOK /\ AnsweredAreOver /\ OneMaker /\ MakersOwn /\ PagesAreOut /\ HandedOutIsLive

\* The steps of requests, of the seller's code and of an order.
PostStep(p) ==
    \/ \E k \in Keys, method \in Methods, coded \in BOOLEAN : Submit(p, k, method, coded)
    \/ LookUpKey(p) \/ PriceCart(p) \/ EvaluateDiscount(p)
    \/ CreateOrder(p) \/ KeyTaken(p)
    \/ Charge(p) \/ StoreUrl(p) \/ StoreThrows(p) \/ MarkFailed(p) \/ AnswerCreated(p)
    \/ PostDies(p)

PromoStep ==
    \/ \E n \in 1..MaxUses : EditLimit(n) \/ CreatePromo(n)
    \/ TogglePromo \/ RenamePromo \/ DeletePromo

OrderStep(k) == SettlePurchase(k) \/ ClosePending(k) \/ SellerPrepares(k) \/ RefundPurchase(k)

\* No order exists and no request has begun.
LEMMA CheckoutStart == CheckoutInit => HandedInv
<1> SUFFICES ASSUME CheckoutInit PROVE HandedInv
  OBVIOUS
<1>1. CheckoutTypeOK
  <2>1. (CHOOSE k \in Keys : TRUE) \in Keys
    BY CheckoutAssumption
  <2>2. post \in [Posts -> PostRecord] /\ purchase \in [Keys -> PurchaseRecord]
    BY <2>1 DEF CheckoutInit, PostRecord, PurchaseRecord, Methods
  <2>3. promo \in PromoRecord
    BY CheckoutAssumption DEF CheckoutInit, PromoRecord
  <2> QED BY <2>2, <2>3 DEF CheckoutInit, CheckoutTypeOK, Answers
<1>2. \A p \in Posts : post[p].at = "idle" /\ answer[p] = "none"
  BY DEF CheckoutInit
<1>3. \A k \in Keys : purchase[k].status = "none"
  BY DEF CheckoutInit
<1> QED
  BY <1>1, <1>2, <1>3 DEF HandedInv, AnsweredAreOver, OneMaker, MakersOwn, PagesAreOut,
     HandedOutIsLive, Making

\* Proceed and Reply, on typed requests.
LEMMA ProceedTyped ==
    ASSUME CheckoutTypeOK, NEW p \in Posts, NEW at, Proceed(p, at),
           at \in {"cart", "promo", "priced", "charging", "storing", "failing", "answering", "over"}
    PROVE  /\ post' \in [Posts -> PostRecord]
           /\ post'[p].at = at /\ post'[p].key = post[p].key
           /\ post'[p].coded = post[p].coded /\ post'[p].room = post[p].room
           /\ \A q \in Posts \ {p} : post'[q] = post[q]
BY DEF CheckoutTypeOK, PostRecord, Proceed

\* Storing or clearing the payment page keeps an order's type.
LEMMA UrlTyped ==
    ASSUME NEW r \in PurchaseRecord, NEW b \in BOOLEAN
    PROVE  [r EXCEPT !.url = b] \in PurchaseRecord
BY DEF PurchaseRecord

\* Switching a code on or off keeps its type.
LEMMA ToggleTyped ==
    ASSUME NEW d \in PromoRecord
    PROVE  [d EXCEPT !.usable = ~@] \in PromoRecord
<1> DEFINE new == [at |-> d.at, usable |-> ~d.usable, limit |-> d.limit, uses |-> d.uses]
<1>1. [d EXCEPT !.usable = ~@] = new
  BY DEF PromoRecord
<1>2. new \in PromoRecord
  BY DEF PromoRecord
<1> QED BY <1>1, <1>2

\* Every step of a request, of an order and of the seller keeps the types.
LEMMA CheckoutTypeStep == CheckoutTypeOK /\ [CheckoutNext]_checkoutVars => CheckoutTypeOK'
<1> SUFFICES ASSUME CheckoutTypeOK, [CheckoutNext]_checkoutVars
             PROVE  CheckoutTypeOK'
  OBVIOUS
<1> USE CheckoutAssumption
<1>1. ASSUME NEW p \in Posts, PostStep(p)
      PROVE  CheckoutTypeOK'
  <2>1. CASE \E k \in Keys, method \in Methods, coded \in BOOLEAN : Submit(p, k, method, coded)
    BY <2>1 DEF CheckoutTypeOK, PostRecord, Submit
  <2>2. CASE LookUpKey(p)
    <3>1. Outcome(Order(p)) \in Answers
      BY DEF CheckoutTypeOK, PostRecord, PurchaseRecord, Order, Outcome, Answers
    <3>2. post' \in [Posts -> PostRecord]
      BY <2>2, ProceedTyped DEF LookUpKey, Reply
    <3>3. answer' \in [Posts -> Answers]
      BY <2>2, <3>1 DEF LookUpKey, Reply, CheckoutTypeOK, Answers
    <3> QED BY <2>2, <3>2, <3>3 DEF LookUpKey, CheckoutTypeOK
  <2>3. CASE PriceCart(p) \/ KeyTaken(p) \/ AnswerCreated(p) \/ Charge(p) \/ PostDies(p)
    <3>1. post' \in [Posts -> PostRecord]
      BY <2>3, ProceedTyped DEF PriceCart, KeyTaken, AnswerCreated, Charge, PostDies, Reply
    <3>2. answer' \in [Posts -> Answers]
      BY <2>3 DEF PriceCart, KeyTaken, AnswerCreated, Charge, PostDies, Reply, CheckoutTypeOK, Answers
    <3> QED BY <2>3, <3>1, <3>2 DEF PriceCart, KeyTaken, AnswerCreated, Charge, PostDies, CheckoutTypeOK
  <2>4. CASE EvaluateDiscount(p)
    <3>1. Room(promo) \in Int
      BY DEF CheckoutTypeOK, PromoRecord, Room
    <3>2. post' \in [Posts -> PostRecord]
      BY <2>4, <3>1, ProceedTyped DEF EvaluateDiscount, Reply, CheckoutTypeOK, PostRecord
    <3>3. answer' \in [Posts -> Answers]
      BY <2>4 DEF EvaluateDiscount, Reply, CheckoutTypeOK, Answers
    <3> QED BY <2>4, <3>2, <3>3 DEF EvaluateDiscount, CheckoutTypeOK
  <2>5. CASE CreateOrder(p)
    <3>1. post' \in [Posts -> PostRecord]
      BY <2>5, ProceedTyped DEF CreateOrder
    <3>2. purchase' \in [Keys -> PurchaseRecord]
      BY <2>5 DEF CreateOrder, CheckoutTypeOK, PostRecord, PurchaseRecord
    <3> QED BY <2>5, <3>1, <3>2 DEF CreateOrder, CheckoutTypeOK
  <2>6. CASE StoreUrl(p) \/ StoreThrows(p) \/ MarkFailed(p)
    <3>1. post' \in [Posts -> PostRecord]
      BY <2>6, ProceedTyped DEF StoreUrl, StoreThrows, MarkFailed, Reply
    <3>2. purchase' \in [Keys -> PurchaseRecord] /\ doubtful' \subseteq Keys
      <4> DEFINE k == post[p].key
      <4>1. k \in Keys
        BY DEF CheckoutTypeOK, PostRecord
      <4>2. \/ purchase' = purchase
            \/ purchase' = [purchase EXCEPT ![k].url = TRUE]
            \/ purchase' = [purchase EXCEPT ![k].status = "FAILED"]
        BY <2>6 DEF StoreUrl, StoreThrows, MarkFailed
      <4>3. doubtful' \subseteq Keys
        BY <2>6, <4>1 DEF StoreUrl, StoreThrows, MarkFailed, CheckoutTypeOK
      <4>4. [purchase[k] EXCEPT !.url = TRUE] \in PurchaseRecord
        BY <4>1, UrlTyped, TRUE \in BOOLEAN DEF CheckoutTypeOK
      <4>5. [purchase[k] EXCEPT !.status = "FAILED"] \in PurchaseRecord
        BY <4>1 DEF CheckoutTypeOK, PurchaseRecord
      <4>6. purchase' \in [Keys -> PurchaseRecord]
        BY <4>1, <4>2, <4>4, <4>5 DEF CheckoutTypeOK
      <4> QED BY <4>3, <4>6
    <3>3. answer' \in [Posts -> Answers]
      BY <2>6 DEF StoreUrl, StoreThrows, MarkFailed, Reply, CheckoutTypeOK, Answers
    <3> QED BY <2>6, <3>1, <3>2, <3>3 DEF StoreUrl, StoreThrows, MarkFailed, CheckoutTypeOK
  <2> QED BY <1>1, <2>1, <2>2, <2>3, <2>4, <2>5, <2>6 DEF PostStep
<1>2. ASSUME NEW k \in Keys, OrderStep(k)
      PROVE  CheckoutTypeOK'
  <2>1. purchase' \in [Keys -> PurchaseRecord]
    BY <1>2 DEF OrderStep, SettlePurchase, ClosePending, SellerPrepares, RefundPurchase, SetStatus,
                CheckoutTypeOK, PurchaseRecord
  <2>2. promo' \in PromoRecord
    BY <1>2 DEF OrderStep, SettlePurchase, ClosePending, SellerPrepares, RefundPurchase,
                CheckoutTypeOK, PromoRecord
  <2> QED BY <1>2, <2>1, <2>2 DEF OrderStep, SettlePurchase, ClosePending, SellerPrepares,
             RefundPurchase, CheckoutTypeOK
<1>3. CASE PromoStep
  <2>1. promo' \in PromoRecord
    <3>1. CASE \E n \in 1..MaxUses : EditLimit(n) \/ CreatePromo(n)
      <4>1. PICK n \in 1..MaxUses : EditLimit(n) \/ CreatePromo(n)
        BY <3>1
      <4>2. [at |-> "code", usable |-> TRUE, limit |-> n, uses |-> 0] \in PromoRecord
        BY 0 \in Nat DEF PromoRecord
      <4>3. [promo EXCEPT !.limit = n] \in PromoRecord
        BY DEF CheckoutTypeOK, PromoRecord
      <4> QED BY <4>1, <4>2, <4>3 DEF EditLimit, CreatePromo, SetPromo
    <3>2. CASE TogglePromo
      BY <3>2, ToggleTyped DEF TogglePromo, SetPromo, CheckoutTypeOK
    <3>3. CASE RenamePromo
      BY <3>3 DEF RenamePromo, SetPromo, CheckoutTypeOK, PromoRecord
    <3>4. CASE DeletePromo
      BY <3>4 DEF DeletePromo, SetPromo, CheckoutTypeOK, PromoRecord
    <3> QED BY <1>3, <3>1, <3>2, <3>3, <3>4 DEF PromoStep
  <2> QED BY <1>3, <2>1 DEF PromoStep, EditLimit, CreatePromo, TogglePromo, RenamePromo,
             DeletePromo, SetPromo, CheckoutTypeOK
<1>4. CASE UNCHANGED checkoutVars
  BY <1>4 DEF checkoutVars, CheckoutTypeOK
<1> QED BY <1>1, <1>2, <1>3, <1>4 DEF CheckoutNext, PostStep, OrderStep, PromoStep

-----------------------------------------------------------------------------
HandedParts == AnsweredAreOver /\ OneMaker /\ MakersOwn /\ PagesAreOut /\ HandedOutIsLive

\* A request that leaves every order alone: it does not become the maker of one, stays a
\* maker within its rights or is over, and answers "placed" only of an order with a page.
LEMMA OrdersUntouched ==
    ASSUME HandedInv, CheckoutTypeOK', NEW p \in Posts, purchase' = purchase, doubtful' = doubtful,
           \A q \in Posts \ {p} : post'[q] = post[q] /\ answer'[q] = answer[q],
           answer'[p] # "none" => post'[p].at = "over",
           Making(p)' => Making(p) /\ post'[p].key = post[p].key
                         /\ post[p].at = "charging" /\ post'[p].at \in {"storing", "failing"},
           answer'[p] = "placed" =>
               /\ post'[p].key = post[p].key
               /\ Order(p).status \notin {"none", "FAILED"} /\ HasPage(post[p].key)
    PROVE  HandedParts'
<1>1. AnsweredAreOver'
  BY DEF HandedInv, AnsweredAreOver
<1>2. OneMaker'
  BY DEF HandedInv, OneMaker, Making
<1>3. MakersOwn'
  <2> SUFFICES ASSUME NEW q \in Posts, Making(q)'
               PROVE  Rights(q)'
    BY DEF MakersOwn
  <2> QED BY DEF HandedInv, MakersOwn, Rights, Making, Order, HasPage
<1>4. PagesAreOut'
  BY DEF HandedInv, PagesAreOut, HasPage, Order
<1>5. HandedOutIsLive'
  BY DEF HandedInv, HandedOutIsLive, Order
<1> QED BY <1>1, <1>2, <1>3, <1>4, <1>5 DEF HandedParts

\* The request that creates the order of its key is the only one that makes it.
LEMMA CreateKeeps ==
    ASSUME HandedInv, CheckoutTypeOK', NEW p \in Posts, CreateOrder(p)
    PROVE  HandedParts'
<1> DEFINE k == post[p].key
<1>1. /\ post[p] \in PostRecord /\ k \in Keys
      /\ purchase \in [Keys -> PurchaseRecord]
  BY DEF HandedInv, CheckoutTypeOK, PostRecord
<1>2. /\ post'[p].at = IF post[p].method = "card" THEN "charging" ELSE "answering"
      /\ post'[p].key = k
      /\ \A q \in Posts \ {p} : post'[q] = post[q]
  BY ProceedTyped DEF CreateOrder, HandedInv
<1>3. /\ purchase'[k].status = "PENDING" /\ purchase'[k].method = post[p].method
      /\ ~purchase'[k].url
      /\ \A j \in Keys \ {k} : purchase'[j] = purchase[j]
      /\ purchase[k].status = "none"
  BY <1>1 DEF CreateOrder
<1>4. answer' = answer /\ doubtful' = doubtful /\ answer[p] = "none"
  BY DEF CreateOrder, HandedInv, AnsweredAreOver, CheckoutTypeOK
<1>5. \A q \in Posts : post[q].key \in Keys
  BY DEF HandedInv, CheckoutTypeOK, PostRecord
<1>6. \A q \in Posts : post[q].key = k => ~Making(q) /\ answer[q] # "placed"
  BY <1>3 DEF HandedInv, MakersOwn, Rights, Order, PagesAreOut
<1>7. AnsweredAreOver'
  BY <1>2, <1>4 DEF HandedInv, AnsweredAreOver
<1>8. OneMaker'
  BY <1>2, <1>6 DEF HandedInv, OneMaker, Making
<1>9. MakersOwn'
  <2> SUFFICES ASSUME NEW q \in Posts, Making(q)'
               PROVE  Rights(q)'
    BY DEF MakersOwn
  <2>1. CASE q = p
    <3>1. post[p].method \in {"card", "manual"}
      BY <1>1 DEF PostRecord, Methods
    <3> QED BY <2>1, <3>1, <1>2, <1>3 DEF Rights, Order, HasPage
  <2>2. CASE q # p
    <3>1. Making(q) /\ post[q].key # k
      BY <1>2, <1>6, <2>2 DEF Making
    <3> QED BY <1>2, <1>3, <1>4, <1>5, <2>2, <3>1 DEF HandedInv, MakersOwn, Rights, Order, HasPage
  <2> QED BY <2>1, <2>2
<1>10. PagesAreOut'
  <2>1. \A j \in Keys : purchase'[j].status = "PAID" => HasPage(j)'
    BY <1>3 DEF HandedInv, PagesAreOut, HasPage
  <2>2. ASSUME NEW q \in Posts, answer'[q] = "placed"
        PROVE  (Order(q).status # "none" /\ HasPage(post[q].key))'
    BY <1>2, <1>3, <1>4, <1>5, <1>6, <2>2 DEF HandedInv, PagesAreOut, HasPage, Order
  <2> QED BY <1>2, <1>4, <2>1, <2>2 DEF PagesAreOut
<1>11. HandedOutIsLive'
  BY <1>2, <1>3, <1>4, <1>5, <1>6 DEF HandedInv, HandedOutIsLive, Order
<1> QED BY <1>7, <1>8, <1>9, <1>10, <1>11 DEF HandedParts

\* A maker stores the page, or fails its order: nobody else makes that order.
LEMMA MakerKeeps ==
    ASSUME HandedInv, CheckoutTypeOK', NEW p \in Posts,
           StoreUrl(p) \/ StoreThrows(p) \/ MarkFailed(p)
    PROVE  HandedParts'
<1> DEFINE k == post[p].key
<1>1. /\ k \in Keys /\ purchase \in [Keys -> PurchaseRecord]
      /\ \A q \in Posts : post[q].key \in Keys
  BY DEF HandedInv, CheckoutTypeOK, PostRecord
<1>2. /\ Making(p) /\ Rights(p) /\ post[p].at # "answering" /\ answer[p] = "none"
      /\ post'[p].key = k
      /\ \A q \in Posts \ {p} : post'[q] = post[q] /\ answer'[q] = answer[q]
  BY ProceedTyped DEF StoreUrl, StoreThrows, MarkFailed, Reply, HandedInv, MakersOwn, Making,
                      AnsweredAreOver, CheckoutTypeOK
<1>3. \A q \in Posts \ {p} : post[q].key = k => ~Making(q)
  BY <1>2 DEF HandedInv, OneMaker
<1>4. \A j \in Keys \ {k} : purchase'[j] = purchase[j]
  BY <1>1 DEF StoreUrl, StoreThrows, MarkFailed
<1>5. /\ purchase'[k].method = purchase[k].method
      /\ purchase[k].url => purchase'[k].url
      /\ purchase'[k].status \in {purchase[k].status, "FAILED"}
      /\ doubtful \subseteq doubtful'
  BY <1>1 DEF StoreUrl, StoreThrows, MarkFailed, CheckoutTypeOK, PurchaseRecord
<1>6. \/ /\ post'[p].at = "answering" /\ purchase'[k].url
         /\ purchase'[k].status = purchase[k].status /\ answer'[p] = "none"
      \/ /\ post'[p].at = "failing" /\ answer'[p] = "none"
         /\ purchase'[k].status = purchase[k].status
         /\ purchase'[k].url => k \in doubtful'
      \/ /\ post'[p].at = "over" /\ answer'[p] = "failed"
         /\ post[p].at = "failing" /\ purchase'[k].url = purchase[k].url
  <2>1. CASE StoreUrl(p)
    BY <1>1, <1>2, <2>1, ProceedTyped DEF StoreUrl, HandedInv, CheckoutTypeOK, PurchaseRecord
  <2>2. CASE StoreThrows(p)
    <3>1. post'[p].at = "failing" /\ answer' = answer /\ post[p].at = "storing"
      BY <2>2, ProceedTyped DEF StoreThrows, HandedInv
    <3>2. ~purchase[k].url
      BY <1>2, <3>1 DEF Rights, Order
    <3>3. purchase'[k].status = purchase[k].status /\ (purchase'[k].url => k \in doubtful')
      BY <1>1, <2>2, <3>2 DEF StoreThrows, CheckoutTypeOK, PurchaseRecord
    <3> QED BY <1>2, <3>1, <3>3
  <2>3. CASE MarkFailed(p)
    <3>1. post'[p].at = "over" /\ post[p].at = "failing"
      BY <2>3, ProceedTyped DEF MarkFailed, Reply, HandedInv
    <3>2. answer'[p] = "failed"
      BY <2>3 DEF MarkFailed, Reply, HandedInv, CheckoutTypeOK
    <3>3. purchase'[k].url = purchase[k].url
      BY <1>1, <2>3 DEF MarkFailed, CheckoutTypeOK, PurchaseRecord
    <3> QED BY <3>1, <3>2, <3>3
  <2> QED BY <2>1, <2>2, <2>3
<1>7. AnsweredAreOver'
  BY <1>2, <1>6 DEF HandedInv, AnsweredAreOver
<1>8. OneMaker'
  BY <1>2, <1>3 DEF HandedInv, OneMaker, Making
<1>9. MakersOwn'
  <2> SUFFICES ASSUME NEW q \in Posts, Making(q)'
               PROVE  Rights(q)'
    BY DEF MakersOwn
  <2>1. CASE q = p
    BY <1>2, <1>5, <1>6, <2>1 DEF Rights, Order, HasPage, Making
  <2>2. CASE q # p
    <3>1. Making(q) /\ post[q].key # k
      BY <1>2, <1>3, <2>2 DEF Making
    <3> QED BY <1>1, <1>2, <1>4, <1>5, <2>2, <3>1 DEF HandedInv, MakersOwn, Rights, Order, HasPage
  <2> QED BY <2>1, <2>2
<1>10. PagesAreOut'
  <2>1. \A j \in Keys : purchase'[j].status = "PAID" => HasPage(j)'
    BY <1>4, <1>5 DEF HandedInv, PagesAreOut, HasPage
  <2>2. \A q \in Posts : answer'[q] = "placed" => q # p /\ answer[q] = "placed"
    BY <1>2, <1>6
  <2>3. ASSUME NEW q \in Posts, answer'[q] = "placed"
        PROVE  (Order(q).status # "none" /\ HasPage(post[q].key))'
    BY <1>1, <1>2, <1>4, <1>5, <2>2, <2>3 DEF HandedInv, PagesAreOut, HasPage, Order
  <2> QED BY <2>1, <2>3 DEF PagesAreOut
<1>11. HandedOutIsLive'
  <2> SUFFICES ASSUME NEW q \in Posts, answer'[q] = "placed", Order(q)'.status = "FAILED"
               PROVE  post'[q].key \in doubtful'
    BY DEF HandedOutIsLive
  <2>1. q # p /\ answer[q] = "placed" /\ post'[q] = post[q]
    BY <1>2, <1>6
  <2>2. CASE post[q].key # k
    BY <1>1, <1>4, <1>5, <2>1, <2>2 DEF HandedInv, HandedOutIsLive, Order
  <2>3. CASE post[q].key = k
    <3>1. purchase'[k].status = "FAILED" /\ purchase[k].status # "FAILED" /\ HasPage(k)
      BY <1>2, <2>1, <2>3 DEF HandedInv, PagesAreOut, Rights, Order
    <3> QED BY <1>2, <1>5, <1>6, <2>1, <2>3, <3>1 DEF Rights, Order, HasPage
  <2> QED BY <2>2, <2>3
<1> QED BY <1>7, <1>8, <1>9, <1>10, <1>11 DEF HandedParts

\* A request that only reads, answers, waits for Stripe or dies.
LEMMA ReaderKeeps ==
    ASSUME HandedInv, CheckoutTypeOK', NEW p \in Posts,
           PostStep(p), ~CreateOrder(p), ~StoreUrl(p), ~StoreThrows(p), ~MarkFailed(p)
    PROVE  HandedParts'
<1>1. post[p].at # "over" /\ answer[p] = "none"
  BY DEF PostStep, Submit, LookUpKey, PriceCart, EvaluateDiscount, KeyTaken, Charge, AnswerCreated,
         PostDies, HandedInv, AnsweredAreOver
<1>2. CheckoutTypeOK /\ post[p].key \in Keys
  BY DEF HandedInv, CheckoutTypeOK, PostRecord
<1>3. CASE \E j \in Keys, method \in Methods, coded \in BOOLEAN : Submit(p, j, method, coded)
  BY <1>1, <1>2, <1>3, OrdersUntouched DEF Submit, Making, CheckoutTypeOK
<1>4. CASE Charge(p)
  <2>1. /\ post'[p].at \in {"storing", "failing"} /\ post'[p].key = post[p].key
        /\ \A q \in Posts \ {p} : post'[q] = post[q]
    BY <1>2, <1>4, ProceedTyped DEF Charge
  <2> QED BY <1>1, <1>4, <2>1, OrdersUntouched DEF Charge, Making
<1>5. CASE PriceCart(p) \/ EvaluateDiscount(p) \/ KeyTaken(p) \/ PostDies(p)
  <2>1. /\ post'[p].at \in {"promo", "priced", "over"}
        /\ \A q \in Posts \ {p} : post'[q] = post[q]
    BY <1>2, <1>5, ProceedTyped
       DEF PriceCart, EvaluateDiscount, KeyTaken, PostDies, Reply, CheckoutTypeOK, PostRecord
  <2>2. /\ answer'[p] \in {"none", "refused", "error"}
        /\ answer'[p] # "none" => post'[p].at = "over"
        /\ \A q \in Posts \ {p} : answer'[q] = answer[q]
    BY <1>1, <1>2, <1>5, <2>1, ProceedTyped
       DEF PriceCart, EvaluateDiscount, KeyTaken, PostDies, Reply, CheckoutTypeOK
  <2> QED BY <1>5, <2>1, <2>2, OrdersUntouched
          DEF PriceCart, EvaluateDiscount, KeyTaken, PostDies, Making
<1>6. CASE AnswerCreated(p)
  <2>1. /\ post'[p].at = "over" /\ post'[p].key = post[p].key
        /\ \A q \in Posts \ {p} : post'[q] = post[q] /\ answer'[q] = answer[q]
    BY <1>2, <1>6, ProceedTyped DEF AnswerCreated, Reply, CheckoutTypeOK
  <2>2. Order(p).status \notin {"none", "FAILED"} /\ HasPage(post[p].key)
    BY <1>6 DEF AnswerCreated, HandedInv, MakersOwn, Making, Rights
  <2> QED BY <1>6, <2>1, <2>2, OrdersUntouched DEF AnswerCreated, Making
<1>7. CASE LookUpKey(p)
  <2>1. /\ post'[p].at \in {"cart", "over"} /\ post'[p].key = post[p].key
        /\ \A q \in Posts \ {p} : post'[q] = post[q]
    BY <1>2, <1>7, ProceedTyped DEF LookUpKey, Reply
  <2>2. /\ \A q \in Posts \ {p} : answer'[q] = answer[q]
        /\ answer'[p] # "none" => post'[p].at = "over"
    BY <1>1, <1>2, <1>7, ProceedTyped DEF LookUpKey, Reply, CheckoutTypeOK
  <2>3. ASSUME answer'[p] = "placed"
        PROVE  Order(p).status \notin {"none", "FAILED"} /\ HasPage(post[p].key)
    <3>1. Outcome(Order(p)) = "placed"
      BY <1>1, <1>2, <1>7, <2>3 DEF LookUpKey, Reply, CheckoutTypeOK
    <3>2. \/ Order(p).status = "PENDING" /\ Order(p).url
          \/ Order(p).status = "PAID"
      BY <3>1 DEF Outcome
    <3> QED BY <1>2, <3>2 DEF HandedInv, PagesAreOut, HasPage, Order
  <2> QED BY <1>7, <2>1, <2>2, <2>3, OrdersUntouched DEF LookUpKey, Making
<1> QED BY <1>3, <1>4, <1>5, <1>6, <1>7 DEF PostStep

\* What becomes of an order takes no page away and fails nothing.
LEMMA OrderKeeps ==
    ASSUME HandedInv, CheckoutTypeOK', NEW k \in Keys, OrderStep(k)
    PROVE  HandedParts'
<1>1. /\ post' = post /\ answer' = answer /\ doubtful' = doubtful
      /\ \A j \in Keys \ {k} : purchase'[j] = purchase[j]
      /\ \A q \in Posts : post[q].key \in Keys
  BY DEF OrderStep, SettlePurchase, ClosePending, SellerPrepares, RefundPurchase, SetStatus,
         HandedInv, CheckoutTypeOK, PostRecord
<1>2. /\ purchase'[k].status \notin {"none", "FAILED"} /\ purchase[k].status # "FAILED"
      /\ purchase'[k].method = purchase[k].method /\ purchase'[k].url = purchase[k].url
      /\ purchase'[k].status = "PAID" => HasPage(k)
  BY DEF OrderStep, SettlePurchase, ClosePending, SellerPrepares, RefundPurchase, SetStatus,
         HandedInv, CheckoutTypeOK, PurchaseRecord, HasPage
<1>3. AnsweredAreOver' /\ OneMaker'
  BY <1>1 DEF HandedInv, AnsweredAreOver, OneMaker, Making
<1>4. MakersOwn'
  BY <1>1, <1>2 DEF HandedInv, MakersOwn, Rights, Making, Order, HasPage
<1>5. PagesAreOut'
  BY <1>1, <1>2 DEF HandedInv, PagesAreOut, HasPage, Order
<1>6. HandedOutIsLive'
  BY <1>1, <1>2 DEF HandedInv, HandedOutIsLive, Order
<1> QED BY <1>3, <1>4, <1>5, <1>6 DEF HandedParts

\* The invariant of requests and orders is preserved by every step.
LEMMA HandedStep == HandedInv /\ [CheckoutNext]_checkoutVars => HandedInv'
<1> SUFFICES ASSUME HandedInv, [CheckoutNext]_checkoutVars
             PROVE  HandedInv'
  OBVIOUS
<1>1. CheckoutTypeOK'
  BY CheckoutTypeStep DEF HandedInv
<1>2. HandedParts'
  <2>1. ASSUME NEW p \in Posts, PostStep(p)
        PROVE  HandedParts'
    BY <1>1, <2>1, CreateKeeps, MakerKeeps, ReaderKeeps
  <2>2. ASSUME NEW k \in Keys, OrderStep(k)
        PROVE  HandedParts'
    BY <1>1, <2>2, OrderKeeps
  <2>3. CASE PromoStep \/ UNCHANGED checkoutVars
    <3>1. purchase' = purchase /\ post' = post /\ answer' = answer /\ doubtful' = doubtful
      BY <2>3 DEF PromoStep, EditLimit, CreatePromo, TogglePromo, RenamePromo, DeletePromo, SetPromo,
                  checkoutVars
    <3> QED BY <3>1 DEF HandedInv, HandedParts, AnsweredAreOver, OneMaker, MakersOwn, Rights,
               PagesAreOut, HandedOutIsLive, Making, Order, HasPage
  <2> QED BY <2>1, <2>2, <2>3 DEF CheckoutNext, PostStep, OrderStep, PromoStep
<1> QED BY <1>1, <1>2 DEF HandedInv, HandedParts

\* The inductive invariant of requests and the orders they make, for any number of both.
THEOREM CheckoutInvariant == CheckoutSpec => []HandedInv
<1> QED BY CheckoutStart, HandedStep, PTL DEF CheckoutSpec

\* An order that a request was told is placed is not failed by the request that made it,
\* however many retries overlap, unless the update that stored its page threw after it
\* committed.
THEOREM HandedOutIsLiveAlways == CheckoutSpec => []HandedOutIsLive
<1>1. HandedInv => HandedOutIsLive
  BY DEF HandedInv
<1> QED BY <1>1, CheckoutInvariant, PTL

-----------------------------------------------------------------------------
\* What is redeemed and what is promised stay within the limit.
PromisesFit == lax = {} => promo.uses + Cardinality(Awaiting) <= promo.limit

PricedHaveRoom == \A p \in Posts : post[p].at = "priced" /\ post[p].coded => post[p].room > 0

LimitInv == CheckoutTypeOK /\ PromisesFit /\ PricedHaveRoom

\* The orders that await payment with the code can be counted.
LEMMA AwaitingCounted ==
    IsFiniteSet(Awaiting) /\ Cardinality(Awaiting) \in Nat
BY CheckoutAssumption, FS_Subset, FS_CardinalityType, Awaiting \in SUBSET Keys DEF Awaiting

\* At first nothing is redeemed or promised.
LEMMA LimitStart == CheckoutInit => LimitInv
<1> SUFFICES ASSUME CheckoutInit PROVE LimitInv
  OBVIOUS
<1>1. CheckoutTypeOK
  BY CheckoutStart DEF HandedInv
<1>2. Awaiting = {}
  BY DEF CheckoutInit, Awaiting
<1>3. PromisesFit
  BY <1>2, FS_EmptySet, CheckoutAssumption DEF CheckoutInit, PromisesFit
<1>4. PricedHaveRoom
  BY DEF CheckoutInit, PricedHaveRoom
<1> QED BY <1>1, <1>3, <1>4 DEF LimitInv

\* A new order with the code takes room that is left, or goes on record.
LEMMA CreateFits ==
    ASSUME LimitInv, NEW p \in Posts, CreateOrder(p)
    PROVE  PromisesFit'
<1> DEFINE k == post[p].key
<1>1. /\ k \in Keys /\ post[p] \in PostRecord /\ purchase \in [Keys -> PurchaseRecord]
      /\ promo.uses \in Nat /\ promo.limit \in Int
  BY CheckoutAssumption DEF LimitInv, CheckoutTypeOK, PostRecord, PromoRecord
<1>2. SUFFICES ASSUME lax' = {}
               PROVE  promo'.uses + Cardinality(Awaiting') <= promo'.limit
  BY DEF PromisesFit
<1>3. lax = {} /\ promo' = promo
  BY <1>2 DEF CreateOrder
<1>4. CASE ~post[p].coded
  <2>1. Awaiting' = Awaiting
    BY <1>1, <1>4 DEF CreateOrder, Awaiting
  <2> QED BY <1>3, <2>1 DEF LimitInv, PromisesFit
<1>5. CASE post[p].coded
  <2>1. Awaiting' = Awaiting \cup {k}
    BY <1>1, <1>5 DEF CreateOrder, Awaiting
  <2>2. Cardinality(Awaiting') <= Cardinality(Awaiting) + 1
    BY <2>1, FS_AddElement, AwaitingCounted
  <2>3. Cardinality(Awaiting) < Room(promo)
    <3>1. \/ ~(Cardinality(Awaiting) >= Room(promo))
          \/ Awaiting = {} /\ Room(promo) = post[p].room
      BY <1>2, <1>5 DEF CreateOrder
    <3>2. post[p].room > 0
      BY <1>5 DEF CreateOrder, LimitInv, PricedHaveRoom
    <3> QED BY <1>1, <3>1, <3>2, FS_EmptySet, AwaitingCounted DEF Room, PostRecord
  <2>4. Cardinality(Awaiting') \in Nat
    BY <2>1, FS_AddElement, AwaitingCounted, FS_CardinalityType
  <2> QED BY <1>1, <1>3, <2>2, <2>3, <2>4, AwaitingCounted DEF Room
<1> QED BY <1>4, <1>5

\* An order that stops waiting gives its room back, or uses it.
LEMMA LeavesFit ==
    ASSUME LimitInv, NEW k \in Keys, OrderStep(k)
    PROVE  PromisesFit'
<1>1. /\ purchase \in [Keys -> PurchaseRecord]
      /\ promo.uses \in Nat /\ promo.limit \in Int
  BY CheckoutAssumption DEF LimitInv, CheckoutTypeOK, PromoRecord
<1>2. lax' = lax /\ purchase'[k].status # "PENDING"
  <2>1. lax' = lax
    BY DEF OrderStep, SettlePurchase, ClosePending, SellerPrepares, RefundPurchase
  <2>2. PICK s \in {"PAID", "EXPIRED", "CANCELLED", "PREPARING", "REFUNDED"} : SetStatus(k, s)
    BY DEF OrderStep, SettlePurchase, ClosePending, SellerPrepares, RefundPurchase
  <2>3. purchase'[k].status = s
    BY <1>1, <2>2 DEF SetStatus, PurchaseRecord
  <2> QED BY <2>1, <2>2, <2>3
<1>3. Awaiting' = Awaiting \ {k}
  BY <1>1, <1>2 DEF OrderStep, SettlePurchase, ClosePending, SellerPrepares, RefundPurchase,
                    SetStatus, Awaiting
<1>4. /\ Cardinality(Awaiting') = IF k \in Awaiting THEN Cardinality(Awaiting) - 1
                                  ELSE Cardinality(Awaiting)
  BY <1>3, FS_RemoveElement, AwaitingCounted
<1>5. CASE promo' = promo
  BY <1>1, <1>2, <1>4, <1>5, AwaitingCounted DEF LimitInv, PromisesFit
<1>6. CASE promo' # promo
  <2>1. k \in Awaiting /\ promo' = [promo EXCEPT !.uses = @ + 1]
    BY <1>6 DEF OrderStep, SettlePurchase, ClosePending, SellerPrepares, RefundPurchase, Awaiting
  <2>2. promo'.uses = promo.uses + 1 /\ promo'.limit = promo.limit
    BY <2>1 DEF LimitInv, CheckoutTypeOK, PromoRecord
  <2> QED BY <1>1, <1>2, <1>4, <2>1, <2>2, AwaitingCounted DEF LimitInv, PromisesFit
<1> QED BY <1>5, <1>6

\* Every step keeps redeemed and promised uses within the limit, or goes on record.
LEMMA LimitStep == LimitInv /\ [CheckoutNext]_checkoutVars => LimitInv'
<1> SUFFICES ASSUME LimitInv, [CheckoutNext]_checkoutVars
             PROVE  LimitInv'
  OBVIOUS
<1>1. CheckoutTypeOK /\ CheckoutTypeOK'
  BY CheckoutTypeStep DEF LimitInv
<1>2. PricedHaveRoom'
  <2>1. ASSUME NEW p \in Posts, EvaluateDiscount(p)
        PROVE  PricedHaveRoom'
    <3>1. CASE Redeemable
      <4>1. Room(promo) > 0
        BY <1>1, <3>1, CheckoutAssumption DEF Redeemable, Room, CheckoutTypeOK, PromoRecord
      <4> QED BY <1>1, <2>1, <3>1, <4>1
              DEF EvaluateDiscount, LimitInv, PricedHaveRoom, CheckoutTypeOK, PostRecord
    <3>2. CASE ~Redeemable
      BY <1>1, <2>1, <3>2 DEF EvaluateDiscount, Reply, Proceed, LimitInv, PricedHaveRoom,
         CheckoutTypeOK, PostRecord
    <3> QED BY <3>1, <3>2
  <2>2. ASSUME NEW p \in Posts, PostStep(p), ~EvaluateDiscount(p)
        PROVE  PricedHaveRoom'
    <3>1. /\ \A q \in Posts \ {p} : post'[q] = post[q]
          /\ post'[p].at = "priced" => ~post'[p].coded
      BY <1>1, <2>2, ProceedTyped
         DEF PostStep, Submit, LookUpKey, PriceCart, CreateOrder, KeyTaken, Charge, StoreUrl,
             StoreThrows, MarkFailed, AnswerCreated, PostDies, Reply, CheckoutTypeOK
    <3> QED BY <3>1 DEF LimitInv, PricedHaveRoom
  <2>3. CASE post' = post
    BY <2>3 DEF LimitInv, PricedHaveRoom
  <2> QED BY <2>1, <2>2, <2>3 DEF CheckoutNext, PostStep, SettlePurchase, ClosePending,
             SellerPrepares, RefundPurchase, EditLimit, CreatePromo, TogglePromo, RenamePromo,
             DeletePromo, SetPromo, checkoutVars
<1>3. PromisesFit'
  <2>1. ASSUME NEW p \in Posts, CreateOrder(p)
        PROVE  PromisesFit'
    BY <2>1, CreateFits
  <2>2. ASSUME NEW k \in Keys, OrderStep(k)
        PROVE  PromisesFit'
    BY <2>2, LeavesFit
  <2>3. ASSUME NEW p \in Posts, MarkFailed(p) \/ StoreUrl(p) \/ StoreThrows(p)
        PROVE  PromisesFit'
    <3>1. Awaiting' \in SUBSET Awaiting
      <4>1. post[p].key \in Keys /\ purchase \in [Keys -> PurchaseRecord]
        BY <1>1 DEF CheckoutTypeOK, PostRecord
      <4>2. \A j \in Keys : /\ purchase'[j].coded = purchase[j].coded
                            /\ purchase'[j].status \in {purchase[j].status, "FAILED"}
        BY <2>3, <4>1 DEF MarkFailed, StoreUrl, StoreThrows, PurchaseRecord
      <4> QED BY <4>2 DEF Awaiting
    <3>2. Cardinality(Awaiting') <= Cardinality(Awaiting) /\ Cardinality(Awaiting') \in Nat
      BY <3>1, FS_Subset, AwaitingCounted, FS_CardinalityType
    <3>3. lax' = lax /\ promo' = promo
      BY <2>3 DEF MarkFailed, StoreUrl, StoreThrows
    <3>4. promo.uses \in Nat /\ promo.limit \in Int
      BY <1>1, CheckoutAssumption DEF CheckoutTypeOK, PromoRecord
    <3> QED BY <3>2, <3>3, <3>4, AwaitingCounted DEF LimitInv, PromisesFit
  <2>4. CASE PromoStep
    <3>1. PICK d : SetPromo(d)
      BY <2>4 DEF PromoStep, EditLimit, CreatePromo, TogglePromo, RenamePromo, DeletePromo
    <3>2. Awaiting' = Awaiting
      BY <3>1 DEF SetPromo, Awaiting
    <3>3. d \in PromoRecord
      BY <1>1, <3>1 DEF SetPromo, CheckoutTypeOK
    <3>4. d.uses \in Nat /\ d.limit \in Int
      BY <3>3, CheckoutAssumption DEF PromoRecord
    <3>5. lax' = {} => ~(Room(d) < Cardinality(Awaiting))
      BY <3>1 DEF SetPromo
    <3> QED BY <3>1, <3>2, <3>4, <3>5, AwaitingCounted DEF SetPromo, Room, PromisesFit
  <2>5. CASE purchase' = purchase /\ promo' = promo /\ lax' = lax
    BY <2>5 DEF LimitInv, PromisesFit, Awaiting
  <2> QED BY <2>1, <2>2, <2>3, <2>4, <2>5
          DEF CheckoutNext, OrderStep, PromoStep, Submit, LookUpKey, PriceCart, EvaluateDiscount,
              KeyTaken, Charge, AnswerCreated, PostDies, checkoutVars
<1> QED BY <1>1, <1>2, <1>3 DEF LimitInv

\* A code is redeemed more often than its limit only if orders awaited payment together,
\* or the seller took back room that was promised, for any number of orders.
THEOREM LimitNeedsOverlapAlways == CheckoutSpec => []LimitNeedsOverlap
<1>1. LimitInv => LimitNeedsOverlap
  BY AwaitingCounted, CheckoutAssumption
     DEF LimitInv, PromisesFit, LimitNeedsOverlap, CheckoutTypeOK, PromoRecord
<1>2. CheckoutSpec => []LimitInv
  BY LimitStart, LimitStep, PTL DEF CheckoutSpec
<1> QED BY <1>1, <1>2, PTL

-----------------------------------------------------------------------------
(* The composition.                                                         *)

\* A step of the composition is one of one component; the others stand still.
LEMMA OpsStep ==
    ASSUME [OpsNext]_opsVars
    PROVE  /\ [PlanNext]_planVars /\ [StockNext]_stockVars /\ [BreakerNext]_breakerVars
           /\ [DisputeNext]_disputeVars /\ [AccountsNext]_accountVars
           /\ [MemberNext]_memberVars /\ [CheckoutNext]_checkoutVars
<1>1. CASE UNCHANGED opsVars
  BY <1>1 DEF opsVars
<1>2. CASE InPlan(PlanNext) \/ InPlans(PlanNext)
  BY <1>2 DEF InPlan, InPlans
<1>3. CASE InStock(StockNext) \/ InSales(StockNext)
  BY <1>3 DEF InStock, InSales
<1>4. CASE InRetries(CheckoutNext) \/ InCodes(CheckoutNext)
  BY <1>4 DEF InRetries, InCodes
<1> QED BY <1>1, <1>2, <1>3, <1>4 DEF OpsNext

\* The behaviours of the composition are behaviours of every component.
LEMMA OpsAreComponents ==
    OpsSpec => /\ PlanSpec /\ StockSpec /\ BreakerSpec /\ DisputeSpec
               /\ AccountsSpec /\ MemberSpec /\ CheckoutSpec
<1>1. OpsInit => /\ PlanInit /\ StockInit /\ BreakerInit /\ DisputeInit
                 /\ AccountsInit /\ MemberInit /\ CheckoutInit
  BY DEF OpsInit
<1> QED BY <1>1, OpsStep, PTL DEF OpsSpec, PlanSpec, StockSpec, BreakerSpec, DisputeSpec,
                                  AccountsSpec, MemberSpec, CheckoutSpec

\* Every variable of every component keeps its type, whichever of them moves.
THEOREM OpsTypeCorrect == OpsSpec => []OpsTypeOK
<1>1. /\ PlanTyped => PlanTypeOK
      /\ StockInv => StockTypeOK
      /\ BreakerInv => BreakerTypeOK
      /\ DisputeInv => DisputeTypeOK
      /\ AccountsInv => AccountsTypeOK
      /\ MemberInv => MemberTypeOK
      /\ HandedInv => CheckoutTypeOK
  BY DEF PlanTyped, StockInv, BreakerInv, DisputeInv, AccountsInv, MemberInv, HandedInv
<1>2. /\ PlanTypeOK /\ StockTypeOK /\ BreakerTypeOK /\ DisputeTypeOK
      /\ AccountsTypeOK /\ MemberTypeOK /\ CheckoutTypeOK
      => OpsTypeOK
  BY DEF OpsTypeOK
<1> QED BY <1>1, <1>2, OpsAreComponents, PlanTypeCorrect, StockInvariant, BreakerInvariant,
           DisputeInvariant, AccountsInvariant, MemberInvariant, CheckoutInvariant, PTL

=============================================================================
