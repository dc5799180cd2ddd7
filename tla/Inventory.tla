------------------------------- MODULE Inventory -------------------------------
(***************************************************************************)
(* The stock of one item (a product, or one variant of it), its            *)
(* StockMovement ledger and its low-stock alerts.  Sales, refunds and the  *)
(* inventory page are Serializable transactions; the product form is a     *)
(* Read Committed one that reads the quantity before it writes it.         *)
(***************************************************************************)
EXTENDS Integers

CONSTANTS
    Sales,          \* orders that buy the item
    Forms,          \* product form submissions in flight
    MaxThreshold,   \* bound: low-stock thresholds
    MaxStock,       \* bound: quantities, and how far edits may drift
    MaxAlerts       \* bound: alert events waiting in the outbox

ASSUME InventoryAssumption ==
    /\ MaxThreshold \in Nat
    /\ MaxStock \in Nat \ {0}
    /\ MaxAlerts \in Nat \ {0}

VARIABLES
    isVariant,  \* the item is a ProductVariant; fixed
    stock,      \* Product.quantity or ProductVariant.quantity
    ledger,     \* initial quantity plus the deltas of its StockMovement rows
    threshold,  \* the effective low-stock threshold
    notified,   \* lowStockNotifiedAt is set
    alerts,     \* low_stock / out_of_stock events waiting in the outbox
    sale,       \* each order
    form,       \* each form submission
    told,       \* history: an alert was sent in the current low-stock episode
    muted,      \* history: the current stamp outlived its low-stock episode
    drift       \* history: writes that did not go through a consistent ledger row

stockVars == <<isVariant, stock, ledger, threshold, notified, alerts, sale, form,
               told, muted, drift>>

Quantities == 0..MaxStock
Thresholds == 0..MaxThreshold

\* A delta of the inventory page has no floor: stock may go negative; bound: by one.
Levels == (-1)..MaxStock

SaleRecord == [at: {"none", "pending", "paid", "refunded"}, size: Quantities]
FormRecord == [at: {"idle", "read", "inTx", "over"}, seen: Int, limit: Thresholds,
               to: Quantities]

StockTypeOK ==
    /\ isVariant \in BOOLEAN
    /\ stock \in Levels /\ ledger \in Int
    /\ threshold \in Thresholds
    /\ notified \in BOOLEAN
    /\ alerts \in 0..MaxAlerts
    /\ sale \in [Sales -> SaleRecord]
    /\ form \in [Forms -> FormRecord]
    /\ told \in BOOLEAN /\ muted \in BOOLEAN
    /\ drift \subseteq {"form", "variant"}

Low(n) == n <= threshold

StockInit ==
    /\ isVariant \in BOOLEAN
    /\ stock \in Quantities /\ ledger = stock
    /\ threshold \in Thresholds
    /\ notified = FALSE /\ alerts = 0
    /\ sale = [o \in Sales |-> [at |-> "none", size |-> 0]]
    /\ form = [f \in Forms |-> [at |-> "idle", seen |-> 0, limit |-> 0, to |-> 0]]
    /\ told = FALSE /\ muted = FALSE /\ drift = {}

\* A write of the quantity: the alert is re-armed when stock recovers above the limit
\* that was read.
SetStock(n, limit) ==
    /\ stock' = n
    /\ notified' = (notified /\ n <= limit)
    /\ told' = (told /\ Low(n) /\ Low(stock))
    /\ muted' = (notified' /\ (muted \/ (limit # threshold /\ ~Low(n))))

\* applyStockChange: the quantity and the ledger row, from the quantity it read.
ApplyStockChange(read, limit, n) ==
    /\ SetStock(n, limit)
    /\ ledger' = ledger + (n - read)

-----------------------------------------------------------------------------
\* POST /api/orders refuses what is not in stock, and reserves nothing.
PlaceOrder(o, n) ==
    /\ sale[o].at = "none"
    /\ n > 0 /\ n <= stock
    /\ sale' = [sale EXCEPT ![o] = [at |-> "pending", size |-> n]]
    /\ UNCHANGED <<isVariant, stock, ledger, threshold, notified, alerts, form, told, muted, drift>>

Floor(n) == IF n < 0 THEN 0 ELSE n

\* Mutant of PayOrder: the ledger row has the ordered quantity, the stock is floored.
PayOrderInFull(o) ==
    /\ sale[o].at = "pending"
    /\ SetStock(Floor(stock - sale[o].size), threshold)
    /\ ledger' = ledger - sale[o].size
    /\ sale' = [sale EXCEPT ![o].at = "paid"]
    /\ UNCHANGED <<isVariant, threshold, alerts, form, drift>>

\* applyOrderPaidEffects: a SALE floored at zero, and an alert when it crosses zero
\* or the threshold.
PayOrder(o) ==
    LET after == Floor(stock - sale[o].size)
        crossed == (stock > 0 /\ after = 0) \/ (after > 0 /\ Low(after) /\ ~Low(stock)) IN
    /\ sale[o].at = "pending"
    /\ ApplyStockChange(stock, threshold, after)
    /\ sale' = [sale EXCEPT ![o].at = "paid"]
    /\ alerts' = IF crossed THEN alerts + 1 ELSE alerts
    /\ alerts' <= MaxAlerts
    /\ UNCHANGED <<isVariant, threshold, form, drift>>

\* applyOrderRefundedEffects: the ordered quantity goes back.
RefundOrder(o) ==
    /\ sale[o].at = "paid"
    /\ stock + sale[o].size <= MaxStock
    /\ ApplyStockChange(stock, threshold, stock + sale[o].size)
    /\ sale' = [sale EXCEPT ![o].at = "refunded"]
    /\ UNCHANGED <<isVariant, threshold, alerts, form, drift>>

\* POST /api/inventory/adjust, with a delta or a new quantity.
AdjustInventory(n) ==
    /\ ApplyStockChange(stock, threshold, n)
    /\ UNCHANGED <<isVariant, threshold, alerts, sale, form, drift>>

\* PATCH of lowStockThreshold: the stamp stays as it is.
EditThreshold(t) ==
    /\ t # threshold
    /\ threshold' = t
    /\ told' = (told /\ stock <= t)
    /\ muted' = (notified /\ (muted \/ stock > t))
    /\ UNCHANGED <<isVariant, stock, ledger, notified, alerts, sale, form, drift>>

(* PATCH /api/products/[id] with a quantity, on a product.                   *)

ReadProduct(f, n) ==
    /\ ~isVariant /\ form[f].at = "idle"
    /\ form' = [form EXCEPT ![f] = [at |-> "read", seen |-> stock, limit |-> threshold, to |-> n]]
    /\ UNCHANGED <<isVariant, stock, ledger, threshold, notified, alerts, sale, told, muted, drift>>

\* The quantity is as the form saw it before the transaction: nothing to write.
SkipUnchanged(f) ==
    /\ form[f].at = "read" /\ form[f].to = form[f].seen
    /\ form' = [form EXCEPT ![f].at = "over"]
    /\ UNCHANGED <<isVariant, stock, ledger, threshold, notified, alerts, sale, told, muted, drift>>

\* With other fields in the form the row is updated, so locked, first.
WriteLocked(f) ==
    /\ form[f].at = "read" /\ form[f].to # form[f].seen
    /\ ApplyStockChange(stock, threshold, form[f].to)
    /\ form' = [form EXCEPT ![f].at = "over"]
    /\ UNCHANGED <<isVariant, threshold, alerts, sale, drift>>

\* Without, readState is a plain read and a sale may commit before the update.
ReadInTransaction(f) ==
    /\ form[f].at = "read" /\ form[f].to # form[f].seen
    /\ form' = [form EXCEPT ![f].at = "inTx", ![f].seen = stock, ![f].limit = threshold]
    /\ UNCHANGED <<isVariant, stock, ledger, threshold, notified, alerts, sale, told, muted, drift>>

WriteUnlocked(f) ==
    /\ form[f].at = "inTx"
    /\ ApplyStockChange(form[f].seen, form[f].limit, form[f].to)
    /\ form' = [form EXCEPT ![f].at = "over"]
    /\ drift' = IF form[f].seen # stock THEN drift \cup {"form"} ELSE drift
    /\ UNCHANGED <<isVariant, threshold, alerts, sale>>

\* PATCH /api/products/[id]/variants/[variantId]: the quantity only, no ledger row and
\* no re-arming.
EditVariant(n) ==
    /\ isVariant /\ n # stock
    /\ n - ledger \in -MaxStock..MaxStock
    /\ stock' = n
    /\ told' = (told /\ Low(n) /\ Low(stock))
    /\ muted' = (notified /\ (muted \/ ~Low(n)))
    /\ drift' = drift \cup {"variant"}
    /\ UNCHANGED <<isVariant, ledger, threshold, notified, alerts, sale, form>>

(* Alerts.                                                                   *)

\* Mutant of SweepLowStock: items that are out of stock are skipped.
SweepInStock ==
    /\ ~notified /\ Low(stock) /\ stock > 0
    /\ alerts < MaxAlerts
    /\ alerts' = alerts + 1
    /\ UNCHANGED <<isVariant, stock, ledger, threshold, notified, sale, form, told, muted, drift>>

\* sweepLowStock.
SweepLowStock ==
    /\ ~notified /\ Low(stock)
    /\ alerts < MaxAlerts
    /\ alerts' = alerts + 1
    /\ UNCHANGED <<isVariant, stock, ledger, threshold, notified, sale, form, told, muted, drift>>

\* The dispatcher sends the notification and stamps the item, whatever its
\* stock is by now.
DispatchAlert ==
    /\ alerts > 0
    /\ alerts' = alerts - 1
    /\ notified' = TRUE
    /\ told' = Low(stock)
    /\ muted' = (muted \/ ~Low(stock))
    /\ UNCHANGED <<isVariant, stock, ledger, threshold, sale, form, drift>>

-----------------------------------------------------------------------------
StockNext ==
    \/ \E o \in Sales : PayOrder(o) \/ RefundOrder(o) \/ \E n \in Quantities : PlaceOrder(o, n)
    \/ \E n \in Levels : AdjustInventory(n)
    \/ \E n \in Quantities : EditVariant(n)
    \/ \E t \in Thresholds : EditThreshold(t)
    \/ \E f \in Forms :
         \/ \E n \in Quantities : ReadProduct(f, n)
         \/ SkipUnchanged(f) \/ WriteLocked(f) \/ ReadInTransaction(f) \/ WriteUnlocked(f)
    \/ SweepLowStock \/ DispatchAlert

StockSpec == StockInit /\ [][StockNext]_stockVars

\* The daily sweep and the outbox dispatcher keep running.
StockFairness == WF_stockVars(SweepLowStock) /\ WF_stockVars(DispatchAlert)

StockFairSpec == StockSpec /\ StockFairness

-----------------------------------------------------------------------------
\* The quantity is the sum of its ledger rows: clamped sales, refunds, adjustments
\* and locked form writes keep it, only a form that raced another write or an edited
\* variant can break it.
LedgerMatchesStock == drift = {} => stock = ledger

\* A race on a product costs the ledger, never the alert: the item is re-armed
\* whenever stock is above the threshold, unless the stamp came after the recovery, or
\* a variant edit or a lower threshold, which do not touch the stamp, ended the episode.
RearmedWhenRecovered ==
    ~Low(stock) /\ notified => muted

\* Liveness: an item that runs low is announced, or recovers; only a stamp that outlived
\* an earlier episode can silence it.
LowIsAnnounced ==
    Low(stock) ~> told \/ ~Low(stock) \/ muted
=============================================================================
