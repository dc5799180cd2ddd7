------------------------------- MODULE Payouts -------------------------------
(***************************************************************************)
(* The money of one store: what its orders earned, the commission it owes  *)
(* on Cash App / Zelle orders (CommissionCharge rows), its withdrawals,    *)
(* the Stripe transfers and commission invoices that move the money.       *)
(*                                                                         *)
(* Every writer of a withdrawal runs under the user's advisory lock in a   *)
(* Serializable transaction: one atomic action.  What stays open between   *)
(* actions are the Stripe calls of send-transfer and of the invoice sweep. *)
(***************************************************************************)
EXTENDS Integers, Sequences, FiniteSetsExt

CONSTANTS
    Sales,          \* card orders whose money the platform holds (stripe_platform)
    Manual,         \* Cash App / Zelle orders: the platform is owed a commission
    Cents,          \* Order.netAmount of a sale, the commission of a manual order
    Withdrawals,    \* withdrawal rows that may be requested
    BankPayouts,    \* those of them whose payout method is a bank transfer
    Amounts,        \* net amounts a seller asks for
    Invoices,       \* Stripe invoices the sweep may create
    MinInvoice      \* COMMISSION_MIN_INVOICE_CENTS

Orders == Sales \cup Manual

ASSUME MoneyAssumption ==
    /\ Sales \cap Manual = {}
    /\ Cents \in [Orders -> Nat \ {0}]
    /\ BankPayouts \subseteq Withdrawals
    /\ Amounts \subseteq Nat \ {0}
    /\ MinInvoice \in Nat \ {0}

\* A store has finitely many rows in each table: its sums are defined.
ASSUME FiniteAssumption ==
    IsFiniteSet(Sales) /\ IsFiniteSet(Manual) /\ IsFiniteSet(Withdrawals)

\* collector holds settledByWithdrawalId and stripeInvoiceId, two columns, in one.
ASSUME CollectorAssumption ==
    /\ "none" \notin Withdrawals \cup Invoices
    /\ Withdrawals \cap Invoices = {}

VARIABLES
    order,      \* "pending", "paid" (any earned status) or "refunded"
    rows,       \* the CommissionCharge rows in order of creation
    charge,     \* CommissionCharge.status
    collector,  \* the withdrawal or the invoice stamped on a row
    status,     \* Withdrawal.status, "none" before the row exists
    net,        \* what the seller asked for and receives
    withheld,   \* Withdrawal.commissionSettledCents
    sender,     \* how far the send-transfer request of a withdrawal is
    transfer,   \* the Connect transfer at Stripe
    payoutId,   \* withdrawals whose providerPayoutId is stored
    bounced,    \* withdrawals whose transfer.reversed event was processed
    sweep,      \* what the running commission-settlement-sweep holds
    billed,     \* the lines of an invoice, at Stripe
    invoice,    \* the state of an invoice, at Stripe
    settledInv, \* invoices whose invoice.paid event was processed
    mishaps     \* history: the irregular steps the account went through

orderVars    == <<order, rows, charge, collector>>
requestVars  == <<net, withheld>>
transferVars == <<sender, transfer, payoutId, bounced>>
invoiceVars  == <<sweep, billed, invoice, settledInv>>
vars == <<orderVars, status, requestVars, transferVars, invoiceVars, mishaps>>

Row == [order: Manual, kind: {"SALE", "REFUND_CREDIT"}]
SaleRow(o) == [order |-> o, kind |-> "SALE"]
CreditRow(o) == [order |-> o, kind |-> "REFUND_CREDIT"]

ChargeStatuses == {"none", "OWED", "SETTLED", "INVOICED", "WAIVED"}
WithdrawalStatuses == {"none", "PENDING", "PROCESSING", "COMPLETED", "FAILED", "CANCELLED"}

NoSweep == [phase |-> "idle", rows |-> {}, invoice |-> "none"]

(* skipped  : a withdrawal left a credit OWED that it could not absorb       *)
(* released : a withdrawal was cancelled or failed with a transfer under way *)
(* reopened : send-transfer completed a withdrawal that was no longer claimed*)
(* stranded : an invoice bills rows that were not stamped with it            *)
(* early    : invoice.paid was processed before the rows were stamped        *)
Mishaps == {"skipped", "released", "reopened", "stranded", "early"}

ShapeOK ==
    /\ order \in [Orders -> {"pending", "paid", "refunded"}]
    /\ rows \in Seq(Row)
    /\ charge \in [Row -> ChargeStatuses]
    /\ collector \in [Row -> Withdrawals \cup Invoices \cup {"none"}]
    /\ status \in [Withdrawals -> WithdrawalStatuses]
    /\ sender \in [Withdrawals -> {"idle", "claimed", "sent", "failed"}]
    /\ transfer \in [Withdrawals -> {"none", "made", "reversed"}]
    /\ payoutId \subseteq Withdrawals
    /\ bounced \subseteq Withdrawals
    /\ sweep \in [phase: {"idle", "selected", "invoiced"}, rows: SUBSET Row,
                  invoice: Invoices \cup {"none"}]
    /\ billed \in [Invoices -> SUBSET Row]
    /\ invoice \in [Invoices -> {"none", "open", "paid"}]
    /\ settledInv \subseteq Invoices
    /\ mishaps \subseteq Mishaps

\* Neither the payout nor the gross debit of a withdrawal is negative.
AmountsOK ==
    /\ net \in [Withdrawals -> Nat]
    /\ withheld \in [Withdrawals -> Int]
    /\ \A w \in Withdrawals : net[w] + withheld[w] >= 0

\* Type invariant: the shapes, and amounts that are legal debits. A credit that
\* exceeds the payout must not turn the debit of a withdrawal into a deposit.
TypeOK == ShapeOK /\ AmountsOK

Init ==
    /\ order = [o \in Orders |-> "pending"]
    /\ rows = << >>
    /\ charge = [r \in Row |-> "none"]
    /\ collector = [r \in Row |-> "none"]
    /\ status = [w \in Withdrawals |-> "none"]
    /\ net = [w \in Withdrawals |-> 0]
    /\ withheld = [w \in Withdrawals |-> 0]
    /\ sender = [w \in Withdrawals |-> "idle"]
    /\ transfer = [w \in Withdrawals |-> "none"]
    /\ payoutId = {} /\ bounced = {}
    /\ sweep = NoSweep
    /\ billed = [i \in Invoices |-> {}]
    /\ invoice = [i \in Invoices |-> "none"]
    /\ settledInv = {} /\ mishaps = {}

NoteWhen(cond, m) == mishaps' = IF cond THEN mishaps \cup {m} ELSE mishaps

-----------------------------------------------------------------------------
(* What the balance formulas read.                                          *)

\* The sum of the amounts f of the rows in S.
Total(f, S) == MapThenSumSet(LAMBDA x : f[x], S)

RowCents == [r \in Row |-> IF r.kind = "SALE" THEN Cents[r.order] ELSE -Cents[r.order]]

\* Withdrawal.amount, the gross debit: net plus withheld commission.
Debit == [w \in Withdrawals |-> net[w] + withheld[w]]

OwedRows == {r \in Row : charge[r] = "OWED"}

\* Mutant of Reserving: a withdrawal being sent no longer counts.
ReservingWithoutProcessing == {"PENDING", "COMPLETED"}

\* The statuses in which a withdrawal counts against the balance.
Reserving == {"PENDING", "PROCESSING", "COMPLETED"}

Earned == Total(Cents, {o \in Sales : order[o] = "paid"})

Reserved == Total(Debit, {w \in Withdrawals : status[w] \in Reserving})

Owed == Total(RowCents, OwedRows)

\* computeBalance, then the route's wrapper.
Balance == IF Earned > Reserved THEN Earned - Reserved ELSE 0
Available == Balance - Owed

\* Mutant of Settleable: rows that are on an invoice are withheld as well.
SettleableOrInvoiced == {r \in Row : charge[r] \in {"OWED", "INVOICED"}}

\* The rows planCommissionSettlement reads.
Settleable == {r \in Row : charge[r] = "OWED"}

\* Mutant of Absorbs: credits are always applied.
AbsorbsAll(gross, cents) == TRUE

\* A credit that would overshoot the payout is skipped.
Absorbs(gross, cents) == gross + cents >= 0

\* planCommissionSettlement for a payout of n: FIFO, each row against the gross
\* of the rows settled before it.
IsSettlement(settled, n) ==
    \A j \in 1..Len(rows) :
        rows[j] \in settled <=>
            /\ rows[j] \in Settleable
            /\ LET before == {rows[k] : k \in 1..(j - 1)} \cap settled
               IN Absorbs(n + Total(RowCents, before), RowCents[rows[j]])

-----------------------------------------------------------------------------
(* Orders, as far as the money goes: the paid and refunded effects.         *)

AddRow(r) ==
    /\ rows' = Append(rows, r)
    /\ charge' = [charge EXCEPT ![r] = "OWED"]

SellerPaid(o) ==
    /\ order[o] = "pending"
    /\ order' = [order EXCEPT ![o] = "paid"]
    /\ IF o \in Manual
       THEN AddRow(SaleRow(o))
       ELSE UNCHANGED <<rows, charge>>
    /\ UNCHANGED <<collector, status, requestVars, transferVars, invoiceVars, mishaps>>

\* Mutant of Collected: a commission waived by an admin is credited back too.
CollectedOrWaived == {"SETTLED", "INVOICED", "WAIVED"}

\* The statuses of a SALE row whose refund earns the seller a credit.
Collected == {"SETTLED", "INVOICED"}

RefundOrder(o) ==
    /\ order[o] = "paid"
    /\ order' = [order EXCEPT ![o] = "refunded"]
    /\ CASE o \in Manual /\ charge[SaleRow(o)] \in Collected -> AddRow(CreditRow(o))
         [] o \in Manual /\ charge[SaleRow(o)] = "OWED" ->
                charge' = [charge EXCEPT ![SaleRow(o)] = "WAIVED"] /\ UNCHANGED rows
         [] OTHER -> UNCHANGED <<rows, charge>>
    /\ UNCHANGED <<collector, status, requestVars, transferVars, invoiceVars, mishaps>>

\* POST /api/admin/commission-charges/waive: the rows it read, if still OWED.
Waive ==
    /\ \E k \in 1..Len(rows) :
          LET waived == {rows[j] : j \in 1..k} \cap OwedRows IN
          /\ waived # {}
          /\ charge' = [r \in Row |-> IF r \in waived THEN "WAIVED" ELSE charge[r]]
    /\ UNCHANGED <<order, rows, collector, status, requestVars, transferVars,
                   invoiceVars, mishaps>>

-----------------------------------------------------------------------------
(* Withdrawals.                                                             *)

\* POST /api/withdrawals
Withdraw(w, n) ==
    /\ status[w] = "none"
    /\ n <= Available
    /\ \E settled \in SUBSET Settleable :
       /\ IsSettlement(settled, n)
       /\ withheld' = [withheld EXCEPT ![w] = Total(RowCents, settled)]
       /\ charge' = [r \in Row |-> IF r \in settled THEN "SETTLED" ELSE charge[r]]
       /\ collector' = [r \in Row |-> IF r \in settled THEN w ELSE collector[r]]
       /\ NoteWhen(settled # OwedRows, "skipped")
    /\ status' = [status EXCEPT ![w] = "PENDING"]
    /\ net' = [net EXCEPT ![w] = n]
    /\ UNCHANGED <<order, rows, transferVars, invoiceVars>>

\* Mutant of Cancellable: a paid withdrawal can be cancelled.
CancellableOrPaid == {"PENDING", "PROCESSING", "COMPLETED"}

Cancellable == {"PENDING", "PROCESSING"}

\* POST /api/admin/withdrawals/[id]/cancel
Cancel(w) ==
    /\ status[w] \in Cancellable
    /\ status' = [status EXCEPT ![w] = "CANCELLED"]
    /\ NoteWhen(status[w] = "PROCESSING", "released")
    /\ UNCHANGED <<orderVars, requestVars, transferVars, invoiceVars>>

\* POST /api/admin/withdrawals/[id]/complete: paid by hand.
Complete(w) ==
    /\ status[w] \in {"PENDING", "PROCESSING"}
    /\ status' = [status EXCEPT ![w] = "COMPLETED"]
    /\ UNCHANGED <<orderVars, requestVars, transferVars, invoiceVars, mishaps>>

\* POST /api/admin/withdrawals/[id]/send-transfer. Its tx1 re-checks PENDING ...
ClaimTransfer(w) ==
    /\ w \in BankPayouts /\ status[w] = "PENDING"
    /\ status' = [status EXCEPT ![w] = "PROCESSING"]
    /\ sender' = [sender EXCEPT ![w] = "claimed"]
    /\ UNCHANGED <<orderVars, requestVars, transfer, payoutId, bounced, invoiceVars, mishaps>>

\* ... calls Stripe, outside any transaction ...
TransferMade(w) ==
    /\ sender[w] = "claimed"
    /\ sender' = [sender EXCEPT ![w] = "sent"]
    /\ transfer' = [transfer EXCEPT ![w] = "made"]
    /\ UNCHANGED <<orderVars, status, requestVars, payoutId, bounced, invoiceVars, mishaps>>

\* ... whose answer may be an error although the transfer was made (a timeout) ...
TransferFails(w) ==
    /\ sender[w] = "claimed"
    /\ sender' = [sender EXCEPT ![w] = "failed"]
    /\ \E t \in {"none", "made"} : transfer' = [transfer EXCEPT ![w] = t]
    /\ UNCHANGED <<orderVars, status, requestVars, payoutId, bounced, invoiceVars, mishaps>>

\* ... and tx2 closes the row, whatever its status is by then.
CommitSent(w) ==
    /\ sender[w] = "sent"
    /\ sender' = [sender EXCEPT ![w] = "idle"]
    /\ status' = [status EXCEPT ![w] = "COMPLETED"]
    /\ payoutId' = payoutId \cup {w}
    /\ NoteWhen(status[w] # "PROCESSING", "reopened")
    /\ UNCHANGED <<orderVars, requestVars, transfer, bounced, invoiceVars>>

CommitFailed(w) ==
    /\ sender[w] = "failed"
    /\ sender' = [sender EXCEPT ![w] = "idle"]
    /\ status' = [status EXCEPT ![w] = "FAILED"]
    /\ NoteWhen(transfer[w] = "made" \/ status[w] # "PROCESSING", "released")
    /\ UNCHANGED <<orderVars, requestVars, transfer, payoutId, bounced, invoiceVars>>

\* The server dies between two of these steps: PROCESSING stays.
SenderDies(w) ==
    /\ sender[w] # "idle"
    /\ sender' = [sender EXCEPT ![w] = "idle"]
    /\ UNCHANGED <<orderVars, status, requestVars, transfer, payoutId, bounced,
                   invoiceVars, mishaps>>

\* Stripe (external) takes a transfer back.
StripeReverses(w) ==
    /\ transfer[w] = "made"
    /\ transfer' = [transfer EXCEPT ![w] = "reversed"]
    /\ UNCHANGED <<orderVars, status, requestVars, sender, payoutId, bounced,
                   invoiceVars, mishaps>>

\* transfer.reversed, once: matched on providerPayoutId, else dropped.
DeliverReversed(w) ==
    /\ transfer[w] = "reversed" /\ w \notin bounced
    /\ bounced' = bounced \cup {w}
    /\ status' = IF w \in payoutId THEN [status EXCEPT ![w] = "FAILED"] ELSE status
    /\ UNCHANGED <<orderVars, requestVars, sender, transfer, payoutId, invoiceVars, mishaps>>

-----------------------------------------------------------------------------
(* commission-settlement-sweep, one store, under a leader lease.            *)

SweepSelects ==
    /\ sweep = NoSweep
    /\ Owed >= MinInvoice
    /\ sweep' = [NoSweep EXCEPT !.phase = "selected", !.rows = OwedRows]
    /\ UNCHANGED <<orderVars, status, requestVars, transferVars, billed, invoice,
                   settledInv, mishaps>>

\* createCommissionInvoice.  Not idempotent: each call is a new invoice.
SweepInvoices(i) ==
    /\ sweep.phase = "selected" /\ invoice[i] = "none"
    /\ sweep' = [sweep EXCEPT !.phase = "invoiced", !.invoice = i]
    /\ billed' = [billed EXCEPT ![i] = sweep.rows]
    /\ invoice' = [invoice EXCEPT ![i] = "open"]
    /\ UNCHANGED <<orderVars, status, requestVars, transferVars, settledInv, mishaps>>

\* Mutant of Stampable: the update is not guarded by status = 'OWED'.
StampableAlways(r) == TRUE

Stampable(r) == charge[r] = "OWED"

\* The stamp: only rows that are still OWED.
SweepMarks ==
    /\ sweep.phase = "invoiced"
    /\ LET stamped == {r \in sweep.rows : Stampable(r)} IN
       /\ charge' = [r \in Row |-> IF r \in stamped THEN "INVOICED" ELSE charge[r]]
       /\ collector' = [r \in Row |-> IF r \in stamped THEN sweep.invoice ELSE collector[r]]
       /\ mishaps' = mishaps \cup (IF stamped # sweep.rows THEN {"stranded"} ELSE {})
                             \cup (IF sweep.invoice \in settledInv THEN {"early"} ELSE {})
    /\ sweep' = NoSweep
    /\ UNCHANGED <<order, rows, status, requestVars, transferVars, billed, invoice, settledInv>>

\* The server dies, or Stripe throws, maybe after the invoice was created.
SweepStops ==
    /\ sweep # NoSweep
    /\ sweep' = NoSweep
    /\ NoteWhen(sweep.phase = "invoiced", "stranded")
    /\ UNCHANGED <<orderVars, status, requestVars, transferVars, billed, invoice, settledInv>>

\* Stripe (external) charges the store's card.
InvoicePaid(i) ==
    /\ invoice[i] = "open"
    /\ invoice' = [invoice EXCEPT ![i] = "paid"]
    /\ UNCHANGED <<orderVars, status, requestVars, transferVars, sweep, billed,
                   settledInv, mishaps>>

\* Mutant of SettledBy: the update looks for rows that are still OWED.
OwedSettledBy(i) == {r \in Row : collector[r] = i /\ charge[r] = "OWED"}

\* The rows settleInvoicedCommission updates.
SettledBy(i) == {r \in Row : collector[r] = i /\ charge[r] = "INVOICED"}

DeliverInvoicePaid(i) ==
    /\ invoice[i] = "paid" /\ i \notin settledInv
    /\ settledInv' = settledInv \cup {i}
    /\ charge' = [r \in Row |-> IF r \in SettledBy(i) THEN "SETTLED" ELSE charge[r]]
    /\ UNCHANGED <<order, rows, collector, status, requestVars, transferVars, sweep,
                   billed, invoice, mishaps>>

-----------------------------------------------------------------------------

Store ==
    \/ \E o \in Orders : SellerPaid(o) \/ RefundOrder(o)
    \/ Waive

Withdrawal(w) ==
    \/ \E n \in Amounts : Withdraw(w, n)
    \/ Cancel(w) \/ Complete(w)
    \/ ClaimTransfer(w) \/ TransferMade(w) \/ TransferFails(w)
    \/ CommitSent(w) \/ CommitFailed(w) \/ SenderDies(w)
    \/ StripeReverses(w) \/ DeliverReversed(w)

Sweep == SweepSelects \/ SweepMarks \/ SweepStops

Invoice(i) == SweepInvoices(i) \/ InvoicePaid(i) \/ DeliverInvoicePaid(i)

Next ==
    \/ Store
    \/ \E w \in Withdrawals : Withdrawal(w)
    \/ Sweep
    \/ \E i \in Invoices : Invoice(i)

Spec == Init /\ [][Next]_vars

-----------------------------------------------------------------------------
(* Properties.                                                              *)

\* No overdraft: what withdrawals hold, commission included, never exceeds what
\* the store was ever paid, however requests, transfers, cancellations, refunds
\* and the sweep interleave - unless a credit was skipped, or send-transfer
\* completed a withdrawal that had been cancelled meanwhile.
ReservedWithinEarned ==
    mishaps \cap {"skipped", "reopened"} = {}
        => Reserved <= Total(Cents, {o \in Sales : order[o] # "pending"})

\* Money that left by a transfer stays debited: the withdrawal is PROCESSING or
\* COMPLETED, unless it was cancelled while claimed or Stripe's answer was lost.
TransferIsReserved ==
    \A w \in Withdrawals : transfer[w] = "made" /\ "released" \notin mishaps
                              => status[w] \in {"PROCESSING", "COMPLETED"}

\* commissionSettledCents is the sum of the rows stamped with the withdrawal,
\* whatever the sweep, the waiver and the refunds do to the ledger meanwhile.
SettlementAddsUp ==
    \A w \in Withdrawals :
        withheld[w] = Total(RowCents, {r \in Row : collector[r] = w /\ charge[r] = "SETTLED"})

\* A commission row is not collected twice, by a withdrawal and by an invoice
\* or by two invoices, unless the sweep left an invoice behind whose rows it
\* did not stamp.
CollectedOnce ==
    "stranded" \notin mishaps =>
        \A r \in Row : \A i \in Invoices :
            r \in billed[i] /\ invoice[i] = "paid"
                => /\ collector[r] = i \/ (r \in sweep.rows /\ sweep.invoice = i)
                   /\ \A j \in Invoices \ {i} : r \notin billed[j]

\* A seller is credited for a refunded order exactly when its commission had
\* been collected before the refund.
CreditMirrorsRefund ==
    \A o \in Manual :
        LET sale == charge[SaleRow(o)]
            credit == charge[CreditRow(o)]
        IN /\ credit # "none" => order[o] = "refunded" /\ sale \in {"SETTLED", "INVOICED"}
           /\ order[o] = "refunded" /\ credit = "none" => sale = "WAIVED"

\* A row that was settled or waived never changes again, and an invoiced row
\* can only be settled: sweep, waiver, withdrawal and refund race for OWED rows.
ResolvedStaysResolved ==
    [][\A r \in Row :
         /\ charge[r] \in {"SETTLED", "WAIVED"} => UNCHANGED <<charge[r], collector[r]>>
         /\ charge[r] = "INVOICED" => charge'[r] \in {"INVOICED", "SETTLED"}]_vars

\* Once invoice.paid was processed the rows stamped with the invoice are
\* settled, unless it was processed before they were stamped.
PaidInvoiceIsSettled ==
    "early" \notin mishaps =>
        \A i \in settledInv, r \in Row : collector[r] = i => charge[r] = "SETTLED"

-----------------------------------------------------------------------------
(* What the store's account shows of each order.                            *)

AccountStatus(s) == IF s \in {"SETTLED", "INVOICED"} THEN "COLLECTED" ELSE s

Account(o) == INSTANCE OrderAccount WITH
    owes <- o \in Manual,
    money <- order[o],
    commission <- IF o \in Manual THEN AccountStatus(charge[SaleRow(o)]) ELSE "none",
    credited <- o \in Manual /\ charge[CreditRow(o)] # "none"

AccountsStep == \A o \in Orders : [Account(o)!Next]_(Account(o)!accountVars)

\* Refinement of OrderAccount, order by order: whichever of withdrawals, sweep,
\* invoices, waiver and refund reaches a commission first, it is collected or
\* waived once, and the refund of a collected one, and of no other, is credited.
KeepsAccounts == (\A o \in Orders : Account(o)!Init) /\ [][AccountsStep]_vars

-----------------------------------------------------------------------------
(* What the repository says of itself and the code does not do.             *)

\* commission/owed.ts:45 "the balance guard already proved netAmount <= base -
\* owed, so netAmount + owed <= base": no withdrawal debits more than the base.
DebitWithinBalance ==
    [][\A w \in Withdrawals : status[w] = "none" /\ status'[w] = "PENDING"
            => net'[w] + withheld'[w] <= Balance]_vars

\* schema.prisma:503 "Collected either by withholding it from the merchant's next
\* withdrawal (status OWED -> SETTLED": a row settled by a withdrawal is withheld.
SettledIsWithheld ==
    \A r \in Row : charge[r] = "SETTLED" /\ collector[r] \in Withdrawals
                      => status[collector[r]] \in Reserving
=============================================================================
