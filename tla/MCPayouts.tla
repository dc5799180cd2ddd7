------------------------------ MODULE MCPayouts ------------------------------
(* Instances of Payouts for TLC: one seller, amounts of a few cents.         *)
EXTENDS Payouts

CONSTANTS o1, m1, w1, w2, i1, i2

OneSale == {o1}
OneManual == {m1}
TwoWithdrawals == {w1, w2}
OneByBank == {w1}
OneInvoice == {i1}
TwoInvoices == {i1, i2}
\* The sale earns 3, the commission of m1 is 2.
Prices == [o \in Orders |-> IF o \in Sales THEN 3 ELSE 2]
\* Bound: with 1 a commission still fits beside it, 3 takes all.
AskedAmounts == {1, 3}
==============================================================================
