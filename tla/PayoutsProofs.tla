---------------------------- MODULE PayoutsProofs ----------------------------
(***************************************************************************)
(* Proofs about Payouts for every set of orders, withdrawals and invoices  *)
(* and every price: the shapes, the ledger, the sums, the balance, and the *)
(* account of each order (OrderAccount).                                   *)
(***************************************************************************)
EXTENDS Payouts, FiniteSetTheorems, TLAPS

-----------------------------------------------------------------------------
(* Totals.  The induction theorems of the library take an operator; these     *)
(* lemmas take the set of counterexamples instead and its least element.      *)

\* The recursive function that the fold behind Total evaluates.
Pick(s) == CHOOSE x \in s : TRUE
Partial(f, S, g) == [s \in SUBSET S |-> IF s = {} THEN 0 ELSE f[Pick(s)] + g[s \ {Pick(s)}]]
Sums(f, S) == CHOOSE g : g = Partial(f, S, g)

\* The community fold is the recursive function Sums.
LEMMA TotalIsSums ==
  ASSUME NEW f, NEW S
  PROVE Total(f, S) = Sums(f, S)[S]
BY DEF Total, MapThenSumSet, MapThenFoldSet, Sums, Partial, Pick

\* Induction over the naturals for a set of them, from the least number outside.
LEMMA NatInduct ==
  ASSUME NEW T \in SUBSET Nat, 0 \in T, \A n \in T : n + 1 \in T
  PROVE  T = Nat
<1> DEFINE R == {p \in Nat \X Nat : p[1] < p[2]}
<1>1. IsWellFoundedOn(R, Nat)
  BY NatLessThanWellFounded DEF OpToRel
<1>2. \A m, n \in Nat : m < n => <<m, n>> \in R
  OBVIOUS
<1> HIDE DEF R
<1> SUFFICES ASSUME Nat \ T # {} PROVE FALSE
  OBVIOUS
<1>3. PICK n \in Nat \ T : \A m \in Nat \ T : ~ (<<m, n>> \in R)
  BY <1>1, WFMin
<1>4. n # 0 /\ n - 1 \in Nat
  OBVIOUS
<1>5. n - 1 \notin T
  BY <1>4
<1>6. n - 1 < n
  BY <1>4
<1>7. <<n - 1, n>> \in R
  BY <1>2, <1>4, <1>6
<1> QED
  BY <1>3, <1>4, <1>5, <1>7

\* Induction over the subsets of a finite set, from a smallest one outside T.
LEMMA SubsetInduct ==
  ASSUME NEW S, IsFiniteSet(S), NEW T,
         \A U \in SUBSET S : (\A V \in SUBSET U : V # U => V \in T) => U \in T
  PROVE  \A U \in SUBSET S : U \in T
<1> DEFINE R == StrictSubsetOrdering(S)
           Bad == {U \in SUBSET S : U \notin T}
<1>1. IsWellFoundedOn(R, SUBSET S)
  BY FS_StrictSubsetOrderingWellFounded, FS_FiniteSubsetsOfFinite
<1>2. \A V, U \in SUBSET S : V \subseteq U /\ V # U => <<V, U>> \in R
  BY DEF StrictSubsetOrdering
<1> HIDE DEF R
<1> SUFFICES ASSUME Bad # {} PROVE FALSE
  OBVIOUS
<1>3. PICK U \in Bad : \A V \in Bad : ~ (<<V, U>> \in R)
  <2>1. Bad \subseteq SUBSET S
    OBVIOUS
  <2> HIDE DEF Bad
  <2> QED
    BY <1>1, <2>1, WFMin
<1>4. ASSUME NEW V \in SUBSET U, V # U PROVE V \in T
  <2>1. V \in SUBSET S /\ U \in SUBSET S
    OBVIOUS
  <2>2. <<V, U>> \in R
    BY <1>2, <1>4, <2>1
  <2> QED
    BY <1>3, <2>1, <2>2
<1> QED
  BY <1>3, <1>4

\* The element picked from a non-empty set is in it; without it the set is smaller.
LEMMA PickIn ==
  ASSUME NEW S, IsFiniteSet(S), NEW s \in SUBSET S, s # {}
  PROVE  /\ Pick(s) \in s
         /\ IsFiniteSet(s) /\ IsFiniteSet(s \ {Pick(s)})
         /\ Cardinality(s) \in Nat
         /\ Cardinality(s \ {Pick(s)}) = Cardinality(s) - 1
         /\ s \ {Pick(s)} \in SUBSET s /\ s \ {Pick(s)} # s
<1>1. Pick(s) \in s
  BY DEF Pick
<1>2. IsFiniteSet(s)
  BY FS_Subset
<1> QED
  BY <1>1, <1>2, FS_CardinalityType, FS_RemoveElement

\* Some function satisfies the recursive equation: one for the sets of n elements
\* gives one for those of n + 1.
LEMMA SumsExist ==
  ASSUME NEW f, NEW S, IsFiniteSet(S)
  PROVE  Sums(f, S) = Partial(f, S, Sums(f, S))
<1> DEFINE Small(n) == {s \in SUBSET S : Cardinality(s) <= n}
           Def(n, g) == [s \in Small(n) |-> IF s = {} THEN 0 ELSE f[Pick(s)] + g[s \ {Pick(s)}]]
           T == {n \in Nat : \E g : g = Def(n, g)}
<1>0. \A s \in SUBSET S : Cardinality(s) \in Nat /\ (Cardinality(s) = 0 <=> s = {})
  BY FS_Subset, FS_CardinalityType, FS_EmptySet
<1>1. 0 \in T
  <2>1. Small(0) = {{}}
    BY <1>0
  <2>2. [s \in Small(0) |-> 0] = Def(0, [s \in Small(0) |-> 0])
    BY <2>1
  <2> QED
    BY <2>2
<1>2. \A n \in T : n + 1 \in T
  <2> SUFFICES ASSUME NEW n \in Nat, NEW g, g = Def(n, g)
               PROVE  \E h : h = Def(n + 1, h)
    <3> HIDE DEF Def
    <3> QED
      OBVIOUS
  <2> DEFINE h == Def(n + 1, g)
  <2>2. \A s \in Small(n) : s \in Small(n + 1)
    BY <1>0
  <2>3. \A s \in Small(n) : h[s] = g[s]
    BY <2>2
  <2>4. ASSUME NEW s \in Small(n + 1), s # {} PROVE s \ {Pick(s)} \in Small(n)
    <3>1. /\ s \ {Pick(s)} \in SUBSET s /\ Cardinality(s) \in Nat
          /\ Cardinality(s \ {Pick(s)}) = Cardinality(s) - 1
      BY <2>4, PickIn
    <3> QED
      BY <3>1
  <2> HIDE DEF Small
  <2>5. h = Def(n + 1, h)
    BY <2>3, <2>4
  <2> QED
    BY <2>5
<1>3. T = Nat
  <2> HIDE DEF Def, Small
  <2> QED
    BY <1>1, <1>2, NatInduct
<1>4. Cardinality(S) \in Nat /\ Small(Cardinality(S)) = SUBSET S
  BY FS_CardinalityType, FS_Subset
<1>5. \E g : g = Partial(f, S, g)
  <2>1. Cardinality(S) \in T
    BY <1>3, <1>4
  <2>2. PICK g : g = Def(Cardinality(S), g)
    BY <2>1
  <2> QED
    BY <2>2, <1>4 DEF Partial
<1> QED
  BY <1>5 DEF Sums

\* The equation at one set.
LEMMA SumsRec ==
  ASSUME NEW f, NEW S, IsFiniteSet(S), NEW s \in SUBSET S
  PROVE  Sums(f, S)[s] = IF s = {} THEN 0 ELSE f[Pick(s)] + Sums(f, S)[s \ {Pick(s)}]
<1> DEFINE g == Sums(f, S)
<1>1. g = Partial(f, S, g)
  BY SumsExist
<1>2. Partial(f, S, g)[s] = IF s = {} THEN 0 ELSE f[Pick(s)] + g[s \ {Pick(s)}]
  BY DEF Partial
<1> QED
  BY <1>1, <1>2

\* The sum over S depends on the amounts in S alone, not on the set around it.
LEMMA SumsAgree ==
  ASSUME NEW f, NEW g, NEW A, NEW B, NEW S, IsFiniteSet(A), IsFiniteSet(B),
         S \subseteq A, S \subseteq B, \A x \in S : f[x] = g[x]
  PROVE  Sums(f, A)[S] = Sums(g, B)[S]
<1> DEFINE T == {U \in SUBSET S : Sums(f, A)[U] = Sums(g, B)[U]}
<1>1. IsFiniteSet(S)
  BY FS_Subset
<1>2. ASSUME NEW U \in SUBSET S, \A V \in SUBSET U : V # U => V \in T
      PROVE  U \in T
  <2>1. CASE U = {}
    BY <2>1, SumsRec
  <2>2. CASE U # {}
    <3>1. Pick(U) \in U /\ U \ {Pick(U)} \in T
      BY <1>1, <1>2, <2>2, PickIn
    <3>2. U \in SUBSET A /\ U \in SUBSET B
      OBVIOUS
    <3>3. Sums(f, A)[U] = f[Pick(U)] + Sums(f, A)[U \ {Pick(U)}]
      BY <2>2, <3>2, SumsRec
    <3>4. Sums(g, B)[U] = g[Pick(U)] + Sums(g, B)[U \ {Pick(U)}]
      <4> HIDE DEF T
      <4>1. Sums(g, B)[U] = IF U = {} THEN 0 ELSE g[Pick(U)] + Sums(g, B)[U \ {Pick(U)}]
        BY <3>2, SumsRec
      <4> QED
        BY <2>2, <4>1
    <3> QED
      BY <3>1, <3>3, <3>4
  <2> QED
    BY <2>1, <2>2
<1>3. S \in T
  <2> HIDE DEF T
  <2> QED
    BY <1>1, <1>2, SubsetInduct
<1> QED
  BY <1>3

\* No rows, no money.
LEMMA TotalEmpty == ASSUME NEW f PROVE Total(f, {}) = 0
BY TotalIsSums, SumsRec, FS_EmptySet

\* Taking out the picked row.
LEMMA TotalPick ==
  ASSUME NEW f, NEW S, IsFiniteSet(S), S # {}
  PROVE  Total(f, S) = f[Pick(S)] + Total(f, S \ {Pick(S)})
<1>1. Total(f, S) = f[Pick(S)] + Sums(f, S)[S \ {Pick(S)}]
  BY TotalIsSums, SumsRec
<1>2. IsFiniteSet(S \ {Pick(S)})
  BY PickIn
<1>3. Sums(f, S)[S \ {Pick(S)}] = Sums(f, S \ {Pick(S)})[S \ {Pick(S)}]
  BY <1>2, SumsAgree
<1> QED
  BY <1>1, <1>3, TotalIsSums

\* Amounts that agree on S have the same total.
LEMMA TotalAgree ==
  ASSUME NEW f, NEW g, NEW S, IsFiniteSet(S), \A x \in S : f[x] = g[x]
  PROVE  Total(f, S) = Total(g, S)
<1>1. Sums(f, S)[S] = Sums(g, S)[S]
  BY SumsAgree
<1> QED
  BY <1>1, TotalIsSums

\* A total of integers is an integer.
LEMMA TotalInt ==
  ASSUME NEW f, NEW S, IsFiniteSet(S), \A x \in S : f[x] \in Int
  PROVE  Total(f, S) \in Int
<1> DEFINE T == {U \in SUBSET S : Total(f, U) \in Int}
<1>1. ASSUME NEW U \in SUBSET S, \A V \in SUBSET U : V # U => V \in T
      PROVE  U \in T
  <2>1. CASE U = {}
    BY <2>1, TotalEmpty
  <2>2. CASE U # {}
    <3>1. Pick(U) \in U /\ U \ {Pick(U)} \in T /\ IsFiniteSet(U)
      BY <1>1, <2>2, PickIn
    <3>2. Total(f, U) = f[Pick(U)] + Total(f, U \ {Pick(U)})
      BY <2>2, <3>1, TotalPick
    <3> QED
      BY <3>1, <3>2
  <2> QED
    BY <2>1, <2>2
<1>2. S \in T
  <2> HIDE DEF T
  <2> QED
    BY <1>1, SubsetInduct
<1> QED
  BY <1>2

\* Any row can be taken out first: the total does not depend on the order.
LEMMA TotalRemove ==
  ASSUME NEW f, NEW S, IsFiniteSet(S), \A x \in S : f[x] \in Int, NEW e \in S
  PROVE  Total(f, S) = f[e] + Total(f, S \ {e})
<1> DEFINE T == {U \in SUBSET S : \A x \in U : Total(f, U) = f[x] + Total(f, U \ {x})}
<1>1. ASSUME NEW U \in SUBSET S, \A V \in SUBSET U : V # U => V \in T
      PROVE  U \in T
  <2> SUFFICES ASSUME NEW x \in U PROVE Total(f, U) = f[x] + Total(f, U \ {x})
    OBVIOUS
  <2>1. /\ Pick(U) \in U /\ IsFiniteSet(U)
        /\ Total(f, U) = f[Pick(U)] + Total(f, U \ {Pick(U)})
    BY PickIn, TotalPick
  <2>2. CASE x # Pick(U)
    <3>1. U \ {Pick(U)} \in T /\ U \ {x} \in T
      BY <1>1, <2>1
    <3>2. Total(f, U \ {Pick(U)}) = f[x] + Total(f, (U \ {Pick(U)}) \ {x})
      BY <2>2, <3>1
    <3>3. Total(f, U \ {x}) = f[Pick(U)] + Total(f, (U \ {Pick(U)}) \ {x})
      <4>1. (U \ {x}) \ {Pick(U)} = (U \ {Pick(U)}) \ {x}
        OBVIOUS
      <4> QED
        BY <2>1, <2>2, <3>1, <4>1
    <3>4. IsFiniteSet((U \ {Pick(U)}) \ {x})
      BY FS_Subset
    <3>5. Total(f, (U \ {Pick(U)}) \ {x}) \in Int
      BY <3>4, TotalInt
    <3>6. f[x] \in Int /\ f[Pick(U)] \in Int
      BY <2>1
    <3>7. \A a, b, c, d, e1, t \in Int : a = b + c /\ c = d + t /\ e1 = b + t => a = d + e1
      OBVIOUS
    <3>8. /\ Total(f, U \ {Pick(U)}) \in Int /\ Total(f, U \ {x}) \in Int
          /\ Total(f, U) \in Int
      BY <2>1, <3>2, <3>3, <3>5, <3>6
    <3> QED
      BY <2>1, <3>2, <3>3, <3>5, <3>6, <3>7, <3>8
  <2> QED
    BY <2>1, <2>2
<1>2. S \in T
  <2> HIDE DEF T
  <2> QED
    BY <1>1, SubsetInduct
<1> QED
  BY <1>2

\* Adding a row.
LEMMA TotalAdd ==
  ASSUME NEW f, NEW S, IsFiniteSet(S), NEW e, e \notin S, \A x \in S \cup {e} : f[x] \in Int
  PROVE  Total(f, S \cup {e}) = f[e] + Total(f, S)
<1>1. IsFiniteSet(S \cup {e}) /\ (S \cup {e}) \ {e} = S
  BY FS_AddElement
<1> QED
  BY <1>1, TotalRemove

\* Adding rows of non-negative amounts, larger total.
LEMMA TotalGrows ==
  ASSUME NEW f, NEW S, IsFiniteSet(S), NEW A \in SUBSET S, NEW B \in SUBSET S, A \subseteq B,
         \A x \in S : f[x] \in Nat
  PROVE  Total(f, A) <= Total(f, B)
<1> DEFINE T == {U \in SUBSET B : Total(f, A \cap U) <= Total(f, U)}
<1>0. IsFiniteSet(B)
  BY FS_Subset
<1>1. ASSUME NEW U \in SUBSET B, \A V \in SUBSET U : V # U => V \in T
      PROVE  U \in T
  <2>1. CASE U = {}
    <3>1. A \cap U = {}
      BY <2>1
    <3>2. Total(f, U) = 0 /\ Total(f, A \cap U) = 0
      BY <2>1, <3>1, TotalEmpty
    <3> QED
      BY <3>2
  <2>2. CASE U # {}
    <3> DEFINE p == Pick(U)
    <3>1. /\ p \in U /\ U \ {p} \in T /\ IsFiniteSet(U) /\ IsFiniteSet(A \cap U)
          /\ IsFiniteSet(U \ {p}) /\ IsFiniteSet(A \cap (U \ {p}))
      <4>1. p \in U /\ U \ {p} \in SUBSET U /\ U \ {p} # U
        BY <1>0, <2>2, PickIn
      <4>2. U \ {p} \in T
        BY <1>1, <4>1
      <4> HIDE DEF p, T
      <4>3. IsFiniteSet(U) /\ IsFiniteSet(A \cap U)
        BY <1>0, FS_Subset
      <4>4. IsFiniteSet(U \ {p}) /\ IsFiniteSet(A \cap (U \ {p}))
        BY <4>3, FS_Subset
      <4> QED
        BY <4>1, <4>2, <4>3, <4>4
    <3>2. Total(f, U) = f[p] + Total(f, U \ {p})
      BY <2>2, <3>1, TotalPick
    <3>3. /\ f[p] \in Nat /\ Total(f, U \ {p}) \in Int /\ Total(f, A \cap (U \ {p})) \in Int
      BY <3>1, TotalInt
    <3> HIDE DEF p
    <3>4. CASE p \in A
      <4>1. (A \cap U) \ {p} = A \cap (U \ {p})
        OBVIOUS
      <4>2. p \in A \cap U /\ \A x \in A \cap U : f[x] \in Int
        BY <3>1, <3>4
      <4>3. Total(f, A \cap U) = f[p] + Total(f, A \cap (U \ {p}))
        BY <3>1, <4>1, <4>2, TotalRemove
      <4> QED
        BY <3>1, <3>2, <3>3, <4>3
    <3>5. CASE p \notin A
      <4>1. A \cap (U \ {p}) = A \cap U
        BY <3>5
      <4>2. Total(f, A \cap U) <= Total(f, U \ {p})
        BY <3>1, <4>1
      <4> QED
        BY <3>2, <3>3, <4>1, <4>2
    <3> QED
      BY <3>4, <3>5
  <2> QED
    BY <2>1, <2>2
<1>2. B \in T
  <2> HIDE DEF T
  <2>1. \A U \in SUBSET B : U \in T
    BY <1>0, <1>1, SubsetInduct
  <2> QED
    BY <2>1
<1>3. A \cap B = A
  OBVIOUS
<1> QED
  BY <1>2, <1>3

-----------------------------------------------------------------------------
(* Rows and helpers.                                                        *)

\* An order has two rows at most, told apart by order and kind.
LEMMA RowsOfOrders ==
    /\ \A o \in Manual : SaleRow(o) \in Row /\ CreditRow(o) \in Row
    /\ \A r \in Row : \E o \in Manual : r = SaleRow(o) \/ r = CreditRow(o)
    /\ \A o, p \in Manual : SaleRow(o) # CreditRow(p)
    /\ \A o, p \in Manual : SaleRow(o) = SaleRow(p) => o = p
    /\ \A o, p \in Manual : CreditRow(o) = CreditRow(p) => o = p
<1>1. \A o \in Manual : SaleRow(o) \in Row /\ CreditRow(o) \in Row
  BY DEF SaleRow, CreditRow, Row
<1>2. \A r \in Row : \E o \in Manual : r = SaleRow(o) \/ r = CreditRow(o)
  BY DEF SaleRow, CreditRow, Row
<1>3. \A o, p \in Manual : SaleRow(o) # CreditRow(p)
  <2> SUFFICES ASSUME NEW o \in Manual, NEW p \in Manual, SaleRow(o) = CreditRow(p)
               PROVE FALSE
    OBVIOUS
  <2>1. SaleRow(o).kind = CreditRow(p).kind
    OBVIOUS
  <2> QED
    BY <2>1 DEF SaleRow, CreditRow
<1>4. \A o, p \in Manual : SaleRow(o) = SaleRow(p) => o = p
  <2> SUFFICES ASSUME NEW o \in Manual, NEW p \in Manual, SaleRow(o) = SaleRow(p)
               PROVE o = p
    OBVIOUS
  <2>1. SaleRow(o).order = SaleRow(p).order
    OBVIOUS
  <2> QED
    BY <2>1 DEF SaleRow
<1>5. \A o, p \in Manual : CreditRow(o) = CreditRow(p) => o = p
  <2> SUFFICES ASSUME NEW o \in Manual, NEW p \in Manual, CreditRow(o) = CreditRow(p)
               PROVE o = p
    OBVIOUS
  <2>1. CreditRow(o).order = CreditRow(p).order
    OBVIOUS
  <2> QED
    BY <2>1 DEF CreditRow
<1> QED
  BY <1>1, <1>2, <1>3, <1>4, <1>5

\* A new row extends the ledger and keeps it typed.
LEMMA AddRowTyped ==
    ASSUME ShapeOK, NEW r \in Row, AddRow(r)
    PROVE  rows' \in Seq(Row) /\ charge' \in [Row -> ChargeStatuses]
BY DEF ShapeOK, AddRow, ChargeStatuses

\* The history only grows.
LEMMA NoteTyped ==
    ASSUME ShapeOK, NEW cond \in BOOLEAN, NEW m \in Mishaps, NoteWhen(cond, m)
    PROVE  mishaps' \subseteq Mishaps /\ mishaps \subseteq mishaps' /\ (cond => m \in mishaps')
BY DEF ShapeOK, NoteWhen

-----------------------------------------------------------------------------
(* Shapes.                                                                  *)

\* Every variable but the amounts has its shape in every reachable state.
THEOREM ShapeCorrect == Spec => []ShapeOK
<1>1. Init => ShapeOK
  BY DEF Init, ShapeOK, ChargeStatuses, WithdrawalStatuses, Mishaps, NoSweep
<1>2. ShapeOK /\ [Next]_vars => ShapeOK'
  <2> SUFFICES ASSUME ShapeOK, [Next]_vars PROVE ShapeOK'
    OBVIOUS
  <2> USE DEF ShapeOK, orderVars, requestVars, transferVars, invoiceVars
  <2>1. CASE Store
    <3>1. ASSUME NEW o \in Orders, SellerPaid(o) PROVE ShapeOK'
      <4>1. CASE o \in Manual
        <5>1. AddRow(SaleRow(o))
          BY <3>1, <4>1 DEF SellerPaid
        <5>2. rows' \in Seq(Row) /\ charge' \in [Row -> ChargeStatuses]
          BY <4>1, <5>1, RowsOfOrders, AddRowTyped
        <5> QED
          BY <3>1, <5>2 DEF SellerPaid
      <4>2. CASE o \notin Manual
        BY <3>1, <4>2 DEF SellerPaid
      <4> QED
        BY <4>1, <4>2
    <3>2. ASSUME NEW o \in Orders, RefundOrder(o) PROVE ShapeOK'
      <4>1. CASE o \in Manual /\ charge[SaleRow(o)] \in Collected
        <5>1. AddRow(CreditRow(o))
          BY <3>2, <4>1 DEF RefundOrder, Collected
        <5>2. rows' \in Seq(Row) /\ charge' \in [Row -> ChargeStatuses]
          BY <4>1, <5>1, RowsOfOrders, AddRowTyped
        <5> QED
          BY <3>2, <5>2 DEF RefundOrder
      <4>2. CASE o \in Manual /\ charge[SaleRow(o)] = "OWED" /\ charge[SaleRow(o)] \notin Collected
        BY <3>2, <4>2, RowsOfOrders DEF RefundOrder, ChargeStatuses
      <4>3. CASE ~(o \in Manual /\ (charge[SaleRow(o)] = "OWED" \/ charge[SaleRow(o)] \in Collected))
        BY <3>2, <4>3 DEF RefundOrder
      <4> QED
        BY <4>1, <4>2, <4>3
    <3>3. CASE Waive
      BY <3>3 DEF Waive, ChargeStatuses
    <3> QED
      BY <2>1, <3>1, <3>2, <3>3 DEF Store
  <2>2. ASSUME NEW w \in Withdrawals, Withdrawal(w) PROVE ShapeOK'
    <3>1. ASSUME NEW n \in Amounts, Withdraw(w, n) PROVE ShapeOK'
      <4>1. PICK settled \in SUBSET Settleable :
              /\ charge' = [r \in Row |-> IF r \in settled THEN "SETTLED" ELSE charge[r]]
              /\ collector' = [r \in Row |-> IF r \in settled THEN w ELSE collector[r]]
              /\ NoteWhen(settled # OwedRows, "skipped")
        BY <3>1 DEF Withdraw
      <4>2. mishaps' \subseteq Mishaps
        BY <4>1, NoteTyped DEF Mishaps
      <4>3. /\ charge' \in [Row -> ChargeStatuses]
            /\ collector' \in [Row -> Withdrawals \cup Invoices \cup {"none"}]
        BY <4>1 DEF ChargeStatuses
      <4>4. status' \in [Withdrawals -> WithdrawalStatuses]
        BY <3>1 DEF Withdraw, WithdrawalStatuses
      <4> QED
        BY <3>1, <4>2, <4>3, <4>4 DEF Withdraw
    <3>2. CASE Cancel(w) \/ Complete(w)
      <4>1. mishaps' \subseteq Mishaps
        BY <3>2, NoteTyped DEF Cancel, Complete, Mishaps
      <4> QED
        BY <3>2, <4>1 DEF Cancel, Complete, WithdrawalStatuses
    <3>3. CASE ClaimTransfer(w) \/ TransferMade(w) \/ TransferFails(w) \/ SenderDies(w)
      BY <3>3 DEF ClaimTransfer, TransferMade, TransferFails, SenderDies, WithdrawalStatuses
    <3>4. CASE CommitSent(w)
      <4>1. mishaps' \subseteq Mishaps
        BY <3>4, NoteTyped DEF CommitSent, Mishaps
      <4> QED
        BY <3>4, <4>1 DEF CommitSent, WithdrawalStatuses
    <3>5. CASE CommitFailed(w)
      <4>1. mishaps' \subseteq Mishaps
        BY <3>5, NoteTyped DEF CommitFailed, Mishaps
      <4> QED
        BY <3>5, <4>1 DEF CommitFailed, WithdrawalStatuses
    <3>6. CASE StripeReverses(w)
      BY <3>6 DEF StripeReverses
    <3>7. CASE DeliverReversed(w)
      <4>1. status' \in [Withdrawals -> WithdrawalStatuses]
        BY <3>7 DEF DeliverReversed, WithdrawalStatuses
      <4> QED
        BY <3>7, <4>1 DEF DeliverReversed
    <3> QED
      BY <2>2, <3>1, <3>2, <3>3, <3>4, <3>5, <3>6, <3>7 DEF Withdrawal
  <2>3. CASE Sweep
    <3>1. CASE SweepSelects
      BY <3>1 DEF SweepSelects, NoSweep, OwedRows
    <3>2. CASE SweepMarks
      BY <3>2 DEF SweepMarks, NoSweep, Mishaps, ChargeStatuses
    <3>3. CASE SweepStops
      BY <3>3 DEF SweepStops, NoSweep, NoteWhen, Mishaps
    <3> QED
      BY <2>3, <3>1, <3>2, <3>3 DEF Sweep
  <2>4. ASSUME NEW i \in Invoices, Invoice(i) PROVE ShapeOK'
    <3>1. CASE SweepInvoices(i)
      BY <3>1 DEF SweepInvoices
    <3>2. CASE InvoicePaid(i)
      BY <3>2 DEF InvoicePaid
    <3>3. CASE DeliverInvoicePaid(i)
      BY <3>3 DEF DeliverInvoicePaid, SettledBy, ChargeStatuses
    <3> QED
      BY <2>4, <3>1, <3>2, <3>3 DEF Invoice
  <2>5. CASE UNCHANGED vars
    BY <2>5 DEF vars
  <2> QED
    BY <2>1, <2>2, <2>3, <2>4, <2>5 DEF Next
<1> QED
  BY <1>1, <1>2, PTL DEF Spec

-----------------------------------------------------------------------------
(* The commission ledger.                                                   *)

\* What the rows of an order say about it: inductive, where the credit alone is
\* not, because a refund looks at the SALE row to decide what to write.
OrdersMatchRows ==
    \A o \in Manual :
        /\ order[o] = "pending" <=> charge[SaleRow(o)] = "none"
        /\ order[o] # "refunded" => charge[CreditRow(o)] = "none"
        /\ charge[CreditRow(o)] # "none" => charge[SaleRow(o)] \in Collected
        /\ order[o] = "refunded" /\ charge[CreditRow(o)] = "none"
              => charge[SaleRow(o)] = "WAIVED"

\* Only rows that were collected name a collector.
CollectorsCollected == \A r \in Row : collector[r] # "none" => charge[r] \in Collected

LedgerInv == OrdersMatchRows /\ CollectorsCollected

\* What may happen to a row that exists.
RowMoves(r) ==
    \/ UNCHANGED <<charge[r], collector[r]>>
    \/ charge[r] = "OWED" /\ charge'[r] = "WAIVED" /\ UNCHANGED collector[r]
    \/ charge[r] = "OWED" /\ charge'[r] = "SETTLED" /\ collector'[r] \in Withdrawals
    \/ /\ charge[r] = "OWED" /\ charge'[r] = "INVOICED"
       /\ SweepMarks /\ collector'[r] = sweep.invoice
    \/ charge[r] = "INVOICED" /\ charge'[r] = "SETTLED" /\ UNCHANGED collector[r]

\* The steps that collect or waive: withdrawals, sweep, invoices and waiver.
CollectingStep ==
    \/ Waive
    \/ \E w \in Withdrawals : Withdrawal(w)
    \/ Sweep
    \/ \E i \in Invoices : Invoice(i)
    \/ UNCHANGED vars

\* A collecting step leaves the orders alone and moves each row legally.
LEMMA CollectingStepMoves ==
    ASSUME ShapeOK, CollectingStep
    PROVE  order' = order /\ \A r \in Row : RowMoves(r)
<1> USE DEF ShapeOK, orderVars, requestVars, transferVars, invoiceVars, RowMoves
<1>1. CASE Waive
  BY <1>1 DEF Waive, OwedRows
<1>2. ASSUME NEW w \in Withdrawals, Withdrawal(w)
      PROVE  order' = order /\ \A r \in Row : RowMoves(r)
  <2>1. ASSUME NEW n \in Amounts, Withdraw(w, n)
        PROVE  order' = order /\ \A r \in Row : RowMoves(r)
    <3>1. PICK settled \in SUBSET Settleable :
            /\ charge' = [r \in Row |-> IF r \in settled THEN "SETTLED" ELSE charge[r]]
            /\ collector' = [r \in Row |-> IF r \in settled THEN w ELSE collector[r]]
      BY <2>1 DEF Withdraw
    <3>2. ASSUME NEW r \in Row PROVE RowMoves(r)
      BY <3>1 DEF Settleable
    <3> QED
      BY <2>1, <3>2 DEF Withdraw
  <2>2. CASE Cancel(w) \/ Complete(w) \/ CommitSent(w) \/ CommitFailed(w)
    BY <2>2 DEF Cancel, Complete, CommitSent, CommitFailed
  <2>3. CASE \/ ClaimTransfer(w) \/ TransferMade(w) \/ TransferFails(w) \/ SenderDies(w)
             \/ StripeReverses(w) \/ DeliverReversed(w)
    BY <2>3 DEF ClaimTransfer, TransferMade, TransferFails, SenderDies, StripeReverses,
                DeliverReversed
  <2> QED
    BY <1>2, <2>1, <2>2, <2>3 DEF Withdrawal
<1>3. CASE Sweep
  BY <1>3 DEF Sweep, SweepSelects, SweepMarks, SweepStops, Stampable
<1>4. ASSUME NEW i \in Invoices, Invoice(i)
      PROVE  order' = order /\ \A r \in Row : RowMoves(r)
  BY <1>4 DEF Invoice, SweepInvoices, InvoicePaid, DeliverInvoicePaid, SettledBy
<1>5. CASE UNCHANGED vars
  BY <1>5 DEF vars
<1> QED
  BY <1>1, <1>2, <1>3, <1>4, <1>5 DEF CollectingStep

\* Payment and refund of an order preserve the ledger invariant, and change an
\* existing row only by waiving it.
LEMMA OrderStepMoves ==
    ASSUME ShapeOK, LedgerInv, NEW o \in Orders, SellerPaid(o) \/ RefundOrder(o)
    PROVE  /\ LedgerInv'
           /\ \A r \in Row : charge[r] # "none" => RowMoves(r)
           /\ \A r \in Row : charge[r] = "none" => charge'[r] \in {"none", "OWED"}
           /\ collector' = collector
<1> USE RowsOfOrders
<1> USE DEF ShapeOK, RowMoves, LedgerInv, OrdersMatchRows, CollectorsCollected
<1>1. CASE o \in Manual /\ SellerPaid(o)
  <2>1. /\ order[o] = "pending" /\ order' = [order EXCEPT ![o] = "paid"]
        /\ charge' = [charge EXCEPT ![SaleRow(o)] = "OWED"]
        /\ collector' = collector
    BY <1>1 DEF SellerPaid, AddRow
  <2>2. charge[SaleRow(o)] = "none" /\ charge[CreditRow(o)] = "none"
    BY <1>1, <2>1
  <2>3. OrdersMatchRows'
    BY <1>1, <2>1, <2>2 DEF Collected
  <2> QED
    BY <1>1, <2>1, <2>2, <2>3 DEF Collected
<1>2. CASE o \notin Manual
  <2>1. charge' = charge /\ collector' = collector /\ \A p \in Manual : order'[p] = order[p]
    BY <1>2 DEF SellerPaid, RefundOrder, Orders
  <2> QED
    BY <2>1
<1>3. CASE o \in Manual /\ RefundOrder(o) /\ charge[SaleRow(o)] \in Collected
  BY <1>3 DEF RefundOrder, AddRow, Collected
<1>4. CASE o \in Manual /\ RefundOrder(o) /\ charge[SaleRow(o)] = "OWED"
  BY <1>4 DEF RefundOrder, Collected
<1>5. CASE o \in Manual /\ RefundOrder(o) /\ charge[SaleRow(o)] \notin Collected \cup {"OWED"}
  BY <1>5 DEF RefundOrder, Collected, ChargeStatuses
<1> QED
  BY <1>1, <1>2, <1>3, <1>4, <1>5

\* Every step preserves the ledger invariant and moves existing rows legally.
LEMMA LedgerStep ==
    ASSUME ShapeOK, LedgerInv, [Next]_vars
    PROVE  /\ LedgerInv'
           /\ \A r \in Row : charge[r] # "none" => RowMoves(r)
           /\ \A r \in Row : charge[r] = "none" => charge'[r] \in {"none", "OWED"} /\ UNCHANGED collector[r]
<1>1. CASE CollectingStep
  <2>1. order' = order /\ \A r \in Row : RowMoves(r)
    BY <1>1, CollectingStepMoves
  <2>2. OrdersMatchRows'
    BY <2>1, RowsOfOrders DEF LedgerInv, OrdersMatchRows, RowMoves, Collected
  <2>3. CollectorsCollected'
    BY <2>1 DEF LedgerInv, CollectorsCollected, RowMoves, Collected
  <2> QED
    BY <2>1, <2>2, <2>3 DEF LedgerInv, RowMoves
<1>2. ASSUME NEW o \in Orders, SellerPaid(o) \/ RefundOrder(o)
      PROVE  /\ LedgerInv'
             /\ \A r \in Row : charge[r] # "none" => RowMoves(r)
             /\ \A r \in Row : charge[r] = "none" => charge'[r] \in {"none", "OWED"} /\ UNCHANGED collector[r]
  BY <1>2, OrderStepMoves
<1> QED
  BY <1>1, <1>2 DEF Next, Store, CollectingStep

\* The ledger invariant holds in every reachable state.
THEOREM LedgerInvariant == Spec => [](ShapeOK /\ LedgerInv)
<1>1. Init => LedgerInv
  BY RowsOfOrders DEF Init, LedgerInv, OrdersMatchRows, CollectorsCollected, Orders
<1>2. ShapeOK /\ LedgerInv /\ [Next]_vars => LedgerInv'
  BY LedgerStep
<1> QED
  BY <1>1, <1>2, ShapeCorrect, PTL DEF Spec

\* A credit exists exactly for the refunds of collected commissions
\* (applyOrderRefundedEffects against every collector).
THEOREM CreditMirrorsRefundAlways == Spec => []CreditMirrorsRefund
<1>1. LedgerInv => CreditMirrorsRefund
  BY DEF LedgerInv, OrdersMatchRows, CreditMirrorsRefund, Collected
<1> QED
  BY <1>1, LedgerInvariant, PTL

\* Settled and waived rows are final, invoiced ones can only be settled.
THEOREM ResolvedAlwaysStaysResolved == Spec => ResolvedStaysResolved
<1>1. ShapeOK /\ LedgerInv /\ [Next]_vars =>
        [\A r \in Row :
           /\ charge[r] \in {"SETTLED", "WAIVED"} => UNCHANGED <<charge[r], collector[r]>>
           /\ charge[r] = "INVOICED" => charge'[r] \in {"INVOICED", "SETTLED"}]_vars
  BY LedgerStep DEF RowMoves
<1> QED
  BY <1>1, LedgerInvariant, PTL DEF Spec, ResolvedStaysResolved

-----------------------------------------------------------------------------
(* What the account shows of each order.                                    *)

\* Between payment and refund a collector resolves what is owed, and nothing else
\* touches the SALE row of an order; no collector writes a credit.
LEMMA CollectingKeepsAccounts ==
    ASSUME ShapeOK, LedgerInv, CollectingStep
    PROVE  AccountsStep
<1> SUFFICES ASSUME NEW o \in Orders
             PROVE  [Account(o)!Next]_(Account(o)!accountVars)
  BY DEF AccountsStep
<1>1. order' = order /\ \A r \in Row : RowMoves(r)
  BY CollectingStepMoves
<1>2. CASE o \in Manual
  <2>1. SaleRow(o) \in Row /\ CreditRow(o) \in Row
    BY <1>2, RowsOfOrders
  <2>2. charge'[CreditRow(o)] = "none" <=> charge[CreditRow(o)] = "none"
    BY <1>1, <2>1 DEF RowMoves
  <2>3. \/ charge'[SaleRow(o)] = charge[SaleRow(o)]
        \/ charge[SaleRow(o)] = "OWED" /\ charge'[SaleRow(o)] \in {"WAIVED", "SETTLED", "INVOICED"}
        \/ charge[SaleRow(o)] = "INVOICED" /\ charge'[SaleRow(o)] = "SETTLED"
    BY <1>1, <2>1 DEF RowMoves
  <2> QED
    BY <1>1, <1>2, <2>2, <2>3 DEF Account!Next, Account!Resolved, Account!accountVars, AccountStatus
<1>3. CASE o \notin Manual
  BY <1>1, <1>3 DEF Account!accountVars
<1> QED
  BY <1>2, <1>3

\* A payment or refund of p is one in its account, and no other order's notices.
LEMMA OrderStepKeepsAccounts ==
    ASSUME ShapeOK, LedgerInv, NEW p \in Orders, SellerPaid(p) \/ RefundOrder(p)
    PROVE  AccountsStep
<1> SUFFICES ASSUME NEW o \in Orders
             PROVE  [Account(o)!Next]_(Account(o)!accountVars)
  BY DEF AccountsStep
<1> USE RowsOfOrders
<1> USE DEF ShapeOK, LedgerInv, OrdersMatchRows
<1>1. CASE o # p
  <2>1. order'[o] = order[o]
    BY <1>1 DEF SellerPaid, RefundOrder
  <2>2. o \in Manual => UNCHANGED <<charge[SaleRow(o)], charge[CreditRow(o)]>>
    BY <1>1 DEF SellerPaid, RefundOrder, AddRow
  <2> QED
    BY <2>1, <2>2 DEF Account!accountVars
<1>2. CASE o = p /\ o \notin Manual
  BY <1>2 DEF SellerPaid, RefundOrder, Account!Next, Account!Paid, Account!Refunded
<1>3. CASE o = p /\ o \in Manual /\ SellerPaid(o)
  BY <1>3 DEF SellerPaid, AddRow, Account!Next, Account!Paid, AccountStatus
<1>4. CASE o = p /\ o \in Manual /\ RefundOrder(o)
  <2>1. order[o] = "paid" /\ order'[o] = "refunded" /\ charge[CreditRow(o)] = "none"
    BY <1>4 DEF RefundOrder
  <2>2. CASE charge[SaleRow(o)] \in Collected
    BY <1>4, <2>1, <2>2 DEF RefundOrder, AddRow, Collected, Account!Next, Account!Refunded, AccountStatus
  <2>3. CASE charge[SaleRow(o)] = "OWED"
    BY <1>4, <2>1, <2>3 DEF RefundOrder, Collected, Account!Next, Account!Refunded, AccountStatus
  <2>4. CASE charge[SaleRow(o)] \notin Collected \cup {"OWED"}
    <3>1. charge[SaleRow(o)] = "WAIVED"
      BY <1>4, <2>1, <2>4 DEF Collected, ChargeStatuses
    <3>2. charge' = charge
      BY <1>4, <2>4 DEF RefundOrder
    <3> QED
      BY <1>4, <2>1, <3>1, <3>2 DEF Account!Next, Account!Refunded, AccountStatus
  <2> QED
    BY <2>2, <2>3, <2>4
<1> QED
  BY <1>1, <1>2, <1>3, <1>4

\* Payouts implements OrderAccount for each of its orders: a commission is
\* collected or waived once, and its refund credited if it was collected.
THEOREM AccountsAreKept == Spec => KeepsAccounts
<1>1. Init => \A o \in Orders : Account(o)!Init
  BY RowsOfOrders DEF Init, Account!Init, AccountStatus
<1>2. ShapeOK /\ LedgerInv /\ [Next]_vars => [AccountsStep]_vars
  <2> SUFFICES ASSUME ShapeOK, LedgerInv, [Next]_vars
               PROVE  AccountsStep
    OBVIOUS
  <2>1. CASE CollectingStep
    BY <2>1, CollectingKeepsAccounts
  <2>2. ASSUME NEW p \in Orders, SellerPaid(p) \/ RefundOrder(p)
        PROVE  AccountsStep
    BY <2>2, OrderStepKeepsAccounts
  <2> QED
    BY <2>1, <2>2 DEF Next, Store, CollectingStep
<1> QED
  BY <1>1, <1>2, LedgerInvariant, PTL DEF Spec, KeepsAccounts

-----------------------------------------------------------------------------
(* Transfers.                                                               *)

\* What makes "a made transfer is debited" inductive: a row that was not claimed
\* has nothing at Stripe, a stored payout id means the request is over, and the
\* request holds the row PROCESSING or COMPLETED from the claim on.
TransferInv ==
    \A w \in Withdrawals :
        /\ status[w] \in {"none", "PENDING"}
              => sender[w] = "idle" /\ transfer[w] = "none" /\ w \notin payoutId
        /\ sender[w] = "claimed" => transfer[w] = "none"
        /\ w \in payoutId => sender[w] = "idle"
        /\ "released" \notin mishaps /\ (transfer[w] = "made" \/ sender[w] \in {"claimed", "sent"})
              => status[w] \in {"PROCESSING", "COMPLETED"}

\* The history grows with every step.
LEMMA MishapsGrow ==
    ASSUME ShapeOK, [Next]_vars
    PROVE  mishaps \subseteq mishaps'
<1>1. CASE Store
  BY <1>1 DEF Store, SellerPaid, RefundOrder, Waive
<1>2. ASSUME NEW w \in Withdrawals, Withdrawal(w) PROVE mishaps \subseteq mishaps'
  BY <1>2 DEF Withdrawal, Withdraw, Cancel, Complete, ClaimTransfer, TransferMade, TransferFails,
              CommitSent, CommitFailed, SenderDies, StripeReverses, DeliverReversed, NoteWhen
<1>3. CASE Sweep
  BY <1>3 DEF Sweep, SweepSelects, SweepMarks, SweepStops, NoteWhen
<1>4. ASSUME NEW i \in Invoices, Invoice(i) PROVE mishaps \subseteq mishaps'
  BY <1>4 DEF Invoice, SweepInvoices, InvoicePaid, DeliverInvoicePaid
<1>5. CASE UNCHANGED vars
  BY <1>5 DEF vars
<1> QED
  BY <1>1, <1>2, <1>3, <1>4, <1>5 DEF Next

\* A step of one withdrawal preserves the transfer invariant.
LEMMA WithdrawalStep ==
    ASSUME ShapeOK, TransferInv, NEW w \in Withdrawals, Withdrawal(w), mishaps \subseteq mishaps'
    PROVE  TransferInv'
<1> USE DEF ShapeOK, TransferInv, transferVars
<1>1. ASSUME NEW n \in Amounts, Withdraw(w, n) PROVE TransferInv'
  BY <1>1 DEF Withdraw
<1>2. CASE Cancel(w)
  BY <1>2 DEF Cancel, Cancellable, NoteWhen
<1>3. CASE Complete(w)
  BY <1>3 DEF Complete
<1>4. CASE ClaimTransfer(w)
  BY <1>4 DEF ClaimTransfer
<1>5. CASE TransferMade(w)
  BY <1>5 DEF TransferMade
<1>6. CASE TransferFails(w)
  BY <1>6 DEF TransferFails
<1>7. CASE CommitSent(w)
  BY <1>7 DEF CommitSent
<1>8. CASE CommitFailed(w)
  BY <1>8 DEF CommitFailed, NoteWhen
<1>9. CASE SenderDies(w)
  BY <1>9 DEF SenderDies
<1>10. CASE StripeReverses(w)
  BY <1>10 DEF StripeReverses
<1>11. CASE DeliverReversed(w)
  BY <1>11 DEF DeliverReversed
<1> QED
  BY <1>1, <1>2, <1>3, <1>4, <1>5, <1>6, <1>7, <1>8, <1>9, <1>10, <1>11 DEF Withdrawal

\* Money that a transfer moved stays debited, unless an operator cancelled the
\* withdrawal while it was sent or Stripe's answer was lost.
THEOREM TransferIsReservedAlways == Spec => []TransferIsReserved
<1>1. Init => TransferInv
  BY DEF Init, TransferInv
<1>2. ShapeOK /\ TransferInv /\ [Next]_vars => TransferInv'
  <2> SUFFICES ASSUME ShapeOK, TransferInv, [Next]_vars PROVE TransferInv'
    OBVIOUS
  <2>1. mishaps \subseteq mishaps'
    BY MishapsGrow
  <2>2. ASSUME NEW w \in Withdrawals, Withdrawal(w) PROVE TransferInv'
    BY <2>1, <2>2, WithdrawalStep
  <2>3. CASE UNCHANGED <<status, transferVars>>
    BY <2>1, <2>3 DEF TransferInv, transferVars
  <2>4. Store \/ Sweep \/ (\E i \in Invoices : Invoice(i)) \/ UNCHANGED vars
          => UNCHANGED <<status, transferVars>>
    BY DEF Store, SellerPaid, RefundOrder, Waive, Sweep, SweepSelects, SweepMarks, SweepStops,
           Invoice, SweepInvoices, InvoicePaid, DeliverInvoicePaid, vars
  <2> QED
    BY <2>2, <2>3, <2>4 DEF Next
<1>3. TransferInv => TransferIsReserved
  BY DEF TransferInv, TransferIsReserved
<1> QED
  BY <1>1, <1>2, <1>3, ShapeCorrect, PTL DEF Spec

-----------------------------------------------------------------------------
(* Invoices.                                                                *)

\* What the lines of the invoices say while the sweep runs, as long as it left
\* no invoice behind. A row that the sweep selected is on no invoice yet.
BilledInv ==
    /\ \A i \in Invoices : invoice[i] = "none" => billed[i] = {}
    /\ "stranded" \notin mishaps =>
          /\ \A i \in Invoices : \A r \in billed[i] :
                \/ collector[r] = i
                \/ sweep.phase = "invoiced" /\ r \in sweep.rows /\ sweep.invoice = i
          /\ \A i, j \in Invoices : \A r \in billed[i] : r \in billed[j] => i = j
          /\ sweep.phase = "selected" =>
                \A r \in sweep.rows : \A i \in Invoices : r \notin billed[i]
          /\ sweep.phase = "invoiced" =>
                sweep.invoice \in Invoices /\ billed[sweep.invoice] = sweep.rows

\* A step that leaves the invoices and the sweep alone changes no collector of
\* a billed row: such a row is no longer OWED.
LEMMA OtherStepsKeepBilled ==
    ASSUME ShapeOK, LedgerInv, BilledInv, [Next]_vars, ~SweepMarks,
           UNCHANGED <<sweep, billed, invoice>>, mishaps \subseteq mishaps'
    PROVE  BilledInv'
<1> SUFFICES ASSUME "stranded" \notin mishaps PROVE BilledInv'
  BY DEF BilledInv
<1>1. ASSUME NEW i \in Invoices, NEW r \in billed[i], collector[r] = i PROVE collector'[r] = i
  <2>1. r \in Row /\ i # "none"
    BY CollectorAssumption DEF ShapeOK
  <2>2. charge[r] \in Collected
    BY <1>1, <2>1 DEF LedgerInv, CollectorsCollected
  <2>3. RowMoves(r)
    BY <2>1, <2>2, LedgerStep DEF Collected
  <2> QED
    BY <1>1, <2>2, <2>3 DEF RowMoves, Collected
<1> QED
  BY <1>1 DEF BilledInv

\* The sweep's own steps preserve the invariant.
LEMMA SweepKeepsBilled ==
    ASSUME ShapeOK, LedgerInv, BilledInv, Sweep \/ \E i \in Invoices : SweepInvoices(i),
           mishaps \subseteq mishaps'
    PROVE  BilledInv'
<1> USE DEF ShapeOK
<1>1. CASE SweepSelects
  <2>1. /\ sweep.phase = "idle" /\ sweep'.phase = "selected" /\ sweep'.rows = OwedRows
        /\ UNCHANGED <<charge, collector, billed, invoice, mishaps>>
    BY <1>1 DEF SweepSelects, NoSweep, orderVars
  <2>2. ASSUME NEW i \in Invoices, NEW r \in billed[i], collector[r] = i PROVE r \notin OwedRows
    BY <2>2, CollectorAssumption DEF LedgerInv, CollectorsCollected, OwedRows, Collected
  <2> QED
    BY <2>1, <2>2 DEF BilledInv
<1>2. ASSUME NEW i \in Invoices, SweepInvoices(i) PROVE BilledInv'
  <2>1. /\ sweep.phase = "selected" /\ invoice[i] = "none"
        /\ sweep'.phase = "invoiced" /\ sweep'.invoice = i /\ sweep'.rows = sweep.rows
        /\ billed' = [billed EXCEPT ![i] = sweep.rows]
        /\ invoice' = [invoice EXCEPT ![i] = "open"]
        /\ UNCHANGED <<collector, mishaps>>
    BY <1>2 DEF SweepInvoices, orderVars
  <2> QED
    BY <2>1 DEF BilledInv
<1>3. CASE SweepMarks
  <2>1. /\ sweep.phase = "invoiced" /\ sweep'.phase = "idle"
        /\ UNCHANGED <<billed, invoice>>
    BY <1>3 DEF SweepMarks, NoSweep
  <2>2. CASE "stranded" \in mishaps'
    BY <2>1, <2>2 DEF BilledInv
  <2>3. CASE "stranded" \notin mishaps'
    <3>1. \A r \in Row : collector'[r] = IF r \in sweep.rows THEN sweep.invoice ELSE collector[r]
      BY <1>3, <2>3 DEF SweepMarks
    <3> QED
      BY <2>1, <2>3, <3>1 DEF BilledInv
  <2> QED
    BY <2>2, <2>3
<1>4. CASE SweepStops
  <2>1. /\ sweep'.phase = "idle"
        /\ sweep.phase = "invoiced" => "stranded" \in mishaps'
        /\ UNCHANGED <<collector, billed, invoice>>
    BY <1>4 DEF SweepStops, NoSweep, NoteWhen, orderVars
  <2> QED
    BY <2>1 DEF BilledInv
<1> QED
  BY <1>1, <1>2, <1>3, <1>4 DEF Sweep

\* The lines of the invoices are as BilledInv says in every reachable state.
THEOREM BilledInvariant == Spec => []BilledInv
<1>1. Init => BilledInv
  BY DEF Init, BilledInv, NoSweep
<1>2. ShapeOK /\ LedgerInv /\ BilledInv /\ [Next]_vars => BilledInv'
  <2> SUFFICES ASSUME ShapeOK, LedgerInv, BilledInv, [Next]_vars PROVE BilledInv'
    OBVIOUS
  <2>1. mishaps \subseteq mishaps'
    BY MishapsGrow
  <2>2. CASE Sweep \/ \E i \in Invoices : SweepInvoices(i)
    BY <2>1, <2>2, SweepKeepsBilled
  <2>3. ASSUME NEW i \in Invoices, InvoicePaid(i) PROVE BilledInv'
    BY <2>3 DEF InvoicePaid, BilledInv, ShapeOK, orderVars
  <2>4. CASE ~SweepMarks /\ UNCHANGED <<sweep, billed, invoice>>
    BY <2>1, <2>4, OtherStepsKeepBilled
  <2>5. ASSUME Store \/ (\E w \in Withdrawals : Withdrawal(w))
               \/ (\E i \in Invoices : DeliverInvoicePaid(i)) \/ UNCHANGED vars
        PROVE  UNCHANGED <<sweep, billed, invoice>>
    BY <2>5 DEF Store, SellerPaid, RefundOrder, Waive, Withdrawal, Withdraw, Cancel, Complete,
           ClaimTransfer, TransferMade, TransferFails, CommitSent, CommitFailed, SenderDies,
           StripeReverses, DeliverReversed, DeliverInvoicePaid, vars, invoiceVars
  <2> QED
    BY <2>2, <2>3, <2>4, <2>5 DEF Next, Sweep, Invoice
<1> QED
  BY <1>1, <1>2, LedgerInvariant, PTL DEF Spec

\* No commission row is collected twice, by a withdrawal and an invoice or by
\* two invoices, as long as the sweep stamps the rows it billed.
THEOREM CollectedOnceAlways == Spec => []CollectedOnce
<1>1. ShapeOK /\ BilledInv => CollectedOnce
  BY DEF BilledInv, CollectedOnce, ShapeOK
<1> QED
  BY <1>1, BilledInvariant, LedgerInvariant, PTL

\* The rows of an invoice whose payment was processed are settled, unless the
\* event came before the stamp (settleInvoicedCommission against the sweep).
THEOREM PaidInvoiceIsSettledAlways == Spec => []PaidInvoiceIsSettled
<1>1. Init => PaidInvoiceIsSettled
  BY DEF Init, PaidInvoiceIsSettled
<1>2. ShapeOK /\ LedgerInv /\ PaidInvoiceIsSettled /\ [Next]_vars => PaidInvoiceIsSettled'
  <2> SUFFICES ASSUME ShapeOK, LedgerInv, PaidInvoiceIsSettled, [Next]_vars,
                      "early" \notin mishaps',
                      NEW i \in settledInv', NEW r \in Row, collector'[r] = i
               PROVE  charge'[r] = "SETTLED"
    BY DEF PaidInvoiceIsSettled
  <2>1. "early" \notin mishaps
    BY MishapsGrow
  <2>2. CASE i \in settledInv
    <3>1. collector[r] = i => charge[r] = "SETTLED"
      BY <2>1, <2>2 DEF PaidInvoiceIsSettled
    <3>2. CASE charge[r] = "none"
      BY <3>1, <3>2, LedgerStep
    <3>3. CASE RowMoves(r) /\ ~SweepMarks
      BY <3>1, <3>3 DEF RowMoves
    <3>4. CASE SweepMarks
      <4>1. sweep.invoice # i
        BY <2>2, <3>4 DEF SweepMarks
      <4> QED
        BY <3>1, <3>4, <4>1 DEF SweepMarks, ShapeOK, Stampable
    <3> QED
      BY <3>2, <3>3, <3>4, LedgerStep
  <2>3. CASE i \notin settledInv
    <3>1. DeliverInvoicePaid(i) /\ i \in Invoices
      BY <2>3 DEF Next, Store, SellerPaid, RefundOrder, Waive, Withdrawal, Withdraw, Cancel, Complete,
           ClaimTransfer, TransferMade, TransferFails, CommitSent, CommitFailed, SenderDies,
           StripeReverses, DeliverReversed, DeliverInvoicePaid, vars, invoiceVars, Sweep,
           SweepSelects, SweepMarks, SweepStops, Invoice, SweepInvoices, InvoicePaid
    <3>2. collector[r] = i /\ i # "none"
      BY <3>1, CollectorAssumption DEF DeliverInvoicePaid
    <3>3. charge[r] \in Collected
      BY <3>2 DEF LedgerInv, CollectorsCollected
    <3> QED
      BY <3>1, <3>2, <3>3 DEF DeliverInvoicePaid, SettledBy, Collected
  <2> QED
    BY <2>2, <2>3
<1> QED
  BY <1>1, <1>2, LedgerInvariant, PTL DEF Spec

-----------------------------------------------------------------------------
(* Amounts.                                                                 *)

\* The ledger of a store is finite: two rows at most for each manual order.
LEMMA RowFinite == IsFiniteSet(Row)
<1> DEFINE K == {"SALE", "REFUND_CREDIT"}
           f == [p \in Manual \X K |-> [order |-> p[1], kind |-> p[2]]]
<1>1. IsFiniteSet(K)
  <2>1. IsFiniteSet({} \cup {"SALE"})
    BY FS_EmptySet, FS_AddElement
  <2>2. IsFiniteSet(({} \cup {"SALE"}) \cup {"REFUND_CREDIT"})
    BY <2>1, FS_AddElement
  <2>3. ({} \cup {"SALE"}) \cup {"REFUND_CREDIT"} = K
    OBVIOUS
  <2> QED
    BY <2>2, <2>3
<1>2. IsFiniteSet(Manual \X K)
  BY <1>1, FiniteAssumption, FS_Product
<1>3. f \in Surjection(Manual \X K, Row)
  <2>1. f \in [Manual \X K -> Row]
    BY DEF Row
  <2>2. ASSUME NEW r \in Row PROVE \E p \in Manual \X K : f[p] = r
    <3>1. <<r.order, r.kind>> \in Manual \X K /\ f[<<r.order, r.kind>>] = r
      BY DEF Row
    <3> QED
      BY <3>1
  <2> QED
    BY <2>1, <2>2 DEF Surjection
<1> QED
  BY <1>2, <1>3, FS_Surjection

\* Its amounts are integers, so that every selection of rows and of orders has
\* a total.
LEMMA TotalsDefined ==
    /\ \A r \in Row : RowCents[r] \in Int
    /\ \A o \in Sales : Cents[o] \in Nat
    /\ \A S \in SUBSET Row : IsFiniteSet(S) /\ Total(RowCents, S) \in Int
    /\ \A S \in SUBSET Sales : IsFiniteSet(S) /\ Total(Cents, S) \in Int
<1>1. \A r \in Row : RowCents[r] \in Int
  BY MoneyAssumption DEF RowCents, Row, Orders
<1>2. \A o \in Sales : Cents[o] \in Nat
  BY MoneyAssumption DEF Orders
<1>3. ASSUME NEW S \in SUBSET Row PROVE IsFiniteSet(S) /\ Total(RowCents, S) \in Int
  <2>1. IsFiniteSet(S)
    BY RowFinite, FS_Subset
  <2> QED
    BY <1>1, <2>1, TotalInt
<1>4. ASSUME NEW S \in SUBSET Sales PROVE IsFiniteSet(S) /\ Total(Cents, S) \in Int
  <2>1. IsFiniteSet(S)
    BY FiniteAssumption, FS_Subset
  <2> QED
    BY <1>2, <2>1, TotalInt
<1> QED
  BY <1>1, <1>2, <1>3, <1>4

\* planCommissionSettlement: the credits among the rows it withholds from a
\* payout of n never exceed the payout, by induction over the list it walks.
LEMMA SettlementNeverOvershoots ==
    ASSUME ShapeOK, NEW n \in Nat, NEW settled \in SUBSET Row, IsSettlement(settled, n),
           \A r \in settled : \E k \in 1..Len(rows) : rows[k] = r
    PROVE  n + Total(RowCents, settled) >= 0
<1> DEFINE before(k) == {rows[j] : j \in 1..k} \cap settled
           T == {k \in Nat : k <= Len(rows) => n + Total(RowCents, before(k)) >= 0}
<1>0. Len(rows) \in Nat /\ \A k \in 1..Len(rows) : rows[k] \in Row
  BY DEF ShapeOK
<1>1. 0 \in T
  <2>1. before(0) = {}
    OBVIOUS
  <2>2. n + Total(RowCents, before(0)) >= 0
    <3> HIDE DEF before
    <3> QED
      BY <2>1, TotalEmpty
  <2> QED
    BY <2>2
<1>2. ASSUME NEW k \in T PROVE k + 1 \in T
  <2> SUFFICES ASSUME k + 1 <= Len(rows)
               PROVE  n + Total(RowCents, before(k + 1)) >= 0
    OBVIOUS
  <2>1. n + Total(RowCents, before(k)) >= 0
    OBVIOUS
  <2>2. before(k + 1) = before(k) \cup ({rows[k + 1]} \cap settled)
    <3>1. 1..(k + 1) = 1..k \cup {k + 1}
      OBVIOUS
    <3> QED
      BY <3>1
  <2>3. CASE rows[k + 1] \in settled /\ rows[k + 1] \notin before(k)
    <3>1. before(k + 1) = before(k) \cup {rows[k + 1]}
      BY <2>2, <2>3
    <3>2. k + 1 \in 1..Len(rows) /\ 1..((k + 1) - 1) = 1..k
      BY <1>0
    <3>3. Absorbs(n + Total(RowCents, before(k)), RowCents[rows[k + 1]])
      BY <2>3, <3>2 DEF IsSettlement
    <3>4. before(k) \in SUBSET Row /\ rows[k + 1] \in Row
      BY <1>0
    <3>5. Total(RowCents, before(k + 1)) = RowCents[rows[k + 1]] + Total(RowCents, before(k))
      <4> HIDE DEF before
      <4>1. IsFiniteSet(before(k)) /\ \A x \in before(k) \cup {rows[k + 1]} : RowCents[x] \in Int
        BY <3>4, TotalsDefined
      <4> QED
        BY <2>3, <3>1, <4>1, TotalAdd
    <3>6. Total(RowCents, before(k)) \in Int /\ RowCents[rows[k + 1]] \in Int
      BY <3>4, TotalsDefined
    <3> HIDE DEF before
    <3> QED
      BY <3>3, <3>5, <3>6 DEF Absorbs
  <2>4. CASE ~(rows[k + 1] \in settled /\ rows[k + 1] \notin before(k))
    <3>1. before(k + 1) = before(k)
      BY <2>2, <2>4
    <3> QED
      BY <2>1, <3>1
  <2> QED
    BY <2>3, <2>4
<1>3. T = Nat
  <2> HIDE DEF T
  <2>1. T \in SUBSET Nat
    BY DEF T
  <2> QED
    BY <1>1, <1>2, <2>1, NatInduct
<1>4. before(Len(rows)) = settled
  OBVIOUS
<1>5. n + Total(RowCents, before(Len(rows))) >= 0
  <2> HIDE DEF before
  <2>1. Len(rows) \in T
    BY <1>0, <1>3
  <2> QED
    BY <1>0, <2>1
<1> QED
  BY <1>4, <1>5

\* What the other steps of the store leave alone: no amount of a withdrawal is
\* rewritten, no row is settled but by an invoice, and no withdrawal comes back
\* into the balance but by a late send-transfer.
LEMMA OtherStepsKeepAmounts ==
    ASSUME ShapeOK, [Next]_vars,
           ~ \E w \in Withdrawals, n \in Amounts : Withdraw(w, n)
    PROVE  /\ UNCHANGED <<net, withheld>>
           /\ \A r \in Row : charge[r] = "OWED" => charge'[r] # "SETTLED"
           /\ \A w \in Withdrawals : status[w] # "none" => status'[w] # "none"
           /\ "reopened" \notin mishaps' =>
                \A w \in Withdrawals : status'[w] \in Reserving => status[w] \in Reserving
<1> USE DEF ShapeOK, orderVars, requestVars, transferVars, invoiceVars
<1>1. CASE Store
  <2>1. ASSUME NEW o \in Orders, SellerPaid(o) \/ RefundOrder(o)
        PROVE  /\ UNCHANGED <<net, withheld, status>>
               /\ \A r \in Row : charge'[r] # charge[r] => charge'[r] \in {"OWED", "WAIVED"}
    BY <2>1 DEF SellerPaid, RefundOrder, AddRow
  <2>2. CASE Waive
    BY <2>2 DEF Waive
  <2> QED
    BY <1>1, <2>1, <2>2 DEF Store
<1>2. ASSUME NEW w \in Withdrawals, Withdrawal(w)
      PROVE  /\ UNCHANGED <<net, withheld, charge>>
             /\ \A v \in Withdrawals : status[v] # "none" => status'[v] # "none"
             /\ "reopened" \notin mishaps' =>
                  \A v \in Withdrawals : status'[v] \in Reserving => status[v] \in Reserving
  <2>1. CASE Cancel(w) \/ Complete(w)
    BY <2>1 DEF Cancel, Complete, Reserving
  <2>2. CASE ClaimTransfer(w) \/ TransferMade(w) \/ TransferFails(w) \/ SenderDies(w)
             \/ StripeReverses(w) \/ DeliverReversed(w)
    BY <2>2 DEF ClaimTransfer, TransferMade, TransferFails, SenderDies, StripeReverses,
                DeliverReversed, Reserving
  <2>3. CASE CommitSent(w) \/ CommitFailed(w)
    BY <2>3 DEF CommitSent, CommitFailed, Reserving, NoteWhen
  <2> QED
    BY <1>2, <2>1, <2>2, <2>3 DEF Withdrawal
<1>3. CASE Sweep
  BY <1>3 DEF Sweep, SweepSelects, SweepMarks, SweepStops
<1>4. ASSUME NEW i \in Invoices, Invoice(i)
      PROVE  /\ UNCHANGED <<net, withheld, status>>
             /\ \A r \in Row : charge[r] = "OWED" => charge'[r] # "SETTLED"
  BY <1>4 DEF Invoice, SweepInvoices, InvoicePaid, DeliverInvoicePaid, SettledBy
<1>5. CASE UNCHANGED vars
  BY <1>5 DEF vars
<1> QED
  BY <1>1, <1>2, <1>3, <1>4, <1>5 DEF Next

\* A charged row is in the list that planCommissionSettlement walks.
RowsListed == \A r \in Row : charge[r] # "none" => \E k \in 1..Len(rows) : rows[k] = r

\* Rows are only appended, and a row is charged when it is appended.
LEMMA RowsStep ==
    ASSUME ShapeOK, RowsListed, [Next]_vars
    PROVE  RowsListed'
<1> USE DEF ShapeOK, orderVars, requestVars, transferVars, invoiceVars
<1>1. CASE CollectingStep
  <2>1. \A r \in Row : RowMoves(r)
    BY <1>1, CollectingStepMoves
  <2>2. rows' = rows
    BY <1>1 DEF CollectingStep, Waive, Withdrawal, Withdraw, Cancel, Complete, ClaimTransfer,
           TransferMade, TransferFails, CommitSent, CommitFailed, SenderDies, StripeReverses,
           DeliverReversed, Sweep, SweepSelects, SweepMarks, SweepStops, Invoice, SweepInvoices,
           InvoicePaid, DeliverInvoicePaid, vars
  <2>3. \A r \in Row : charge'[r] # "none" => charge[r] # "none"
    BY <2>1 DEF RowMoves
  <2> QED
    BY <2>2, <2>3 DEF RowsListed
<1>2. ASSUME NEW q \in Row, AddRow(q) PROVE RowsListed'
  <2>1. /\ Len(rows') = Len(rows) + 1 /\ Len(rows) \in Nat
        /\ rows'[Len(rows) + 1] = q
        /\ \A k \in 1..Len(rows) : rows'[k] = rows[k]
    BY <1>2 DEF AddRow
  <2>2. 1..Len(rows') = 1..Len(rows) \cup {Len(rows) + 1}
    BY <2>1
  <2>3. charge' = [charge EXCEPT ![q] = "OWED"]
    BY <1>2 DEF AddRow
  <2> SUFFICES ASSUME NEW r \in Row, charge'[r] # "none"
               PROVE  \E k \in 1..Len(rows') : rows'[k] = r
    BY DEF RowsListed
  <2>4. CASE r = q
    BY <2>1, <2>2, <2>4
  <2>5. CASE r # q
    <3>1. PICK k \in 1..Len(rows) : rows[k] = r
      BY <2>3, <2>5 DEF RowsListed
    <3>2. k \in 1..Len(rows') /\ rows'[k] = r
      BY <2>1, <2>2, <3>1
    <3> QED
      BY <3>2
  <2> QED
    BY <2>4, <2>5
<1>3. ASSUME NEW o \in Orders, SellerPaid(o) \/ RefundOrder(o)
      PROVE  \/ \E q \in Row : AddRow(q)
             \/ rows' = rows /\ \A r \in Row : charge'[r] # "none" => charge[r] # "none"
  <2>1. o \in Manual => SaleRow(o) \in Row /\ CreditRow(o) \in Row
    BY RowsOfOrders
  <2>2. CASE SellerPaid(o)
    BY <2>1, <2>2 DEF SellerPaid
  <2>3. CASE RefundOrder(o)
    <3>1. CASE o \in Manual /\ charge[SaleRow(o)] \in Collected
      BY <2>1, <2>3, <3>1 DEF RefundOrder
    <3>2. CASE o \in Manual /\ charge[SaleRow(o)] = "OWED" /\ charge[SaleRow(o)] \notin Collected
      BY <2>1, <2>3, <3>2 DEF RefundOrder
    <3>3. CASE ~(o \in Manual /\ (charge[SaleRow(o)] = "OWED" \/ charge[SaleRow(o)] \in Collected))
      BY <2>3, <3>3 DEF RefundOrder
    <3> QED
      BY <3>1, <3>2, <3>3
  <2> QED
    BY <1>3, <2>2, <2>3
<1>4. ASSUME NEW o \in Orders, SellerPaid(o) \/ RefundOrder(o) PROVE RowsListed'
  BY <1>2, <1>3, <1>4 DEF RowsListed
<1> QED
  BY <1>1, <1>4 DEF Next, Store, CollectingStep

\* Neither side of a withdrawal is a negative amount.
LEMMA AmountsStep ==
    ASSUME ShapeOK, RowsListed, AmountsOK, [Next]_vars
    PROVE  AmountsOK'
<1>1. CASE ~ \E w \in Withdrawals, n \in Amounts : Withdraw(w, n)
  BY <1>1, OtherStepsKeepAmounts DEF AmountsOK
<1>2. ASSUME NEW w \in Withdrawals, NEW n \in Amounts, Withdraw(w, n)
      PROVE  AmountsOK'
  <2>1. PICK settled \in SUBSET Settleable :
          /\ IsSettlement(settled, n)
          /\ withheld' = [withheld EXCEPT ![w] = Total(RowCents, settled)]
    BY <1>2 DEF Withdraw
  <2>2. settled \in SUBSET Row /\ n \in Nat
    BY MoneyAssumption DEF Settleable
  <2>3. \A r \in settled : \E k \in 1..Len(rows) : rows[k] = r
    BY DEF Settleable, RowsListed
  <2>4. n + Total(RowCents, settled) >= 0
    BY <2>1, <2>2, <2>3, SettlementNeverOvershoots
  <2>5. Total(RowCents, settled) \in Int
    BY <2>2, TotalsDefined
  <2>6. net' = [net EXCEPT ![w] = n]
    BY <1>2 DEF Withdraw
  <2> QED
    BY <2>1, <2>2, <2>4, <2>5, <2>6 DEF AmountsOK
<1> QED
  BY <1>1, <1>2

\* Type correctness: the shapes, and amounts that are legal debits.
THEOREM TypeCorrect == Spec => []TypeOK
<1>1. Init => RowsListed /\ AmountsOK
  BY DEF Init, RowsListed, AmountsOK
<1>2. ShapeOK /\ RowsListed /\ AmountsOK /\ [Next]_vars => RowsListed' /\ AmountsOK'
  BY RowsStep, AmountsStep
<1> QED
  BY <1>1, <1>2, ShapeCorrect, PTL DEF Spec, TypeOK

-----------------------------------------------------------------------------
(* What a withdrawal withholds, and the balance.                            *)

\* The rows a withdrawal settled.
WithheldRows(w) == {r \in Row : collector[r] = w /\ charge[r] = "SETTLED"}

\* SettlementAddsUp, and why it survives a new withdrawal: no row names a
\* withdrawal that was not requested, nor one that does not hold it.
SettlementInv ==
    \A w \in Withdrawals :
        /\ withheld[w] = Total(RowCents, WithheldRows(w))
        /\ \A r \in Row : collector[r] = w => charge[r] = "SETTLED" /\ status[w] # "none"

\* The request of a withdrawal settles the rows it withholds and no other.
LEMMA WithdrawSettles ==
    ASSUME ShapeOK, LedgerInv, SettlementInv, AmountsOK,
           NEW w \in Withdrawals, NEW n \in Amounts, Withdraw(w, n)
    PROVE  SettlementInv'
<1>1. PICK settled \in SUBSET Settleable :
        /\ withheld' = [withheld EXCEPT ![w] = Total(RowCents, settled)]
        /\ charge' = [r \in Row |-> IF r \in settled THEN "SETTLED" ELSE charge[r]]
        /\ collector' = [r \in Row |-> IF r \in settled THEN w ELSE collector[r]]
  BY DEF Withdraw
<1>2. status[w] = "none" /\ status' = [status EXCEPT ![w] = "PENDING"]
  BY DEF Withdraw
<1>3. \A r \in Row : collector[r] # w
  BY <1>2 DEF SettlementInv
<1>4. \A r \in settled : r \in Row /\ charge[r] = "OWED" /\ collector[r] \notin Withdrawals
  BY CollectorAssumption DEF Settleable, SettlementInv
<1>5. WithheldRows(w)' = settled
  BY <1>1, <1>3, <1>4 DEF WithheldRows
<1>6. \A v \in Withdrawals \ {w} : WithheldRows(v)' = WithheldRows(v)
  BY <1>1, <1>4 DEF WithheldRows
<1>7. \A v \in Withdrawals :
        withheld'[v] = IF v = w THEN Total(RowCents, settled) ELSE withheld[v]
  BY <1>1 DEF AmountsOK
<1>8. RowCents' = RowCents
  BY DEF RowCents
<1>9. \A v \in Withdrawals : withheld'[v] = Total(RowCents, WithheldRows(v)')
  BY <1>5, <1>6, <1>7 DEF SettlementInv
<1>10. ASSUME NEW v \in Withdrawals, NEW r \in Row, collector'[r] = v
       PROVE  charge'[r] = "SETTLED" /\ status'[v] # "none"
  <2>1. status \in [Withdrawals -> WithdrawalStatuses]
    BY DEF ShapeOK
  <2>2. CASE r \in settled
    BY <1>1, <1>2, <1>10, <2>1, <2>2
  <2>3. CASE r \notin settled
    BY <1>1, <1>2, <1>10, <2>1, <2>3 DEF SettlementInv
  <2> QED
    BY <2>2, <2>3
<1> QED
  BY <1>9, <1>10 DEF SettlementInv

\* The other steps change no row that a withdrawal settled.
LEMMA OtherStepsKeepSettlement ==
    ASSUME ShapeOK, LedgerInv, SettlementInv, [Next]_vars,
           ~ \E w \in Withdrawals, n \in Amounts : Withdraw(w, n)
    PROVE  SettlementInv'
<1>1. /\ withheld' = withheld
      /\ \A r \in Row : charge[r] = "OWED" => charge'[r] # "SETTLED"
      /\ \A w \in Withdrawals : status[w] # "none" => status'[w] # "none"
  BY OtherStepsKeepAmounts
<1>2. ASSUME NEW r \in Row, NEW w \in Withdrawals
      PROVE  /\ collector'[r] = w <=> collector[r] = w
             /\ collector'[r] = w => charge'[r] = charge[r]
  <2>1. collector[r] = w => charge[r] = "SETTLED"
    BY DEF SettlementInv
  <2>2. CASE charge[r] = "none"
    <3>1. UNCHANGED collector[r]
      BY <2>2, LedgerStep
    <3> QED
      BY <2>1, <2>2, <3>1
  <2>3. CASE charge[r] # "none"
    <3>1. RowMoves(r)
      BY <2>3, LedgerStep
    <3>2. sweep.invoice # w
      BY CollectorAssumption DEF ShapeOK
    <3> QED
      BY <1>1, <2>1, <3>1, <3>2 DEF RowMoves
  <2> QED
    BY <2>2, <2>3
<1>3. \A w \in Withdrawals : WithheldRows(w)' = WithheldRows(w)
  BY <1>2 DEF WithheldRows
<1>4. \A w \in Withdrawals : withheld'[w] = Total(RowCents, WithheldRows(w)')
  BY <1>1, <1>3 DEF SettlementInv
<1>5. \A w \in Withdrawals, r \in Row :
        collector'[r] = w => charge'[r] = "SETTLED" /\ status'[w] # "none"
  BY <1>1, <1>2 DEF SettlementInv
<1>6. RowCents' = RowCents
  BY DEF RowCents
<1> QED
  BY <1>4, <1>5, <1>6 DEF SettlementInv

\* What a withdrawal withholds is the sum of the rows stamped with it, whatever
\* the sweep, the waiver and the refunds do to the ledger afterwards.
THEOREM SettlementAlwaysAddsUp == Spec => []SettlementAddsUp
<1>1. Init => SettlementInv
  <2> SUFFICES ASSUME Init PROVE SettlementInv
    OBVIOUS
  <2>1. ASSUME NEW w \in Withdrawals
        PROVE  /\ withheld[w] = Total(RowCents, WithheldRows(w))
               /\ \A r \in Row : collector[r] # w
    <3>1. WithheldRows(w) = {} /\ withheld[w] = 0 /\ \A r \in Row : collector[r] # w
      BY CollectorAssumption DEF Init, WithheldRows
    <3> QED
      BY <3>1, TotalEmpty
  <2> QED
    BY <2>1 DEF SettlementInv
<1>2. ShapeOK /\ LedgerInv /\ TypeOK /\ SettlementInv /\ [Next]_vars => SettlementInv'
  BY WithdrawSettles, OtherStepsKeepSettlement DEF TypeOK
<1>3. SettlementInv => SettlementAddsUp
  BY DEF SettlementInv, SettlementAddsUp, WithheldRows
<1> QED
  BY <1>1, <1>2, <1>3, LedgerInvariant, TypeCorrect, PTL DEF Spec

\* The orders the store was ever paid for.
EverPaid == {o \in Sales : order[o] # "pending"}

\* Nothing leaves the set of orders that were paid.
LEMMA EverPaidGrows ==
    ASSUME ShapeOK, [Next]_vars
    PROVE  Total(Cents, EverPaid) <= Total(Cents, EverPaid')
<1>1. EverPaid \subseteq EverPaid'
  <2>1. \A o \in Orders : order[o] # "pending" => order'[o] # "pending"
    <3>1. CASE CollectingStep
      BY <3>1, CollectingStepMoves
    <3>2. ASSUME NEW p \in Orders, SellerPaid(p) \/ RefundOrder(p)
          PROVE  \A o \in Orders : order[o] # "pending" => order'[o] # "pending"
      BY <3>2 DEF SellerPaid, RefundOrder, ShapeOK
    <3> QED
      BY <3>1, <3>2 DEF Next, Store, CollectingStep
  <2> QED
    BY <2>1 DEF EverPaid, Orders
<1>2. EverPaid \in SUBSET Sales /\ EverPaid' \in SUBSET Sales
  BY DEF EverPaid
<1> QED
  BY <1>1, <1>2, FiniteAssumption, TotalsDefined, TotalGrows

\* A balance is never larger than what the store was paid.
LEMMA EarnedWithinEverPaid == Earned \in Int /\ Earned <= Total(Cents, EverPaid)
<1>1. {o \in Sales : order[o] = "paid"} \subseteq EverPaid /\ EverPaid \in SUBSET Sales
  BY DEF EverPaid
<1>2. {o \in Sales : order[o] = "paid"} \in SUBSET Sales
  OBVIOUS
<1> QED
  BY <1>1, <1>2, FiniteAssumption, TotalsDefined, TotalGrows DEF Earned

\* The withdrawals that count against the balance.
Counted == {w \in Withdrawals : status[w] \in Reserving}

\* Their debits are naturals and have a total.
LEMMA CountedTotals ==
    ASSUME AmountsOK
    PROVE  /\ \A w \in Withdrawals : Debit[w] \in Nat
           /\ \A S \in SUBSET Withdrawals : IsFiniteSet(S) /\ Total(Debit, S) \in Int
           /\ Reserved = Total(Debit, Counted)
<1>1. \A w \in Withdrawals : Debit[w] \in Nat
  BY DEF AmountsOK, Debit
<1>2. ASSUME NEW S \in SUBSET Withdrawals PROVE IsFiniteSet(S) /\ Total(Debit, S) \in Int
  <2>1. IsFiniteSet(S)
    BY FiniteAssumption, FS_Subset
  <2> QED
    BY <1>1, <2>1, TotalInt
<1> QED
  BY <1>1, <1>2 DEF Reserved, Counted

\* Steps that are no request do not raise what is reserved, unless send-transfer
\* reopened a withdrawal.
LEMMA OtherStepsKeepReserved ==
    ASSUME ShapeOK, AmountsOK, [Next]_vars, "reopened" \notin mishaps',
           ~ \E w \in Withdrawals, n \in Amounts : Withdraw(w, n)
    PROVE  Reserved' <= Reserved
<1>1. /\ UNCHANGED <<net, withheld>>
      /\ \A w \in Withdrawals : status'[w] \in Reserving => status[w] \in Reserving
  BY OtherStepsKeepAmounts
<1>2. Debit' = Debit /\ Counted' \subseteq Counted /\ Counted \in SUBSET Withdrawals
  BY <1>1 DEF Debit, Counted
<1>3. Reserved' = Total(Debit, Counted')
  BY <1>2 DEF Reserved, Counted
<1> QED
  BY <1>2, <1>3, CountedTotals, TotalGrows

\* A request adds its gross debit.
LEMMA WithdrawReserves ==
    ASSUME ShapeOK, AmountsOK, AmountsOK', NEW w \in Withdrawals, NEW n \in Amounts,
           Withdraw(w, n), "skipped" \notin mishaps'
    PROVE  Reserved' = Reserved + n + Owed
<1>1. PICK settled \in SUBSET Settleable :
        /\ withheld' = [withheld EXCEPT ![w] = Total(RowCents, settled)]
        /\ NoteWhen(settled # OwedRows, "skipped")
  BY DEF Withdraw
<1>2. settled = OwedRows
  BY <1>1 DEF NoteWhen
<1>3. Debit'[w] = n + Owed
  <2>1. net' = [net EXCEPT ![w] = n]
    BY DEF Withdraw
  <2> QED
    BY <1>1, <1>2, <2>1 DEF Debit, Owed, AmountsOK
<1>4. \A v \in Withdrawals \ {w} : Debit'[v] = Debit[v]
  BY <1>1 DEF Withdraw, Debit, AmountsOK
<1>5. w \notin Counted /\ Counted' = Counted \cup {w} /\ Counted \in SUBSET Withdrawals
  BY DEF Withdraw, Counted, Reserving, ShapeOK
<1>6. \A v \in Withdrawals : Debit'[v] \in Nat
  BY DEF AmountsOK, Debit
<1>7. IsFiniteSet(Counted)
  BY <1>5, CountedTotals
<1>8. Total(Debit', Counted \cup {w}) = Debit'[w] + Total(Debit', Counted)
  BY <1>5, <1>6, <1>7, TotalAdd
<1>9. Total(Debit', Counted) = Total(Debit, Counted)
  BY <1>4, <1>5, <1>7, TotalAgree
<1>10. Reserved' = Total(Debit', Counted')
  BY DEF Reserved, Counted
<1>11. Owed \in Int /\ n \in Int /\ Reserved \in Int /\ Reserved = Total(Debit, Counted)
  BY <1>5, MoneyAssumption, TotalsDefined, CountedTotals DEF Owed, OwedRows
<1> QED
  BY <1>3, <1>5, <1>8, <1>9, <1>10, <1>11

\* No overdraft, whatever interleaving of requests, transfers, cancellations,
\* refunds and sweeps, as long as no credit was skipped and send-transfer
\* completed no withdrawal that was not claimed.
THEOREM NoOverdraft == Spec => []ReservedWithinEarned
<1>1. Init => ReservedWithinEarned
  <2> SUFFICES ASSUME Init PROVE ReservedWithinEarned
    OBVIOUS
  <2>1. {w \in Withdrawals : status[w] \in Reserving} = {}
    BY DEF Init, Reserving
  <2>2. {o \in Sales : order[o] # "pending"} = {}
    BY DEF Init, Orders
  <2>3. Reserved = 0
    BY <2>1, TotalEmpty DEF Reserved
  <2> QED
    BY <2>2, <2>3, TotalEmpty DEF ReservedWithinEarned
<1>2. TypeOK /\ TypeOK' /\ ReservedWithinEarned /\ [Next]_vars => ReservedWithinEarned'
  <2> SUFFICES ASSUME ShapeOK, AmountsOK, AmountsOK', ReservedWithinEarned, [Next]_vars,
                      mishaps' \cap {"skipped", "reopened"} = {}
               PROVE  Reserved' <= Total(Cents, EverPaid')
    BY DEF TypeOK, ReservedWithinEarned, EverPaid
  <2>1. Reserved <= Total(Cents, EverPaid)
    BY MishapsGrow DEF ReservedWithinEarned, EverPaid
  <2>2. Total(Cents, EverPaid) <= Total(Cents, EverPaid')
    BY EverPaidGrows
  <2>3. /\ Total(Cents, EverPaid) \in Int /\ Total(Cents, EverPaid') \in Int
        /\ Reserved \in Int /\ Reserved' \in Int
    <3>1. EverPaid \in SUBSET Sales /\ EverPaid' \in SUBSET Sales
      BY DEF EverPaid
    <3>2. Reserved \in Int
      BY CountedTotals DEF Counted
    <3>3. Reserved' \in Int
      <4>1. Counted' \in SUBSET Withdrawals /\ \A w \in Withdrawals : Debit'[w] \in Nat
        BY DEF Counted, Debit, AmountsOK
      <4>2. IsFiniteSet(Counted')
        BY <4>1, FiniteAssumption, FS_Subset
      <4>3. Total(Debit', Counted') \in Int
        BY <4>1, <4>2, TotalInt
      <4>4. Reserved' = Total(Debit', Counted')
        BY DEF Reserved, Counted
      <4> QED
        BY <4>3, <4>4
    <3> QED
      BY <3>1, <3>2, <3>3, TotalsDefined
  <2>4. CASE ~ \E w \in Withdrawals, n \in Amounts : Withdraw(w, n)
    <3>1. Reserved' <= Reserved
      BY <2>4, OtherStepsKeepReserved
    <3> QED
      BY <2>1, <2>2, <2>3, <3>1
  <2>5. ASSUME NEW w \in Withdrawals, NEW n \in Amounts, Withdraw(w, n)
        PROVE  Reserved' <= Total(Cents, EverPaid')
    <3>1. Reserved' = Reserved + n + Owed
      BY <2>5, WithdrawReserves
    <3>2. n <= Balance - Owed
      BY <2>5 DEF Withdraw, Available
    <3>3. Earned \in Int /\ Earned <= Total(Cents, EverPaid)
      BY EarnedWithinEverPaid
    <3>4. Owed \in Int /\ n \in Int
      BY MoneyAssumption, TotalsDefined DEF Owed, OwedRows
    <3>5. CASE Earned > Reserved
      BY <2>2, <2>3, <3>1, <3>2, <3>3, <3>4, <3>5 DEF Balance
    <3>6. CASE ~(Earned > Reserved)
      BY <2>1, <2>2, <2>3, <3>1, <3>2, <3>4, <3>6 DEF Balance
    <3> QED
      BY <3>5, <3>6
  <2> QED
    BY <2>4, <2>5
<1> QED
  BY <1>1, <1>2, TypeCorrect, PTL DEF Spec
=============================================================================
