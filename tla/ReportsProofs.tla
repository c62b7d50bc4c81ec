--------------------------- MODULE ReportsProofs ---------------------------
(***************************************************************************)
(* Theorems about Reports, for any finite number of orders, any prices and *)
(* any interleaving of the two queries with other transactions.            *)
(*                                                                         *)
(* A report writes none of the rows it reads, so the invariant of module   *)
(* Ledger holds in Reports as well.  To it ReportsInv adds what a report   *)
(* remembers of its first query: those orders stay sold and keep their     *)
(* price, so what the second query reads can be compared with it order by  *)
(* order, and the sums compared by the lemmas about SumOf.                 *)
(***************************************************************************)
EXTENDS Reports, LedgerProofs, FiniteSetTheorems

-----------------------------------------------------------------------------
(* Sums.  SumOf is a fold, the CHOOSE of a table that has an entry for     *)
(* every subset of the set summed over.  That such a table exists, and     *)
(* that any two agree, is proved by induction on the strict subsets of a   *)
(* finite set; the rest follows from the equation SumOfPick.               *)

\* The element a table takes out of T first.
Pick(T) == CHOOSE k \in T : TRUE

\* Table h has the sum of f over every subset of S.
Adds(h, f, S) ==
    h = [T \in SUBSET S |-> IF T = {} THEN 0 ELSE f[Pick(T)] + h[T \ {Pick(T)}]]

\* What holds of a subset of S whenever it holds of its strict subsets holds of S,
\* if S is finite.
LEMMA SubsetInduction ==
  ASSUME NEW S, IsFiniteSet(S), NEW P,
         \A T \in SUBSET S : (\A U \in SUBSET T : U # T => U \in P) => T \in P
  PROVE  S \in P
  <1> DEFINE R == StrictSubsetOrdering(S)
             N == {T \in SUBSET S : T \notin P}
  <1>1. IsWellFoundedOn(R, SUBSET S)
    BY FS_StrictSubsetOrderingWellFounded, FS_FiniteSubsetsOfFinite
  <1>2. SUFFICES ASSUME N # {} PROVE FALSE
    OBVIOUS
  <1>3. N \subseteq SUBSET S
    OBVIOUS
  <1> HIDE DEF R, N
  <1>4. PICK T \in N : \A U \in N : <<U, T>> \notin R
    BY <1>1, <1>2, <1>3, WFMin
  <1>5. \A U \in SUBSET T : U # T => U \in P
    BY <1>4 DEF N, R, StrictSubsetOrdering
  <1> QED BY <1>4, <1>5 DEF N

\* SumOf is such a table's entry for the whole set.
LEMMA SumOfIsAFold ==
  ASSUME NEW f, NEW S
  PROVE  SumOf(f, S) = (CHOOSE h : Adds(h, f, S))[S]
  BY DEF SumOf, MapThenSumSet, MapThenFoldSet, Adds, Pick

\* Two tables agree on any finite set that both know.
LEMMA AddsAgree ==
  ASSUME NEW f, NEW S, NEW T, NEW g, NEW h, Adds(g, f, S), Adds(h, f, T),
         NEW W, IsFiniteSet(W), W \subseteq S, W \subseteq T
  PROVE  g[W] = h[W]
  <1> DEFINE P == {U \in SUBSET W : g[U] = h[U]}
  <1>1. ASSUME NEW U \in SUBSET W, \A V \in SUBSET U : V # U => V \in P
        PROVE  U \in P
    <2>1. CASE U = {}
      BY <2>1 DEF Adds
    <2>2. CASE U # {}
      <3>1. Pick(U) \in U
        BY <2>2 DEF Pick
      <3>2. U \ {Pick(U)} \in P
        BY <1>1, <3>1
      <3> QED BY <2>2, <3>2 DEF Adds
    <2> QED BY <2>1, <2>2
  <1> HIDE DEF P
  <1>2. W \in P
    BY <1>1, SubsetInduction
  <1> QED BY <1>2 DEF P

\* Such a table exists.
LEMMA AddsExists ==
  ASSUME NEW f, NEW S, IsFiniteSet(S)
  PROVE  \E h : Adds(h, f, S)
  <1> DEFINE P == {T \in SUBSET S : \E h : Adds(h, f, T)}
  <1>1. ASSUME NEW T \in SUBSET S, \A U \in SUBSET T : U # T => U \in P
        PROVE  T \in P
    <2> DEFINE H(U) == CHOOSE h : Adds(h, f, U)
               G == [U \in SUBSET T |->
                        IF U = {} THEN 0
                        ELSE f[Pick(U)] + H(U \ {Pick(U)})[U \ {Pick(U)}]]
    <2>1. ASSUME NEW U \in SUBSET T, U # T PROVE Adds(H(U), f, U)
      BY <1>1, <2>1
    <2>2. ASSUME NEW U \in SUBSET T, U # {}
          PROVE  /\ Pick(U) \in U /\ U \ {Pick(U)} \in SUBSET T
                 /\ U \ {Pick(U)} # T
      <3>1. Pick(U) \in U
        BY <2>2 DEF Pick
      <3> QED BY <3>1
    <2> HIDE DEF H
    <2>3. ASSUME NEW U \in SUBSET T, U # T PROVE G[U] = H(U)[U]
      <3>1. Adds(H(U), f, U)
        BY <2>1, <2>3
      <3>2. CASE U = {}
        BY <3>1, <3>2 DEF Adds
      <3>3. CASE U # {}
        <4> DEFINE V == U \ {Pick(U)}
        <4>1. V \in SUBSET T /\ V # T /\ V \subseteq U
          BY <2>2, <3>3
        <4>2. IsFiniteSet(V)
          BY <4>1, FS_Subset
        <4>3. Adds(H(V), f, V)
          BY <2>1, <4>1
        <4>4. H(V)[V] = H(U)[V]
          BY <3>1, <4>1, <4>2, <4>3, AddsAgree
        <4>5. G[U] = f[Pick(U)] + H(V)[V]
          BY <3>3
        <4>6. H(U)[U] = f[Pick(U)] + H(U)[V]
          BY <3>1, <3>3 DEF Adds
        <4> QED BY <4>4, <4>5, <4>6
      <3> QED BY <3>2, <3>3
    <2>4. Adds(G, f, T)
      <3>1. ASSUME NEW U \in SUBSET T, U # {}
            PROVE  G[U] = f[Pick(U)] + G[U \ {Pick(U)}]
        <4>1. G[U \ {Pick(U)}] = H(U \ {Pick(U)})[U \ {Pick(U)}]
          BY <2>2, <2>3, <3>1
        <4> QED BY <3>1, <4>1
      <3>2. G = [U \in SUBSET T |->
                    IF U = {} THEN 0 ELSE f[Pick(U)] + G[U \ {Pick(U)}]]
        <4>1. \A U \in SUBSET T :
                G[U] = IF U = {} THEN 0 ELSE f[Pick(U)] + G[U \ {Pick(U)}]
          BY <3>1
        <4>2. G = [U \in SUBSET T |-> G[U]]
          OBVIOUS
        <4> HIDE DEF G
        <4> QED BY <4>1, <4>2
      <3> HIDE DEF G
      <3> QED BY <3>2 DEF Adds
    <2> HIDE DEF G
    <2> QED BY <2>4
  <1> HIDE DEF P
  <1>2. S \in P
    BY <1>1, SubsetInduction
  <1> QED BY <1>2 DEF P

\* The sum of no element is 0.
LEMMA SumOfEmpty ==
  ASSUME NEW f
  PROVE  SumOf(f, {}) = 0
  <1> DEFINE h == CHOOSE h : Adds(h, f, {})
  <1>1. Adds(h, f, {})
    BY AddsExists, FS_EmptySet
  <1> HIDE DEF h
  <1>2. h[{}] = 0
    BY <1>1 DEF Adds
  <1> QED BY <1>2, SumOfIsAFold DEF h

\* A sum is the element picked first and the sum of the rest.
LEMMA SumOfPick ==
  ASSUME NEW f, NEW S, IsFiniteSet(S), S # {}
  PROVE  /\ Pick(S) \in S
         /\ SumOf(f, S) = f[Pick(S)] + SumOf(f, S \ {Pick(S)})
  <1> DEFINE H(T) == CHOOSE h : Adds(h, f, T)
             T == S \ {Pick(S)}
  <1>1. Pick(S) \in S
    BY DEF Pick
  <1>2. IsFiniteSet(T) /\ T \subseteq S
    BY FS_RemoveElement
  <1>3. Adds(H(S), f, S) /\ Adds(H(T), f, T)
    BY <1>2, AddsExists
  <1>4. SumOf(f, S) = H(S)[S] /\ SumOf(f, T) = H(T)[T]
    BY SumOfIsAFold
  <1> HIDE DEF H
  <1>5. H(S)[S] = f[Pick(S)] + H(S)[T]
    BY <1>3 DEF Adds
  <1>6. H(S)[T] = H(T)[T]
    BY <1>2, <1>3, AddsAgree
  <1> QED BY <1>1, <1>4, <1>5, <1>6

\* A sum of integers is an integer.
LEMMA SumOfInt ==
  ASSUME NEW f, NEW S, IsFiniteSet(S), \A k \in S : f[k] \in Int
  PROVE  SumOf(f, S) \in Int
  <1> DEFINE P == {T \in SUBSET S : SumOf(f, T) \in Int}
  <1>1. ASSUME NEW T \in SUBSET S, \A U \in SUBSET T : U # T => U \in P
        PROVE  SumOf(f, T) \in Int
    <2>1. CASE T = {}
      BY <2>1, SumOfEmpty
    <2>2. CASE T # {}
      <3>1. IsFiniteSet(T)
        BY FS_Subset
      <3>2. /\ Pick(T) \in T
            /\ SumOf(f, T) = f[Pick(T)] + SumOf(f, T \ {Pick(T)})
        BY <2>2, <3>1, SumOfPick
      <3>3. T \ {Pick(T)} \in P
        BY <1>1, <3>2
      <3> QED BY <3>2, <3>3
    <2> QED BY <2>1, <2>2
  <1>2. \A T \in SUBSET S : (\A U \in SUBSET T : U # T => U \in P) => T \in P
    BY <1>1
  <1> HIDE DEF P
  <1>3. S \in P
    BY <1>2, SubsetInduction
  <1> QED BY <1>3 DEF P

\* A sum depends on the values at the elements summed over and on nothing else.
LEMMA SumOfSame ==
  ASSUME NEW f, NEW g, NEW S, IsFiniteSet(S), \A k \in S : f[k] = g[k]
  PROVE  SumOf(f, S) = SumOf(g, S)
  <1> DEFINE P == {T \in SUBSET S : SumOf(f, T) = SumOf(g, T)}
  <1>1. ASSUME NEW T \in SUBSET S, \A U \in SUBSET T : U # T => U \in P
        PROVE  SumOf(f, T) = SumOf(g, T)
    <2>1. CASE T = {}
      BY <2>1, SumOfEmpty
    <2>2. CASE T # {}
      <3>1. IsFiniteSet(T)
        BY FS_Subset
      <3>2. /\ Pick(T) \in T
            /\ SumOf(f, T) = f[Pick(T)] + SumOf(f, T \ {Pick(T)})
            /\ SumOf(g, T) = g[Pick(T)] + SumOf(g, T \ {Pick(T)})
        BY <2>2, <3>1, SumOfPick
      <3>3. T \ {Pick(T)} \in P
        BY <1>1, <3>2
      <3> QED BY <3>2, <3>3
    <2> QED BY <2>1, <2>2
  <1>2. \A T \in SUBSET S : (\A U \in SUBSET T : U # T => U \in P) => T \in P
    BY <1>1
  <1> HIDE DEF P
  <1>3. S \in P
    BY <1>2, SubsetInduction
  <1> QED BY <1>3 DEF P

\* Smaller terms have a smaller sum.
LEMMA SumOfMonotonic ==
  ASSUME NEW f, NEW g, NEW S, IsFiniteSet(S),
         \A k \in S : f[k] \in Int /\ g[k] \in Int /\ f[k] <= g[k]
  PROVE  SumOf(f, S) <= SumOf(g, S)
  <1> DEFINE P == {T \in SUBSET S : SumOf(f, T) <= SumOf(g, T)}
  <1>1. ASSUME NEW T \in SUBSET S, \A U \in SUBSET T : U # T => U \in P
        PROVE  SumOf(f, T) <= SumOf(g, T)
    <2>1. CASE T = {}
      BY <2>1, SumOfEmpty
    <2>2. CASE T # {}
      <3> DEFINE k == Pick(T)
                 U == T \ {k}
      <3>1. IsFiniteSet(T)
        BY FS_Subset
      <3>2. /\ k \in T
            /\ SumOf(f, T) = f[k] + SumOf(f, U)
            /\ SumOf(g, T) = g[k] + SumOf(g, U)
        BY <2>2, <3>1, SumOfPick
      <3>3. SumOf(f, U) <= SumOf(g, U)
        BY <1>1, <3>2
      <3>4. SumOf(f, U) \in Int /\ SumOf(g, U) \in Int
        <4>1. IsFiniteSet(U)
          BY <3>1, FS_RemoveElement
        <4> QED BY <4>1, SumOfInt
      <3>5. f[k] \in Int /\ g[k] \in Int /\ f[k] <= g[k]
        BY <3>2
      <3> HIDE DEF k, U
      <3> QED BY <3>2, <3>3, <3>4, <3>5
    <2> QED BY <2>1, <2>2
  <1>2. \A T \in SUBSET S : (\A U \in SUBSET T : U # T => U \in P) => T \in P
    BY <1>1
  <1> HIDE DEF P
  <1>3. S \in P
    BY <1>2, SubsetInduction
  <1> QED BY <1>3 DEF P

\* Any element can be taken out of a sum, whichever is picked first: the orders
\* of a report are added up in no particular order.
LEMMA SumOfTakeOut ==
  ASSUME NEW f, NEW S, IsFiniteSet(S), \A k \in S : f[k] \in Int, NEW x \in S
  PROVE  SumOf(f, S) = f[x] + SumOf(f, S \ {x})
  <1> DEFINE P == {T \in SUBSET S :
                     \A y \in T : SumOf(f, T) = f[y] + SumOf(f, T \ {y})}
  <1>1. ASSUME NEW T \in SUBSET S, \A U \in SUBSET T : U # T => U \in P,
               NEW y \in T
        PROVE  SumOf(f, T) = f[y] + SumOf(f, T \ {y})
    <2> DEFINE k == Pick(T)
               U == T \ {k}
               V == T \ {y}
               W == T \ {k, y}
    <2>1. IsFiniteSet(T) /\ IsFiniteSet(U) /\ IsFiniteSet(V) /\ IsFiniteSet(W)
      BY FS_Subset, U \in SUBSET T, V \in SUBSET T, W \in SUBSET T
    <2>2. k \in T /\ SumOf(f, T) = f[k] + SumOf(f, U)
      BY <2>1, SumOfPick
    <2>3. CASE y = k
      BY <2>2, <2>3
    <2>4. CASE y # k
      <3>1. /\ U \in SUBSET T /\ U # T /\ y \in U /\ U \ {y} = W
            /\ V \in SUBSET T /\ V # T /\ k \in V /\ V \ {k} = W
        BY <2>2, <2>4
      <3>2. U \in P /\ V \in P
        BY <1>1, <3>1
      <3>3. SumOf(f, U) = f[y] + SumOf(f, W)
        BY <3>1, <3>2
      <3>4. SumOf(f, V) = f[k] + SumOf(f, W)
        BY <3>1, <3>2
      <3>5. f[k] \in Int /\ f[y] \in Int /\ SumOf(f, W) \in Int
        BY <2>1, <2>2, SumOfInt
      <3> HIDE DEF k, U, V, W
      <3>6. SumOf(f, T) = f[y] + SumOf(f, V)
        BY <2>2, <3>3, <3>4, <3>5
      <3> QED BY <3>6 DEF V
    <2> QED BY <2>3, <2>4
  <1>2. \A T \in SUBSET S : (\A U \in SUBSET T : U # T => U \in P) => T \in P
    BY <1>1
  <1> HIDE DEF P
  <1>3. S \in P
    BY <1>2, SubsetInduction
  <1> QED BY <1>3 DEF P

\* Elements that count for nothing can be left out of a sum.
LEMMA SumOfPart ==
  ASSUME NEW f, NEW S, IsFiniteSet(S), \A k \in S : f[k] \in Int,
         NEW T \in SUBSET S, \A k \in S \ T : f[k] = 0
  PROVE  SumOf(f, S) = SumOf(f, T)
  <1> DEFINE P == {U \in SUBSET S : SumOf(f, U) = SumOf(f, U \cap T)}
  <1>1. ASSUME NEW U \in SUBSET S, \A V \in SUBSET U : V # U => V \in P
        PROVE  SumOf(f, U) = SumOf(f, U \cap T)
    <2>1. CASE U \subseteq T
      <3>1. U \cap T = U
        BY <2>1
      <3> QED BY <3>1
    <2>2. CASE ~ (U \subseteq T)
      <3>1. PICK x \in U : x \notin T
        BY <2>2
      <3> DEFINE V == U \ {x}
      <3>2. SumOf(f, V) = SumOf(f, U \cap T)
        <4>1. V \in P /\ V \cap T = U \cap T
          BY <1>1, <3>1
        <4> QED BY <4>1
      <3>3. IsFiniteSet(U) /\ IsFiniteSet(V)
        BY FS_Subset, V \in SUBSET S
      <3>4. SumOf(f, U) = f[x] + SumOf(f, V)
        BY <3>3, SumOfTakeOut
      <3>5. f[x] = 0 /\ SumOf(f, V) \in Int
        BY <3>1, <3>3, SumOfInt
      <3> HIDE DEF V
      <3> QED BY <3>2, <3>4, <3>5
    <2> QED BY <2>1, <2>2
  <1>2. \A U \in SUBSET S : (\A V \in SUBSET U : V # U => V \in P) => U \in P
    BY <1>1
  <1> HIDE DEF P
  <1>3. S \in P
    BY <1>2, SubsetInduction
  <1>4. S \cap T = T
    OBVIOUS
  <1> QED BY <1>3, <1>4 DEF P

-----------------------------------------------------------------------------
(* The report. *)

\* The phase, the orders and the two sums of a report.
ReportTypeOK ==
    report \in [phase : {"none", "orders", "done"}, orders : SUBSET Keys,
                gross : Int, net : Int]

\* The price of a ticket is the order's total for it.
PricesAreKept == \A k \in Keys : totalCents[k] = unitPrice[k] * ordQty[k]

\* What the first query read is still true when the second one is made: the
\* orders are sold and cost what they cost.
ListIsStillTrue ==
    report.phase = "orders" =>
        /\ \A k \in report.orders : Sold(k)
        /\ report.gross = SumOf(Charges, report.orders)

\* The invariant of the report; LedgerInv is the invariant of the rows it reads.
ReportsInv == ReportTypeOK /\ PricesAreKept /\ ListIsStillTrue /\ NetNeverNegative

\* A step of Reports is a step of Ledger or leaves the rows alone: the queries of
\* generate_sales_csv and the revenue metric write nothing.
LEMMA LedgerOnly == [ReportsNext]_reportVars => [LedgerNext]_ledgerVars
  BY DEF ReportsNext, reportVars, ReportOrders, ReportRefunds

\* Whatever the rows go through while reports are made they also go through
\* without them: what is proved of Ledger holds in Reports.
THEOREM ReportsOnlyRead == ReportsSpec => LedgerSpec
  <1>1. ReportsInit => LedgerInit
    BY DEF ReportsInit
  <1> QED BY <1>1, LedgerOnly, PTL DEF ReportsSpec, LedgerSpec

\* What the ledger's invariant says of amounts: they are cents, and no more is
\* recorded as refunded of a sold order than was charged for it.
LEMMA Amounts ==
  ASSUME LedgerInv, NEW k \in Keys
  PROVE  /\ Charge(k) \in Nat /\ refunded[k] \in Nat
         /\ Sold(k) => refunded[k] <= Charge(k)
  <1>1. Charge(k) \in Nat /\ refunded[k] \in Nat
    BY DEF Charge, LedgerInv, LedgerTypeOK
  <1>2. ASSUME Sold(k) PROVE refunded[k] <= Charge(k)
    <2>1. /\ UnitCharge(k) \in Nat /\ ordQty[k] \in Nat /\ out[k] \in Nat
          /\ out[k] <= ordQty[k]
          /\ Charge(k) = UnitCharge(k) * ordQty[k]
          /\ refunded[k] = UnitCharge(k) * (ordQty[k] - out[k])
      BY <1>2, SoldFacts
    <2>2. ordQty[k] - out[k] \in Nat /\ ordQty[k] - out[k] <= ordQty[k]
      BY <2>1
    <2> QED BY <2>1, <2>2, MulMono
  <1> QED BY <1>1, <1>2

\* A sale is never undone or repriced: that is what an account promises.
LEMMA SalesAreKept ==
  ASSUME LedgerInv, LedgerInv', [LedgerNext]_ledgerVars, NEW k \in Keys, Sold(k)
  PROVE  Sold(k)' /\ Charge(k)' = Charge(k)
  <1>1. [Books!AccountsNext]_Books!accountVars
    BY LedgerStepMaps
  <1>2. k \in sales /\ paid \in [Keys -> Nat]
    BY Amounts DEF sales, paid
  <1>3. sales \subseteq sales' /\ paid'[k] = paid[k]
    <2>1. ASSUME NEW o \in Keys, Books!Sell(o)
          PROVE  sales \subseteq sales' /\ paid'[k] = paid[k]
      BY <1>2, <2>1 DEF Books!Sell, sales, paid
    <2>2. ASSUME NEW o \in Keys, Books!GiveBack(o)
          PROVE  sales \subseteq sales' /\ paid'[k] = paid[k]
      BY <2>2 DEF Books!GiveBack, sales, paid
    <2>3. CASE UNCHANGED Books!accountVars
      BY <2>3 DEF Books!accountVars, sales, paid
    <2> QED BY <1>1, <2>1, <2>2, <2>3 DEF Books!AccountsNext
  <1>4. Sold(k)'
    BY <1>2, <1>3 DEF sales
  <1> QED BY <1>3, <1>4 DEF paid

\* Only the INSERT of an order writes what a ticket of it costs, and it writes the
\* total and the unit price together.
LEMMA PricesStay ==
  ASSUME LedgerInv, PricesAreKept, [LedgerNext]_ledgerVars
  PROVE  PricesAreKept'
  <1>1. CASE UNCHANGED rowVars
    BY <1>1 DEF PricesAreKept, rowVars
  <1>2. ASSUME NEW k \in Keys, NEW t \in TicketTypes, NEW q \in 1 .. MaxQty,
               InsertOrder(k, t, q)
        PROVE  PricesAreKept'
    <2>1. \A j \in Keys \ {k} : /\ totalCents'[j] = totalCents[j]
                                /\ unitPrice'[j] = unitPrice[j]
                                /\ ordQty'[j] = ordQty[j]
      BY <1>2, InsertedElsewhere
    <2>2. totalCents'[k] = unitPrice'[k] * ordQty'[k]
      BY <1>2 DEF InsertOrder, LedgerInv, LedgerTypeOK
    <2> QED BY <2>1, <2>2 DEF PricesAreKept
  <1>3. ASSUME NEW k \in Keys, PurchaseFails(k) PROVE PricesAreKept'
    BY <1>3 DEF PurchaseFails, PricesAreKept, LedgerInv, LedgerTypeOK
  <1> QED
    BY <1>1, <1>2, <1>3
    DEF LedgerNext, SetPrices, PurchaseCaptured, PurchaseDeclined, PurchaseCommits,
        RefundPaid, RefundCommits, RefundRefused, RefundFails, ledgerVars

\* No report has been started.
LEMMA ReportsInitInv == ReportsInit => ReportsInv
  <1> SUFFICES ASSUME ReportsInit PROVE ReportsInv
    OBVIOUS
  <1>1. report = NoReport
    BY DEF ReportsInit
  <1>2. PricesAreKept
    BY DEF ReportsInit, LedgerInit, PricesAreKept
  <1> QED
    BY <1>1, <1>2
    DEF ReportsInv, ReportTypeOK, NoReport, ListIsStillTrue, NetNeverNegative

\* Other transactions between the two queries.
LEMMA LedgerStepKeeps ==
  ASSUME LedgerInv, LedgerInv', ReportsInv, [LedgerNext]_ledgerVars,
         UNCHANGED report
  PROVE  ReportsInv'
  <1>1. ReportTypeOK' /\ NetNeverNegative'
    BY DEF ReportsInv, ReportTypeOK, NetNeverNegative
  <1>2. PricesAreKept'
    BY PricesStay DEF ReportsInv
  <1>3. ASSUME report.phase = "orders"
        PROVE  /\ \A k \in report.orders : Sold(k)'
               /\ report.gross = SumOf(Charges', report.orders)
    <2>1. /\ report.orders \subseteq Keys
          /\ \A k \in report.orders : Sold(k)
          /\ report.gross = SumOf(Charges, report.orders)
      BY <1>3 DEF ReportsInv, ReportTypeOK, ListIsStillTrue
    <2>2. \A k \in report.orders : Sold(k)' /\ Charges'[k] = Charges[k]
      BY <2>1, SalesAreKept DEF Charges
    <2>3. IsFiniteSet(report.orders)
      BY <2>1, ReportsAssumption, FS_Subset
    <2>4. SumOf(Charges', report.orders) = SumOf(Charges, report.orders)
      BY <2>2, <2>3, SumOfSame
    <2> QED BY <2>1, <2>2, <2>4
  <1>4. ListIsStillTrue'
    BY <1>3 DEF ListIsStillTrue
  <1> QED BY <1>1, <1>2, <1>4 DEF ReportsInv

\* The first query: what it lists is sold, and the takings are the charges.
LEMMA OrdersAreListed ==
  ASSUME LedgerInv, ReportsInv, NEW day \in SUBSET Keys, ReportOrders(day)
  PROVE  ReportsInv'
  <1> DEFINE listed == {k \in day : Sold(k)}
  <1>1. IsFiniteSet(listed)
    BY ReportsAssumption, FS_Subset
  <1>2. SumOf(Charges, listed) \in Int
    BY <1>1, Amounts, SumOfInt DEF Charges
  <1>3. report' = [phase |-> "orders", orders |-> listed,
                   gross |-> SumOf(Charges, listed), net |-> 0]
    BY DEF ReportOrders, NoReport
  <1>4. Charges' = Charges /\ \A k \in Keys : Sold(k)' = Sold(k)
    BY DEF ReportOrders, ledgerVars, rowVars, Charges, Charge, Sold
  <1>5. PricesAreKept'
    BY DEF ReportsInv, PricesAreKept, ReportOrders, ledgerVars, rowVars
  <1> HIDE DEF listed
  <1>6. listed \in SUBSET Keys /\ \A k \in listed : Sold(k)
    BY DEF listed
  <1>7. ReportTypeOK' /\ NetNeverNegative'
    BY <1>2, <1>3, <1>6 DEF ReportTypeOK, NetNeverNegative
  <1>8. ListIsStillTrue'
    BY <1>3, <1>4, <1>6 DEF ListIsStillTrue
  <1> QED BY <1>5, <1>7, <1>8 DEF ReportsInv

\* What is refunded of the listed orders by then is between nothing and what
\* was charged for them.
LEMMA RefundsAreRead ==
  ASSUME LedgerInv, ReportsInv, ReportRefunds
  PROVE  ReportsInv'
  <1> DEFINE listed == report.orders
             g == report.gross
             s == SumOf(refunded, listed)
             none == [k \in Keys |-> 0]
  <1>1. /\ report.phase = "orders" /\ listed \subseteq Keys
        /\ \A k \in listed : Sold(k)
        /\ g = SumOf(Charges, listed)
    BY DEF ReportRefunds, ReportsInv, ReportTypeOK, ListIsStillTrue
  <1>2. IsFiniteSet(listed)
    BY <1>1, ReportsAssumption, FS_Subset
  <1>3. \A k \in listed : /\ refunded[k] \in Int /\ Charges[k] \in Int
                          /\ none[k] \in Int
                          /\ none[k] <= refunded[k] /\ refunded[k] <= Charges[k]
    BY <1>1, Amounts DEF Charges
  <1> HIDE DEF none
  <1>4. s <= g /\ SumOf(none, listed) <= s /\ s \in Int /\ g \in Int
    BY <1>1, <1>2, <1>3, SumOfMonotonic, SumOfInt
  <1>5. SumOf(none, listed) = 0
    <2>1. \A k \in listed \ {} : none[k] = 0
      BY <1>1 DEF none
    <2>2. SumOf(none, listed) = SumOf(none, {})
      BY <1>2, <1>3, <2>1, SumOfPart
    <2> QED BY <2>2, SumOfEmpty
  <1>6. /\ report'.phase = "done" /\ report'.net = g - s /\ report'.gross = g
        /\ report'.orders = listed
        /\ report' \in [phase : {"done"}, orders : {listed}, gross : {g}, net : {g - s}]
    BY DEF ReportRefunds, ReportsInv, ReportTypeOK
  <1>7. PricesAreKept'
    BY DEF ReportsInv, PricesAreKept, ReportRefunds, ledgerVars, rowVars
  <1> HIDE DEF listed, g, s
  <1>8. ReportTypeOK' /\ NetNeverNegative' /\ ListIsStillTrue'
    BY <1>1, <1>4, <1>5, <1>6 DEF ReportTypeOK, NetNeverNegative, ListIsStillTrue
  <1> QED BY <1>7, <1>8 DEF ReportsInv

\* Every step of Reports keeps the invariant.
LEMMA ReportsStepInv ==
  LedgerInv /\ LedgerInv' /\ ReportsInv /\ [ReportsNext]_reportVars => ReportsInv'
  <1> SUFFICES ASSUME LedgerInv, LedgerInv', ReportsInv, [ReportsNext]_reportVars
               PROVE  ReportsInv'
    OBVIOUS
  <1>1. CASE [LedgerNext]_ledgerVars /\ UNCHANGED report
    BY <1>1, LedgerStepKeeps
  <1>2. ASSUME NEW day \in SUBSET Keys, ReportOrders(day) PROVE ReportsInv'
    BY <1>2, OrdersAreListed
  <1>3. CASE ReportRefunds
    BY <1>3, RefundsAreRead
  <1> QED BY <1>1, <1>2, <1>3 DEF ReportsNext, reportVars

\* So it always holds, with the invariant of the ledger.
LEMMA ReportsAlways == ReportsSpec => [](LedgerInv /\ ReportsInv)
  <1>1. ReportsSpec => []LedgerInv
    BY ReportsOnlyRead, LedgerAlways, PTL
  <1> QED BY <1>1, ReportsInitInv, ReportsStepInv, PTL DEF ReportsSpec

\* No row of the sales report shows a loss, nor more net revenue than was taken:
\* refunds that commit between the two queries of generate_sales_csv are of
\* orders it has listed already, and an order never refunds more than it took.
THEOREM NoRowShowsALoss == ReportsSpec => []NetNeverNegative
  <1>1. ReportsInv => NetNeverNegative
    BY DEF ReportsInv
  <1> QED BY <1>1, ReportsAlways, PTL

\* The revenue metric never reports less than the tickets still out were sold
\* for: an order that has a ticket out is confirmed or partially refunded, so
\* its whole total is in the sum.
THEOREM RevenueIsEnough == ReportsSpec => []RevenueCoversTicketsOut
  <1>1. LedgerInv /\ ReportsInv => RevenueCoversTicketsOut
    <2> SUFFICES ASSUME LedgerInv, ReportsInv PROVE RevenueCoversTicketsOut
      OBVIOUS
    <2> DEFINE held == {k \in Keys :
                          ordStatus[k] \in {"confirmed", "partially_refunded"}}
               worth == [k \in Keys |-> unitPrice[k] * out[k]]
    <2>1. ASSUME NEW k \in Keys
          PROVE  /\ worth[k] \in Int /\ totalCents[k] \in Int
                 /\ worth[k] <= totalCents[k]
      <3>1. /\ unitPrice[k] \in Nat /\ out[k] \in Nat /\ ordQty[k] \in Nat
            /\ out[k] <= ordQty[k] /\ totalCents[k] \in Nat
        BY LedgerAssumption DEF LedgerInv, LedgerTypeOK
      <3>2. totalCents[k] = unitPrice[k] * ordQty[k]
        BY DEF ReportsInv, PricesAreKept
      <3> QED BY <3>1, <3>2, MulMono, MulNat
    <2>2. ASSUME NEW k \in Keys \ held PROVE worth[k] = 0
      <3>1. out[k] = 0
        BY DEF LedgerInv, KeyInv, UnsoldIsUntouched, SoldIsCounted, Sold
      <3>2. unitPrice[k] \in Nat
        BY DEF LedgerInv, LedgerTypeOK
      <3> QED BY <3>1, <3>2
    <2> HIDE DEF worth
    <2>3. held \in SUBSET Keys /\ IsFiniteSet(Keys) /\ IsFiniteSet(held)
      BY ReportsAssumption, FS_Subset
    <2>4. SumOf(worth, Keys) = SumOf(worth, held)
      BY <2>1, <2>2, <2>3, SumOfPart
    <2>5. SumOf(worth, held) <= SumOf(totalCents, held)
      BY <2>1, <2>3, SumOfMonotonic
    <2> QED BY <2>4, <2>5 DEF RevenueCoversTicketsOut, RevenuePerEvent, worth
  <1> QED BY <1>1, ReportsAlways, PTL

\* With no failed provider call and no refund under way, the net revenue of a
\* report is what the provider captured for the orders listed less what it
\* paid back, whenever the two queries are made.
THEOREM NetIsTheProviders == ReportsSpec => NetMatchesProvider
  <1>1. ASSUME LedgerInv, ReportsInv, BooksMatchProvider
        PROVE  [ReportRefunds /\ (\A k \in report.orders :
                     faults[k] = 0 /\ refunding[k] = 0 /\ Charge(k) <= MaxInt)
                  => report'.net = SumOf(captured, report.orders)
                                      - SumOf(paidBack, report.orders)]_reportVars
    <2> SUFFICES ASSUME ReportRefunds,
                        \A k \in report.orders :
                           faults[k] = 0 /\ refunding[k] = 0 /\ Charge(k) <= MaxInt
                 PROVE  report'.net = SumOf(captured, report.orders)
                                         - SumOf(paidBack, report.orders)
      OBVIOUS
    <2>1. /\ report.phase = "orders" /\ report.orders \subseteq Keys
          /\ \A k \in report.orders : Sold(k)
          /\ report.gross = SumOf(Charges, report.orders)
      BY <1>1 DEF ReportRefunds, ReportsInv, ReportTypeOK, ListIsStillTrue
    <2>2. \A k \in report.orders : /\ captured[k] = Charges[k]
                                   /\ paidBack[k] = refunded[k]
      <3> SUFFICES ASSUME NEW k \in report.orders
                   PROVE  captured[k] = Charges[k] /\ paidBack[k] = refunded[k]
        OBVIOUS
      <3>1. /\ captured[k] = Charge(k)
            /\ paidBack[k] = refunded[k] + 0
        BY <1>1, <2>1 DEF BooksMatchProvider
      <3>2. refunded[k] \in Nat
        BY <1>1, <2>1, Amounts
      <3> QED BY <2>1, <3>1, <3>2 DEF Charges
    <2>3. IsFiniteSet(report.orders)
      BY <2>1, ReportsAssumption, FS_Subset
    <2>4. /\ SumOf(captured, report.orders) = SumOf(Charges, report.orders)
          /\ SumOf(paidBack, report.orders) = SumOf(refunded, report.orders)
      BY <2>2, <2>3, SumOfSame
    <2>5. report'.net = report.gross - SumOf(refunded, report.orders)
      BY <1>1 DEF ReportRefunds, ReportsInv, ReportTypeOK
    <2> QED BY <2>1, <2>4, <2>5
  <1>2. ReportsSpec => []BooksMatchProvider
    BY ReportsOnlyRead, BooksAgree, PTL
  <1> QED BY <1>1, <1>2, ReportsAlways, PTL DEF ReportsSpec, NetMatchesProvider
=============================================================================
