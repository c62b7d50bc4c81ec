---------------------------- MODULE LedgerProofs ----------------------------
(***************************************************************************)
(* Proofs about module Ledger: its type invariant, the four invariants     *)
(* about money and the refinement of module Accounts, for any ticket types,*)
(* prices, quantities and numbers of failures.                             *)
(*                                                                         *)
(* All of them follow from one inductive invariant, LedgerInv.  Its heart  *)
(* is that the totals of an order are divisible by its quantity, so that   *)
(* every refund is a whole number of UnitCharge, and that what the         *)
(* provider paid back lies between what the Refund rows say and that plus  *)
(* the whole charge once for each failure.                                 *)
(***************************************************************************)
EXTENDS Ledger, TLAPS

\* What one ticket of the order cost, fees and tax included.
UnitCharge(k) == unitPrice[k] + totalFees[k] \div ordQty[k] + totalTax[k] \div ordQty[k]

\* A key without a row has nothing to its name but captures that failed.
NoRowIsEmpty(k) ==
    ordStatus[k] = "none" =>
        ordQty[k] = 0 /\ totalCents[k] = 0 /\ totalFees[k] = 0 /\ totalTax[k] = 0

\* The totals of a row are whole multiples of its quantity.
RowIsPriced(k) ==
    ordStatus[k] # "none" =>
        /\ ordQty[k] > 0
        /\ UnitCharge(k) \in Nat
        /\ Charge(k) = UnitCharge(k) * ordQty[k]

\* Nothing is refunded of an order that was not sold.
UnsoldIsUntouched(k) ==
    ~ Sold(k) => out[k] = 0 /\ refunded[k] = 0 /\ refunding[k] = 0 /\ paidBack[k] = 0

\* The Refund rows and the status of an order that was sold follow from the
\* tickets that are out.
SoldIsCounted(k) ==
    Sold(k) =>
        /\ refunded[k] = UnitCharge(k) * (ordQty[k] - out[k])
        /\ ordStatus[k] = "refunded" <=> out[k] = 0
        /\ out[k] < ordQty[k] => UnitCharge(k) > 0

\* What was captured and paid back, and how far it can be from the rows.
CaptureIsBooked(k) ==
    faults[k] = 0 =>
        captured[k] = IF Sold(k) \/ ordStatus[k] = "processing" THEN Charge(k) ELSE 0

PaidBackIsBooked(k) ==
    Sold(k) /\ Charge(k) <= MaxInt =>
        /\ refunded[k] + UnitCharge(k) * refunding[k] <= paidBack[k]
        /\ paidBack[k] <= refunded[k] + UnitCharge(k) * refunding[k]
                              + Charge(k) * faults[k]

KeyInv(k) ==
    /\ NoRowIsEmpty(k)
    /\ RowIsPriced(k)
    /\ UnsoldIsUntouched(k)
    /\ SoldIsCounted(k)
    /\ CaptureIsBooked(k)
    /\ PaidBackIsBooked(k)

LedgerInv == LedgerTypeOK /\ \A k \in Keys : KeyInv(k)

-----------------------------------------------------------------------------
\* Facts of arithmetic the provers need named.
LEMMA MulNat == ASSUME NEW a \in Nat, NEW b \in Nat PROVE a * b \in Nat
  OBVIOUS

\* A product by a positive number is 0 only if the other factor is.
LEMMA MulPos == ASSUME NEW a \in Nat, NEW b \in Nat, b > 0 PROVE a * b = 0 <=> a = 0
  OBVIOUS

\* Multiplication keeps the order of its second factor.
LEMMA MulMono ==
  ASSUME NEW a \in Nat, NEW b \in Nat, NEW c \in Nat, b <= c
  PROVE a * b <= a * c
  OBVIOUS

\* A multiple is divided without a remainder: this is why the unit amounts
\* issue_refund divides out of the totals are those the purchase multiplied.
LEMMA DivExact == ASSUME NEW a \in Nat, NEW b \in Nat, b > 0 PROVE (a * b) \div b = a
  OBVIOUS

\* Price, fee and tax of several tickets.
LEMMA Distributes ==
  ASSUME NEW a \in Nat, NEW b \in Nat, NEW c \in Nat, NEW d \in Nat
  PROVE (a + b + c) * d = a * d + b * d + c * d
  OBVIOUS

\* Tickets that are out and tickets that were refunded.
LEMMA MulSplit ==
  ASSUME NEW u \in Nat, NEW a \in Nat, NEW b \in Nat
  PROVE u * (a + b) = u * a + u * b
  OBVIOUS

\* A price list is three amounts.
LEMMA PriceParts ==
  ASSUME NEW p \in PriceLists
  PROVE p[1] \in Nat /\ p[2] \in Nat /\ p[3] \in Nat
  BY LedgerAssumption

\* The columns at key k are what they were.
SameRow(k) ==
    /\ ordStatus'[k] = ordStatus[k]
    /\ ordQty'[k] = ordQty[k]
    /\ unitPrice'[k] = unitPrice[k]
    /\ totalCents'[k] = totalCents[k]
    /\ totalFees'[k] = totalFees[k]
    /\ totalTax'[k] = totalTax[k]
    /\ out'[k] = out[k]
    /\ refunded'[k] = refunded[k]
    /\ refunding'[k] = refunding[k]
    /\ captured'[k] = captured[k]
    /\ paidBack'[k] = paidBack[k]
    /\ faults'[k] = faults[k]

\* What the invariant says of a key depends on the columns of that key only.
LEMMA KeyFrame ==
  ASSUME NEW k \in Keys, KeyInv(k), SameRow(k)
  PROVE KeyInv(k)'
  BY DEF SameRow, KeyInv, NoRowIsEmpty, RowIsPriced, UnsoldIsUntouched,
         SoldIsCounted, CaptureIsBooked, PaidBackIsBooked, UnitCharge, Charge,
         Sold

-----------------------------------------------------------------------------
\* Every refund is a whole number of the order's unit charge.
LEMMA RefundIsWhole ==
  ASSUME NEW k \in Keys, NEW n \in Nat
  PROVE RefundAmount(k, n) = UnitCharge(k) * n
  BY DEF RefundAmount, UnitCharge

\* Nothing is sold and nothing captured.
LEMMA LedgerInitInv == LedgerInit => LedgerInv
<1> SUFFICES ASSUME LedgerInit PROVE LedgerInv
  OBVIOUS
<1>1. LedgerTypeOK
  BY LedgerAssumption DEF LedgerInit, LedgerTypeOK, OrderStatus
<1>2. ASSUME NEW k \in Keys PROVE KeyInv(k)
  BY DEF LedgerInit, KeyInv, NoRowIsEmpty, RowIsPriced, UnsoldIsUntouched,
         SoldIsCounted, CaptureIsBooked, PaidBackIsBooked, Sold
<1> QED BY <1>1, <1>2 DEF LedgerInv

-----------------------------------------------------------------------------
(* One lemma per action.  Only the row of its key changes; KeyFrame does   *)
(* the other keys.                                                         *)

\* An order is inserted with totals that are multiples of its quantity.
LEMMA InsertedRow ==
  ASSUME LedgerInv, NEW k \in Keys, NEW t \in TicketTypes,
         NEW q \in 1 .. MaxQty, InsertOrder(k, t, q)
  PROVE  /\ ordType' \in [Keys -> TicketTypes \cup {NoRow}]
         /\ ordQty' \in [Keys -> 0 .. MaxQty]
         /\ unitPrice' \in [Keys -> Nat]
         /\ totalCents' \in [Keys -> Nat]
         /\ totalFees' \in [Keys -> Nat]
         /\ totalTax' \in [Keys -> Nat]
         /\ ordQty'[k] = q
         /\ UnitCharge(k)' \in Nat
         /\ Charge(k)' = UnitCharge(k)' * q
         /\ Charge(k)' \in Nat
  <1> DEFINE p == prices[t]
  <1>1. q \in Nat /\ q > 0 /\ q \in 0 .. MaxQty
    BY LedgerAssumption
  <1>2. p \in PriceLists
    BY DEF LedgerInv, LedgerTypeOK
  <1>3. p[1] \in Nat /\ p[2] \in Nat /\ p[3] \in Nat
    BY <1>2, PriceParts
  <1>4. p[1] * q \in Nat /\ p[2] * q \in Nat /\ p[3] * q \in Nat
    BY <1>1, <1>3, MulNat
  <1>5. /\ ordType' \in [Keys -> TicketTypes \cup {NoRow}]
        /\ ordQty' \in [Keys -> 0 .. MaxQty]
        /\ unitPrice' \in [Keys -> Nat]
        /\ totalCents' \in [Keys -> Nat]
        /\ totalFees' \in [Keys -> Nat]
        /\ totalTax' \in [Keys -> Nat]
    BY <1>1, <1>3, <1>4 DEF InsertOrder, LedgerInv, LedgerTypeOK
  <1>6. /\ ordQty'[k] = q
        /\ unitPrice'[k] = p[1]
        /\ totalCents'[k] = p[1] * q
        /\ totalFees'[k] = p[2] * q
        /\ totalTax'[k] = p[3] * q
    BY DEF InsertOrder, LedgerInv, LedgerTypeOK
  <1> HIDE DEF p
  <1>7. (p[2] * q) \div q = p[2] /\ (p[3] * q) \div q = p[3]
    BY <1>1, <1>3, DivExact
  <1>8. UnitCharge(k)' = p[1] + p[2] + p[3]
    BY <1>6, <1>7 DEF UnitCharge
  <1>9. Charge(k)' = p[1] * q + p[2] * q + p[3] * q
    BY <1>6 DEF Charge
  <1>10. Charge(k)' = UnitCharge(k)' * q
    BY <1>1, <1>3, <1>8, <1>9, Distributes
  <1> QED BY <1>3, <1>4, <1>5, <1>6, <1>8, <1>9, <1>10

\* The other keys are left alone by InsertOrder.
LEMMA InsertedElsewhere ==
  ASSUME LedgerInv, NEW k \in Keys, NEW t \in TicketTypes,
         NEW q \in 1 .. MaxQty, InsertOrder(k, t, q), NEW j \in Keys, j # k
  PROVE  /\ ordQty'[j] = ordQty[j]
         /\ unitPrice'[j] = unitPrice[j]
         /\ totalCents'[j] = totalCents[j]
         /\ totalFees'[j] = totalFees[j]
         /\ totalTax'[j] = totalTax[j]
  BY DEF InsertOrder, LedgerInv, LedgerTypeOK

\* The provider captures: the charge is a whole number of unit charges.
LEMMA CapturedInv ==
  ASSUME LedgerInv, NEW k \in Keys, NEW t \in TicketTypes,
         NEW q \in 1 .. MaxQty, PurchaseCaptured(k, t, q)
  PROVE  LedgerInv'
  <1>1. InsertOrder(k, t, q)
    BY DEF PurchaseCaptured
  <1>2. KeyInv(k) /\ ordStatus[k] = "none"
    BY <1>1 DEF LedgerInv, InsertOrder
  <1>3. /\ out[k] = 0 /\ refunded[k] = 0 /\ refunding[k] = 0 /\ paidBack[k] = 0
        /\ faults[k] = 0 => captured[k] = 0
    BY <1>2 DEF KeyInv, UnsoldIsUntouched, CaptureIsBooked, Sold
  <1>4. captured' = [captured EXCEPT ![k] = @ + Charge(k)']
    <2>1. /\ captured[k] \in Nat
          /\ totalCents'[k] \in Nat /\ totalFees'[k] \in Nat /\ totalTax'[k] \in Nat
      BY <1>1, InsertedRow DEF LedgerInv, LedgerTypeOK
    <2>2. captured[k] + totalCents'[k] + totalFees'[k] + totalTax'[k]
             = captured[k] + Charge(k)'
      BY <2>1 DEF Charge
    <2> QED BY <2>2 DEF PurchaseCaptured
  <1>5. LedgerTypeOK'
    <2>1. ordStatus' \in [Keys -> OrderStatus]
      BY DEF PurchaseCaptured, LedgerInv, LedgerTypeOK, OrderStatus
    <2>2. captured' \in [Keys -> Nat]
      BY <1>1, <1>4, InsertedRow DEF LedgerInv, LedgerTypeOK
    <2>3. ASSUME NEW j \in Keys PROVE out[j] <= ordQty'[j]
      <3>1. CASE j = k
        BY <1>1, <1>3, <3>1, InsertedRow
      <3>2. CASE j # k
        BY <1>1, <3>2, InsertedElsewhere DEF LedgerInv, LedgerTypeOK
      <3> QED BY <3>1, <3>2
    <2> QED
      BY <1>1, <2>1, <2>2, <2>3, InsertedRow
      DEF PurchaseCaptured, LedgerInv, LedgerTypeOK
  <1>6. KeyInv(k)'
    <2>1. ordStatus'[k] = "processing" /\ captured'[k] = captured[k] + Charge(k)'
      BY <1>4 DEF PurchaseCaptured, LedgerInv, LedgerTypeOK
    <2> QED
      BY <1>1, <1>3, <2>1, InsertedRow
      DEF PurchaseCaptured, KeyInv, NoRowIsEmpty, RowIsPriced,
          UnsoldIsUntouched, SoldIsCounted, CaptureIsBooked, PaidBackIsBooked,
          Sold
  <1>7. ASSUME NEW j \in Keys, j # k PROVE KeyInv(j)'
    <2>1. SameRow(j)
      BY <1>1, <1>4, <1>7, InsertedElsewhere
      DEF PurchaseCaptured, SameRow, LedgerInv, LedgerTypeOK
    <2> QED BY <2>1, KeyFrame DEF LedgerInv
  <1> QED BY <1>5, <1>6, <1>7 DEF LedgerInv

\* The provider declines: nothing is captured and no ticket is out.
LEMMA DeclinedInv ==
  ASSUME LedgerInv, NEW k \in Keys, NEW t \in TicketTypes,
         NEW q \in 1 .. MaxQty, PurchaseDeclined(k, t, q)
  PROVE  LedgerInv'
  <1>1. InsertOrder(k, t, q)
    BY DEF PurchaseDeclined
  <1>2. KeyInv(k) /\ ordStatus[k] = "none"
    BY <1>1 DEF LedgerInv, InsertOrder
  <1>3. /\ out[k] = 0 /\ refunded[k] = 0 /\ refunding[k] = 0 /\ paidBack[k] = 0
        /\ faults[k] = 0 => captured[k] = 0
    BY <1>2 DEF KeyInv, UnsoldIsUntouched, CaptureIsBooked, Sold
  <1>4. LedgerTypeOK'
    <2>1. ordStatus' \in [Keys -> OrderStatus]
      BY DEF PurchaseDeclined, LedgerInv, LedgerTypeOK, OrderStatus
    <2>2. ASSUME NEW j \in Keys PROVE out[j] <= ordQty'[j]
      <3>1. CASE j = k
        BY <1>1, <1>3, <3>1, InsertedRow
      <3>2. CASE j # k
        BY <1>1, <3>2, InsertedElsewhere DEF LedgerInv, LedgerTypeOK
      <3> QED BY <3>1, <3>2
    <2> QED
      BY <1>1, <2>1, <2>2, InsertedRow
      DEF PurchaseDeclined, providerVars, LedgerInv, LedgerTypeOK
  <1>5. KeyInv(k)'
    <2>1. ordStatus'[k] = "failed"
      BY DEF PurchaseDeclined, LedgerInv, LedgerTypeOK
    <2> QED
      BY <1>1, <1>3, <2>1, InsertedRow
      DEF PurchaseDeclined, providerVars, KeyInv, NoRowIsEmpty, RowIsPriced,
          UnsoldIsUntouched, SoldIsCounted, CaptureIsBooked, PaidBackIsBooked,
          Sold
  <1>6. ASSUME NEW j \in Keys, j # k PROVE KeyInv(j)'
    <2>1. SameRow(j)
      BY <1>1, <1>6, InsertedElsewhere
      DEF PurchaseDeclined, providerVars, SameRow, LedgerInv, LedgerTypeOK
    <2> QED BY <2>1, KeyFrame DEF LedgerInv
  <1> QED BY <1>4, <1>5, <1>6 DEF LedgerInv

\* The admin changes the prices: orders keep the amounts they were made with.
LEMMA PricesInv ==
  ASSUME LedgerInv, NEW t \in TicketTypes, NEW p \in PriceLists, SetPrices(t, p)
  PROVE  LedgerInv'
  <1>1. LedgerTypeOK'
    BY DEF SetPrices, rowVars, providerVars, LedgerInv, LedgerTypeOK
  <1>2. ASSUME NEW j \in Keys PROVE KeyInv(j)'
    <2>1. SameRow(j)
      BY DEF SetPrices, rowVars, providerVars, SameRow
    <2> QED BY <2>1, KeyFrame DEF LedgerInv
  <1> QED BY <1>1, <1>2 DEF LedgerInv

\* The purchase commits: all its tickets are out and nothing is refunded.
LEMMA CommitsInv ==
  ASSUME LedgerInv, NEW k \in Keys, PurchaseCommits(k)
  PROVE  LedgerInv'
  <1>1. KeyInv(k) /\ ordStatus[k] = "processing"
    BY DEF LedgerInv, PurchaseCommits
  <1>2. /\ refunded[k] = 0 /\ refunding[k] = 0 /\ paidBack[k] = 0
        /\ ordQty[k] \in Nat /\ ordQty[k] > 0
        /\ UnitCharge(k) \in Nat /\ Charge(k) = UnitCharge(k) * ordQty[k]
        /\ faults[k] = 0 => captured[k] = Charge(k)
    BY <1>1, LedgerAssumption
    DEF KeyInv, UnsoldIsUntouched, RowIsPriced, CaptureIsBooked, Sold,
        LedgerInv, LedgerTypeOK
  <1>3. LedgerTypeOK'
    <2>1. ordStatus' \in [Keys -> OrderStatus]
      BY DEF PurchaseCommits, LedgerInv, LedgerTypeOK, OrderStatus
    <2>2. out' \in [Keys -> 0 .. MaxQty]
      BY DEF PurchaseCommits, LedgerInv, LedgerTypeOK
    <2>3. ASSUME NEW j \in Keys PROVE refunding[j] <= out'[j] /\ out'[j] <= ordQty[j]
      BY <1>2 DEF PurchaseCommits, LedgerInv, LedgerTypeOK
    <2> QED
      BY <2>1, <2>2, <2>3
      DEF PurchaseCommits, rowVars, providerVars, LedgerInv, LedgerTypeOK
  <1>4. KeyInv(k)'
    <2>1. ordStatus'[k] = "confirmed" /\ out'[k] = ordQty[k]
      BY DEF PurchaseCommits, LedgerInv, LedgerTypeOK
    <2>2. /\ UnitCharge(k)' = UnitCharge(k)
          /\ Charge(k)' = Charge(k)
          /\ Sold(k)'
      BY <2>1 DEF PurchaseCommits, rowVars, UnitCharge, Charge, Sold
    <2>3. /\ UnitCharge(k) * (ordQty[k] - ordQty[k]) = 0
          /\ UnitCharge(k) * 0 = 0
          /\ Charge(k) * faults[k] >= 0
      BY <1>2, MulNat DEF LedgerInv, LedgerTypeOK
    <2>4. UNCHANGED <<ordQty, refunded, refunding, captured, paidBack, faults>>
      BY DEF PurchaseCommits, rowVars, providerVars
    <2>5. PaidBackIsBooked(k)'
      BY <1>2, <2>2, <2>3, <2>4 DEF PaidBackIsBooked, LedgerInv, LedgerTypeOK
    <2>6. NoRowIsEmpty(k)' /\ RowIsPriced(k)' /\ UnsoldIsUntouched(k)'
      BY <1>2, <2>1, <2>2, <2>4
      DEF NoRowIsEmpty, RowIsPriced, UnsoldIsUntouched, Sold
    <2>7. SoldIsCounted(k)' /\ CaptureIsBooked(k)'
      BY <1>2, <2>1, <2>2, <2>3, <2>4 DEF SoldIsCounted, CaptureIsBooked
    <2> QED BY <2>5, <2>6, <2>7 DEF KeyInv
  <1>5. ASSUME NEW j \in Keys, j # k PROVE KeyInv(j)'
    <2>1. SameRow(j)
      BY <1>5 DEF PurchaseCommits, rowVars, providerVars, SameRow, LedgerInv,
                  LedgerTypeOK
    <2> QED BY <2>1, KeyFrame DEF LedgerInv
  <1> QED BY <1>3, <1>4, <1>5 DEF LedgerInv

\* The purchase fails after the capture: one more failed call is accounted for.
LEMMA FailsInv ==
  ASSUME LedgerInv, NEW k \in Keys, PurchaseFails(k)
  PROVE  LedgerInv'
  <1>1. /\ out[k] = 0 /\ refunded[k] = 0 /\ refunding[k] = 0 /\ paidBack[k] = 0
    BY DEF PurchaseFails, KeyInv, UnsoldIsUntouched, Sold, LedgerInv
  <1>2. faults' \in [Keys -> 0 .. MaxFaults] /\ faults'[k] > 0
    BY LedgerAssumption DEF PurchaseFails, LedgerInv, LedgerTypeOK
  <1>3. LedgerTypeOK'
    <2>1. /\ ordStatus' \in [Keys -> OrderStatus]
          /\ ordType' \in [Keys -> TicketTypes \cup {NoRow}]
          /\ unitPrice' \in [Keys -> Nat]
          /\ totalCents' \in [Keys -> Nat]
          /\ totalFees' \in [Keys -> Nat]
          /\ totalTax' \in [Keys -> Nat]
      BY DEF PurchaseFails, LedgerInv, LedgerTypeOK, OrderStatus
    <2>2. ordQty' \in [Keys -> 0 .. MaxQty]
      BY LedgerAssumption DEF PurchaseFails, LedgerInv, LedgerTypeOK
    <2>3. ASSUME NEW j \in Keys PROVE out[j] <= ordQty'[j]
      BY <1>1 DEF PurchaseFails, LedgerInv, LedgerTypeOK
    <2> QED
      BY <1>2, <2>1, <2>2, <2>3
      DEF PurchaseFails, providerVars, LedgerInv, LedgerTypeOK
  <1>4. KeyInv(k)'
    <2>1. /\ ordStatus'[k] = "none" /\ ordQty'[k] = 0
          /\ totalCents'[k] = 0 /\ totalFees'[k] = 0 /\ totalTax'[k] = 0
      BY DEF PurchaseFails, LedgerInv, LedgerTypeOK
    <2> QED
      BY <1>1, <1>2, <2>1
      DEF PurchaseFails, providerVars, KeyInv, NoRowIsEmpty, RowIsPriced,
          UnsoldIsUntouched, SoldIsCounted, CaptureIsBooked, PaidBackIsBooked,
          Sold
  <1>5. ASSUME NEW j \in Keys, j # k PROVE KeyInv(j)'
    <2>1. SameRow(j)
      BY <1>5 DEF PurchaseFails, providerVars, SameRow, LedgerInv, LedgerTypeOK
    <2> QED BY <2>1, KeyFrame DEF LedgerInv
  <1> QED BY <1>3, <1>4, <1>5 DEF LedgerInv

\* What LedgerInv says of an order that can be refunded.
LEMMA SoldFacts ==
  ASSUME LedgerInv, NEW k \in Keys, Sold(k)
  PROVE  /\ ordQty[k] \in Nat /\ ordQty[k] > 0 /\ ordQty[k] <= MaxQty
         /\ UnitCharge(k) \in Nat /\ Charge(k) \in Nat
         /\ Charge(k) = UnitCharge(k) * ordQty[k]
         /\ out[k] \in Nat /\ out[k] <= ordQty[k]
         /\ refunding[k] \in Nat /\ refunding[k] <= out[k]
         /\ refunded[k] \in Nat /\ paidBack[k] \in Nat /\ faults[k] \in Nat
         /\ refunded[k] = UnitCharge(k) * (ordQty[k] - out[k])
         /\ ordStatus[k] = "refunded" <=> out[k] = 0
         /\ out[k] < ordQty[k] => UnitCharge(k) > 0
         /\ faults[k] = 0 => captured[k] = Charge(k)
  <1>1. KeyInv(k) /\ ordStatus[k] # "none"
    BY DEF LedgerInv, Sold
  <1>2. /\ ordQty[k] \in 0 .. MaxQty /\ out[k] \in 0 .. MaxQty
        /\ refunding[k] \in 0 .. MaxQty /\ faults[k] \in 0 .. MaxFaults
        /\ refunded[k] \in Nat /\ paidBack[k] \in Nat
        /\ refunding[k] <= out[k] /\ out[k] <= ordQty[k]
    BY DEF LedgerInv, LedgerTypeOK
  <1>3. Charge(k) \in Nat
    BY DEF Charge, LedgerInv, LedgerTypeOK
  <1> QED
    BY <1>1, <1>2, <1>3, LedgerAssumption
    DEF KeyInv, RowIsPriced, SoldIsCounted, CaptureIsBooked

\* Refunds leave what an order was charged alone.
LEMMA RowKept ==
  ASSUME NEW k \in Keys, UNCHANGED rowVars
  PROVE  UnitCharge(k)' = UnitCharge(k) /\ Charge(k)' = Charge(k)
  BY DEF rowVars, UnitCharge, Charge

\* An order that was sold and whose row is kept satisfies KeyInv when its
\* tickets, refunds and payments do.
LEMMA SoldKeyInv ==
  ASSUME LedgerInv, NEW k \in Keys, Sold(k), Sold(k)', UNCHANGED rowVars,
         captured'[k] = captured[k],
         faults[k] = 0 \/ faults'[k] # 0,
         SoldIsCounted(k)', PaidBackIsBooked(k)'
  PROVE  KeyInv(k)'
  <1>1. /\ ordQty[k] > 0 /\ UnitCharge(k) \in Nat
        /\ Charge(k) = UnitCharge(k) * ordQty[k]
        /\ faults[k] = 0 => captured[k] = Charge(k)
    BY SoldFacts
  <1>2. UnitCharge(k)' = UnitCharge(k) /\ Charge(k)' = Charge(k) /\ ordQty' = ordQty
    BY RowKept DEF rowVars
  <1>3. CaptureIsBooked(k)'
    BY <1>1, <1>2 DEF CaptureIsBooked
  <1>4. NoRowIsEmpty(k)' /\ RowIsPriced(k)' /\ UnsoldIsUntouched(k)'
    BY <1>1, <1>2 DEF NoRowIsEmpty, RowIsPriced, UnsoldIsUntouched, Sold
  <1> QED BY <1>3, <1>4 DEF KeyInv

\* The provider pays back the unit charge of each ticket of a refund.
LEMMA RefundPaidInv ==
  ASSUME LedgerInv, NEW k \in Keys, NEW n \in 1 .. MaxQty, RefundPaid(k, n)
  PROVE  LedgerInv'
  <1> DEFINE u == UnitCharge(k)
  <1>1. Sold(k) /\ refunding[k] = 0 /\ n <= out[k] /\ n \in Nat /\ n > 0
    BY LedgerAssumption DEF RefundPaid, Sold
  <1>2. /\ u \in Nat /\ Charge(k) \in Nat /\ faults[k] \in Nat
        /\ paidBack[k] \in Nat /\ refunded[k] \in Nat
    BY <1>1, SoldFacts
  <1>3. RefundAmount(k, n) = u * n /\ u * n \in Nat /\ u * 0 = 0
    BY <1>1, <1>2, RefundIsWhole, MulNat
  <1>4. UNCHANGED <<prices, ordStatus, rowVars, out, refunded, captured, faults>>
    BY DEF RefundPaid
  <1>5. refunding'[k] = n /\ paidBack'[k] = paidBack[k] + u * n
    BY <1>3 DEF RefundPaid, LedgerInv, LedgerTypeOK
  <1>6. LedgerTypeOK'
    <2>1. /\ refunding' \in [Keys -> 0 .. MaxQty] /\ paidBack' \in [Keys -> Nat]
      BY <1>1, <1>2, <1>3 DEF RefundPaid, LedgerInv, LedgerTypeOK
    <2>2. ASSUME NEW j \in Keys PROVE refunding'[j] <= out[j]
      BY <1>1 DEF RefundPaid, LedgerInv, LedgerTypeOK
    <2> QED BY <1>4, <2>1, <2>2 DEF rowVars, LedgerInv, LedgerTypeOK
  <1>7. KeyInv(k)'
    <2>1. UnitCharge(k)' = u /\ Charge(k)' = Charge(k)
      BY <1>4, RowKept
    <2>2. SoldIsCounted(k)'
      BY <1>1, <1>4, <2>1 DEF rowVars, LedgerInv, KeyInv, SoldIsCounted, Sold
    <2>3. PaidBackIsBooked(k)'
      <3>1. Charge(k) <= MaxInt => /\ refunded[k] + u * 0 <= paidBack[k]
                                   /\ paidBack[k] <= refunded[k] + u * 0
                                                      + Charge(k) * faults[k]
        BY <1>1 DEF LedgerInv, KeyInv, PaidBackIsBooked
      <3>2. Charge(k) * faults[k] \in Nat
        BY <1>2, MulNat
      <3> HIDE DEF u
      <3> QED
        BY <1>2, <1>3, <1>4, <1>5, <2>1, <3>1, <3>2 DEF PaidBackIsBooked
    <2> QED BY <1>1, <1>4, <2>2, <2>3, SoldKeyInv DEF Sold
  <1>8. ASSUME NEW j \in Keys, j # k PROVE KeyInv(j)'
    <2>1. SameRow(j)
      BY <1>4, <1>8 DEF RefundPaid, rowVars, SameRow, LedgerInv, LedgerTypeOK
    <2> QED BY <2>1, KeyFrame DEF LedgerInv
  <1> QED BY <1>6, <1>7, <1>8 DEF LedgerInv

\* The refund commits: its row is what was paid back, and the tickets are taken
\* back with it.
LEMMA RefundCommitsInv ==
  ASSUME LedgerInv, NEW k \in Keys, RefundCommits(k)
  PROVE  LedgerInv'
  <1> DEFINE u == UnitCharge(k)
             n == refunding[k]
  <1>1. /\ n > 0 /\ ordStatus' \in [Keys -> OrderStatus]
        /\ UNCHANGED <<prices, rowVars, providerVars, faults>>
    BY DEF RefundCommits, LedgerInv, LedgerTypeOK, OrderStatus
  <1>2. Sold(k)
    BY <1>1 DEF LedgerInv, LedgerTypeOK, KeyInv, UnsoldIsUntouched
  <1>3. /\ u \in Nat /\ Charge(k) \in Nat /\ faults[k] \in Nat /\ n \in Nat
        /\ paidBack[k] \in Nat /\ refunded[k] \in Nat /\ ordQty[k] \in Nat
        /\ out[k] \in Nat /\ n <= out[k] /\ out[k] <= ordQty[k] /\ ordQty[k] > 0
        /\ refunded[k] = u * (ordQty[k] - out[k])
    BY <1>2, SoldFacts
  <1>4. RefundAmount(k, n) = u * n /\ u * n \in Nat /\ u * 0 = 0
    BY <1>3, RefundIsWhole, MulNat
  <1>5. u > 0
    BY <1>3, <1>4 DEF RefundCommits, RefundRowFits
  <1>6. /\ refunded'[k] = refunded[k] + u * n
        /\ out'[k] = out[k] - n
        /\ refunding'[k] = 0
        /\ ordStatus'[k] = IF out[k] - n = 0 THEN "refunded" ELSE "partially_refunded"
    BY <1>4 DEF RefundCommits, LedgerInv, LedgerTypeOK
  <1>7. LedgerTypeOK'
    <2>1. /\ refunded' \in [Keys -> Nat]
      BY <1>3, <1>4 DEF RefundCommits, LedgerInv, LedgerTypeOK
    <2>2. out' \in [Keys -> 0 .. MaxQty] /\ refunding' \in [Keys -> 0 .. MaxQty]
      <3>1. out[k] - n \in 0 .. MaxQty /\ 0 \in 0 .. MaxQty
        BY <1>3, LedgerAssumption DEF LedgerInv, LedgerTypeOK
      <3> QED BY <3>1 DEF RefundCommits, LedgerInv, LedgerTypeOK
    <2>3. ASSUME NEW j \in Keys
          PROVE  refunding'[j] <= out'[j] /\ out'[j] <= ordQty[j]
      <3>1. CASE j = k
        BY <1>3, <1>6, <3>1
      <3>2. CASE j # k
        BY <3>2 DEF RefundCommits, LedgerInv, LedgerTypeOK
      <3> QED BY <3>1, <3>2
    <2> QED
      BY <1>1, <2>1, <2>2, <2>3 DEF rowVars, providerVars, LedgerInv, LedgerTypeOK
  <1>8. KeyInv(k)'
    <2>1. UnitCharge(k)' = u /\ Charge(k)' = Charge(k) /\ Sold(k)'
      BY <1>1, <1>6, RowKept DEF Sold
    <2>2. u * (ordQty[k] - (out[k] - n)) = u * (ordQty[k] - out[k]) + u * n
      <3>1. ordQty[k] - (out[k] - n) = (ordQty[k] - out[k]) + n
        BY <1>3
      <3> QED BY <1>3, <3>1, MulSplit
    <2>3. SoldIsCounted(k)'
      <3> HIDE DEF u, n
      <3> QED
        BY <1>1, <1>3, <1>5, <1>6, <2>1, <2>2 DEF rowVars, SoldIsCounted
    <2>4. PaidBackIsBooked(k)'
      <3>1. Charge(k) <= MaxInt => /\ refunded[k] + u * n <= paidBack[k]
                                   /\ paidBack[k] <= refunded[k] + u * n
                                                      + Charge(k) * faults[k]
        BY <1>2 DEF LedgerInv, KeyInv, PaidBackIsBooked
      <3>2. Charge(k) * faults[k] \in Nat
        BY <1>3, MulNat
      <3> HIDE DEF u, n
      <3> QED
        BY <1>1, <1>3, <1>4, <1>6, <2>1, <3>1, <3>2
        DEF providerVars, PaidBackIsBooked
    <2> QED
      BY <1>1, <1>2, <2>1, <2>3, <2>4, SoldKeyInv DEF providerVars
  <1>9. ASSUME NEW j \in Keys, j # k PROVE KeyInv(j)'
    <2>1. SameRow(j)
      BY <1>1, <1>9 DEF RefundCommits, rowVars, providerVars, SameRow, LedgerInv,
                        LedgerTypeOK
    <2> QED BY <2>1, KeyFrame DEF LedgerInv
  <1> QED BY <1>7, <1>8, <1>9 DEF LedgerInv

\* A refund the provider paid is forgotten, by the database or by a failure:
\* the failure is counted unless the refund was of nothing or too large.
LEMMA ForgottenInv ==
  ASSUME LedgerInv, NEW k \in Keys, refunding[k] > 0,
         refunding' = [refunding EXCEPT ![k] = 0],
         UNCHANGED <<prices, ordStatus, rowVars, out, refunded, providerVars>>,
         faults' \in [Keys -> 0 .. MaxFaults],
         \A j \in Keys \ {k} : faults'[j] = faults[j],
         \/ faults'[k] = faults[k] + 1
         \/ /\ faults'[k] = faults[k]
            /\ ~ RefundRowFits(RefundAmount(k, refunding[k]))
  PROVE  LedgerInv'
  <1> DEFINE u == UnitCharge(k)
             n == refunding[k]
  <1>1. Sold(k)
    BY DEF LedgerInv, LedgerTypeOK, KeyInv, UnsoldIsUntouched
  <1>2. /\ u \in Nat /\ Charge(k) \in Nat /\ faults[k] \in Nat /\ n \in Nat
        /\ paidBack[k] \in Nat /\ refunded[k] \in Nat /\ ordQty[k] \in Nat
        /\ n <= ordQty[k]
        /\ Charge(k) = u * ordQty[k]
    BY <1>1, SoldFacts
  <1>3. RefundAmount(k, n) = u * n /\ u * n \in Nat /\ u * n <= Charge(k) /\ u * 0 = 0
    BY <1>2, RefundIsWhole, MulNat, MulMono
  <1>4. refunding'[k] = 0
    BY DEF LedgerInv, LedgerTypeOK
  <1>5. LedgerTypeOK'
    <2>1. refunding' \in [Keys -> 0 .. MaxQty]
      BY LedgerAssumption DEF LedgerInv, LedgerTypeOK
    <2>2. ASSUME NEW j \in Keys PROVE refunding'[j] <= out[j]
      BY DEF LedgerInv, LedgerTypeOK
    <2> QED BY <2>1, <2>2 DEF rowVars, providerVars, LedgerInv, LedgerTypeOK
  <1>6. KeyInv(k)'
    <2>1. UnitCharge(k)' = u /\ Charge(k)' = Charge(k) /\ Sold(k)'
      BY <1>1, RowKept DEF Sold
    <2>2. SoldIsCounted(k)'
      BY <1>1, <2>1 DEF rowVars, LedgerInv, KeyInv, SoldIsCounted
    <2>3. PaidBackIsBooked(k)'
      <3>1. Charge(k) <= MaxInt => /\ refunded[k] + u * n <= paidBack[k]
                                   /\ paidBack[k] <= refunded[k] + u * n
                                                      + Charge(k) * faults[k]
        BY <1>1 DEF LedgerInv, KeyInv, PaidBackIsBooked
      <3>2. UNCHANGED <<refunded, paidBack>>
        BY DEF providerVars
      <3>3. CASE faults'[k] = faults[k] + 1
        <4>1. Charge(k) * (faults[k] + 1) = Charge(k) * faults[k] + Charge(k)
              /\ Charge(k) * faults[k] \in Nat
          BY <1>2, MulSplit, MulNat
        <4> HIDE DEF u, n
        <4> QED
          BY <1>2, <1>3, <1>4, <2>1, <3>1, <3>2, <3>3, <4>1 DEF PaidBackIsBooked
      <3>4. CASE faults'[k] = faults[k] /\ ~ RefundRowFits(RefundAmount(k, n))
        <4>1. Charge(k) <= MaxInt => u * n = 0
          BY <1>2, <1>3, <3>4, LedgerAssumption DEF RefundRowFits
        <4>2. Charge(k) * faults[k] \in Nat
          BY <1>2, MulNat
        <4> HIDE DEF u, n
        <4> QED
          BY <1>2, <1>3, <1>4, <2>1, <3>1, <3>2, <3>4, <4>1, <4>2 DEF PaidBackIsBooked
      <3> QED BY <3>3, <3>4
    <2>4. faults[k] = 0 \/ faults'[k] # 0
      BY <1>2
    <2> QED BY <1>1, <2>1, <2>2, <2>3, <2>4, SoldKeyInv DEF providerVars
  <1>7. ASSUME NEW j \in Keys, j # k PROVE KeyInv(j)'
    <2>1. SameRow(j)
      BY <1>7 DEF rowVars, providerVars, SameRow, LedgerInv, LedgerTypeOK
    <2> QED BY <2>1, KeyFrame DEF LedgerInv
  <1> QED BY <1>5, <1>6, <1>7 DEF LedgerInv

\* The row is refused for its amount: what was paid back is accounted for.
LEMMA RefundRefusedInv ==
  ASSUME LedgerInv, NEW k \in Keys, RefundRefused(k)
  PROVE  LedgerInv'
  <1>1. UNCHANGED faults /\ faults \in [Keys -> 0 .. MaxFaults]
    BY DEF RefundRefused, LedgerInv, LedgerTypeOK
  <1> QED BY <1>1, ForgottenInv DEF RefundRefused

\* The refund fails after it was paid back: one more failed call is accounted for.
LEMMA RefundFailsInv ==
  ASSUME LedgerInv, NEW k \in Keys, RefundFails(k)
  PROVE  LedgerInv'
  <1>1. /\ faults' \in [Keys -> 0 .. MaxFaults]
        /\ \A j \in Keys \ {k} : faults'[j] = faults[j]
        /\ faults'[k] = faults[k] + 1
    BY LedgerAssumption DEF RefundFails, LedgerInv, LedgerTypeOK
  <1> QED BY <1>1, ForgottenInv DEF RefundFails

\* So every step keeps the invariant.
LEMMA LedgerStepInv == LedgerInv /\ [LedgerNext]_ledgerVars => LedgerInv'
  <1> SUFFICES ASSUME LedgerInv, [LedgerNext]_ledgerVars PROVE LedgerInv'
    OBVIOUS
  <1>1. ASSUME NEW t \in TicketTypes, NEW p \in PriceLists, SetPrices(t, p)
        PROVE  LedgerInv'
    BY <1>1, PricesInv
  <1>2. ASSUME NEW k \in Keys, NEW t \in TicketTypes, NEW q \in 1 .. MaxQty,
               PurchaseCaptured(k, t, q)
        PROVE  LedgerInv'
    BY <1>2, CapturedInv
  <1>3. ASSUME NEW k \in Keys, NEW t \in TicketTypes, NEW q \in 1 .. MaxQty,
               PurchaseDeclined(k, t, q)
        PROVE  LedgerInv'
    BY <1>3, DeclinedInv
  <1>4. ASSUME NEW k \in Keys, PurchaseCommits(k) PROVE LedgerInv'
    BY <1>4, CommitsInv
  <1>5. ASSUME NEW k \in Keys, PurchaseFails(k) PROVE LedgerInv'
    BY <1>5, FailsInv
  <1>6. ASSUME NEW k \in Keys, NEW n \in 1 .. MaxQty, RefundPaid(k, n)
        PROVE  LedgerInv'
    BY <1>6, RefundPaidInv
  <1>7. ASSUME NEW k \in Keys, RefundCommits(k) PROVE LedgerInv'
    BY <1>7, RefundCommitsInv
  <1>8. ASSUME NEW k \in Keys, RefundRefused(k) PROVE LedgerInv'
    BY <1>8, RefundRefusedInv
  <1>9. ASSUME NEW k \in Keys, RefundFails(k) PROVE LedgerInv'
    BY <1>9, RefundFailsInv
  <1>10. CASE UNCHANGED ledgerVars
    <2>1. LedgerTypeOK'
      BY <1>10 DEF ledgerVars, rowVars, providerVars, LedgerInv, LedgerTypeOK
    <2>2. ASSUME NEW j \in Keys PROVE KeyInv(j)'
      <3>1. SameRow(j)
        BY <1>10 DEF ledgerVars, rowVars, providerVars, SameRow
      <3> QED BY <3>1, KeyFrame DEF LedgerInv
    <2> QED BY <2>1, <2>2 DEF LedgerInv
  <1> QED
    BY <1>1, <1>2, <1>3, <1>4, <1>5, <1>6, <1>7, <1>8, <1>9, <1>10 DEF LedgerNext

\* And it always holds.
LEMMA LedgerAlways == LedgerSpec => []LedgerInv
  BY LedgerInitInv, LedgerStepInv, PTL DEF LedgerSpec

-----------------------------------------------------------------------------
\* Tickets out and refunds under way stay within the order, whatever fails.
THEOREM LedgerTypeCorrect == LedgerSpec => []LedgerTypeOK
  <1>1. LedgerInv => LedgerTypeOK
    BY DEF LedgerInv
  <1> QED BY <1>1, LedgerAlways, PTL

\* Refunds are fair to the cent for any prices, fees, taxes and quantities:
\* floor division in refund_service loses nothing.
THEOREM RefundsAreFair == LedgerSpec => []RefundsProRata
  <1>1. LedgerInv => RefundsProRata
    <2> SUFFICES ASSUME LedgerInv, NEW k \in Keys, Sold(k)
                 PROVE  refunded[k] * ordQty[k] = Charge(k) * (ordQty[k] - out[k])
      BY DEF RefundsProRata
    <2>1. \A u, q, d \in Nat : (u * d) * q = (u * q) * d
      OBVIOUS
    <2>2. ordQty[k] - out[k] \in Nat
      BY SoldFacts
    <2> QED BY <2>1, <2>2, SoldFacts
  <1> QED BY <1>1, LedgerAlways, PTL

\* 'refunded' means paid back in full, and nothing else does.
THEOREM RefundedIsPaidBack == LedgerSpec => []RefundedMeansPaidBack
  <1>1. LedgerInv => RefundedMeansPaidBack
    <2> SUFFICES ASSUME LedgerInv, NEW k \in Keys, Sold(k)
                 PROVE  ordStatus[k] = "refunded"
                           <=> refunded[k] = Charge(k) /\ Charge(k) > 0
      BY DEF RefundedMeansPaidBack
    <2> DEFINE u == UnitCharge(k)
               q == ordQty[k]
               o == out[k]
    <2>1. /\ u \in Nat /\ q \in Nat /\ q > 0 /\ o \in Nat /\ o <= q
          /\ Charge(k) = u * q /\ refunded[k] = u * (q - o)
          /\ ordStatus[k] = "refunded" <=> o = 0
          /\ o < q => u > 0
      BY SoldFacts
    <2> HIDE DEF u, q, o
    <2>2. PICK d \in Nat : d = q - o /\ d + o = q
      BY <2>1
    <2>3. /\ u * q = u * d + u * o
          /\ u * o \in Nat /\ u * d \in Nat /\ u * (q - o) = u * d
      <3>1. u * (d + o) = u * d + u * o
        BY <2>1, <2>2, MulSplit
      <3>2. u * o \in Nat /\ u * d \in Nat
        BY <2>1, <2>2, MulNat
      <3>3. d + o = q /\ q - o = d
        BY <2>2
      <3> QED BY <3>1, <3>2, <3>3, Zenon
    <2>4. CASE o = 0
      <3>1. d = q
        BY <2>1, <2>2, <2>4
      <3> QED BY <2>1, <2>2, <2>4, <3>1, MulPos, MulNat
    <2>5. CASE o > 0
      <3>1. refunded[k] = u * d /\ Charge(k) = u * d + u * o
        BY <2>1, <2>3
      <3>2. u * o = 0 <=> u = 0
        BY <2>1, <2>5, MulPos
      <3>3. u = 0 => Charge(k) = 0
        BY <2>1, MulNat
      <3> QED BY <2>1, <2>3, <2>5, <3>1, <3>2, <3>3
    <2> QED BY <2>1, <2>4, <2>5
  <1> QED BY <1>1, LedgerAlways, PTL

\* What LedgerInv says of payments, for every key.
LEMMA PaymentFacts ==
  ASSUME LedgerInv, NEW k \in Keys, Charge(k) <= MaxInt
  PROVE  /\ refunded[k] \in Nat /\ paidBack[k] \in Nat /\ faults[k] \in Nat
         /\ Charge(k) \in Nat /\ refunding[k] \in Nat
         /\ ~ Sold(k) => refunded[k] = 0 /\ paidBack[k] = 0 /\ refunding[k] = 0
         /\ Sold(k) => /\ RefundAmount(k, refunding[k]) \in Nat
                       /\ RefundAmount(k, refunding[k]) <= Charge(k)
                       /\ refunding[k] = 0 => RefundAmount(k, refunding[k]) = 0
                       /\ refunded[k] + RefundAmount(k, refunding[k]) <= paidBack[k]
                       /\ paidBack[k] <= refunded[k] + RefundAmount(k, refunding[k])
                                             + Charge(k) * faults[k]
  <1>1. /\ refunded[k] \in Nat /\ paidBack[k] \in Nat /\ faults[k] \in Nat
        /\ Charge(k) \in Nat /\ refunding[k] \in Nat
    BY LedgerAssumption DEF LedgerInv, LedgerTypeOK, Charge
  <1>2. ~ Sold(k) => refunded[k] = 0 /\ paidBack[k] = 0 /\ refunding[k] = 0
    BY DEF LedgerInv, KeyInv, UnsoldIsUntouched
  <1>3. CASE Sold(k)
    <2>1. /\ UnitCharge(k) \in Nat /\ ordQty[k] \in Nat /\ refunding[k] <= ordQty[k]
          /\ Charge(k) = UnitCharge(k) * ordQty[k]
      BY <1>1, <1>3, SoldFacts
    <2>2. RefundAmount(k, refunding[k]) = UnitCharge(k) * refunding[k]
      BY <1>1, RefundIsWhole
    <2>3. /\ UnitCharge(k) * refunding[k] \in Nat
          /\ UnitCharge(k) * refunding[k] <= Charge(k)
          /\ UnitCharge(k) * 0 = 0
      BY <1>1, <2>1, MulNat, MulMono
    <2>4. PaidBackIsBooked(k)
      BY DEF LedgerInv, KeyInv
    <2> QED BY <1>1, <1>2, <1>3, <2>2, <2>3, <2>4 DEF PaidBackIsBooked
  <1> QED BY <1>1, <1>2, <1>3

\* Books and provider agree as long as no call has failed.
THEOREM BooksAgree == LedgerSpec => []BooksMatchProvider
  <1>1. LedgerInv => BooksMatchProvider
    <2> SUFFICES ASSUME LedgerInv, NEW k \in Keys, faults[k] = 0
                 PROVE  /\ captured[k] = IF Sold(k) \/ ordStatus[k] = "processing"
                                         THEN Charge(k) ELSE 0
                        /\ Charge(k) <= MaxInt =>
                              paidBack[k] = refunded[k]
                                  + IF refunding[k] = 0 THEN 0
                                    ELSE RefundAmount(k, refunding[k])
      BY DEF BooksMatchProvider
    <2>1. CaptureIsBooked(k)
      BY DEF LedgerInv, KeyInv
    <2>2. ASSUME Charge(k) <= MaxInt
          PROVE  paidBack[k] = refunded[k] + IF refunding[k] = 0 THEN 0
                                             ELSE RefundAmount(k, refunding[k])
      <3>1. Charge(k) * faults[k] = 0
        BY <2>2, PaymentFacts
      <3>2. CASE Sold(k)
        <4>1. /\ refunded[k] \in Nat /\ paidBack[k] \in Nat
              /\ RefundAmount(k, refunding[k]) \in Nat
              /\ refunding[k] = 0 => RefundAmount(k, refunding[k]) = 0
              /\ refunded[k] + RefundAmount(k, refunding[k]) <= paidBack[k]
              /\ paidBack[k] <= refunded[k] + RefundAmount(k, refunding[k]) + 0
          BY <2>2, <3>1, <3>2, PaymentFacts
        <4> QED BY <4>1
      <3>3. CASE ~ Sold(k)
        BY <2>2, <3>3, PaymentFacts
      <3> QED BY <3>2, <3>3
    <2> QED BY <2>1, <2>2 DEF CaptureIsBooked
  <1> QED BY <1>1, LedgerAlways, PTL

\* A failed refund call costs at most what the order was charged.
THEOREM LossIsBounded == LedgerSpec => []LossBounded
  <1>1. LedgerInv => LossBounded
    <2> SUFFICES ASSUME LedgerInv, NEW k \in Keys, Charge(k) <= MaxInt
                 PROVE  /\ refunded[k] <= paidBack[k]
                        /\ paidBack[k] - refunded[k]
                              <= Charge(k) * (faults[k] + IF refunding[k] = 0
                                                          THEN 0 ELSE 1)
      BY DEF LossBounded
    <2>1. /\ Charge(k) \in Nat /\ faults[k] \in Nat
          /\ refunded[k] \in Nat /\ paidBack[k] \in Nat
      BY PaymentFacts
    <2>2. /\ Charge(k) * faults[k] \in Nat
          /\ Charge(k) * (faults[k] + 0) = Charge(k) * faults[k]
          /\ Charge(k) * (faults[k] + 1) = Charge(k) * faults[k] + Charge(k)
      BY <2>1, MulNat, MulSplit
    <2>3. CASE Sold(k) /\ refunding[k] = 0
      BY <2>1, <2>2, <2>3, PaymentFacts
    <2>4. CASE Sold(k) /\ refunding[k] # 0
      BY <2>1, <2>2, <2>4, PaymentFacts
    <2>5. CASE ~ Sold(k)
      BY <2>1, <2>2, <2>5, PaymentFacts
    <2> QED BY <2>3, <2>4, <2>5
  <1> QED BY <1>1, LedgerAlways, PTL

-----------------------------------------------------------------------------
(* Refinement.  sales, paid and kept are short for the refinement mapping. *)

sales == {k \in Keys : Sold(k)}
paid  == [k \in Keys |-> IF Sold(k) THEN Charge(k) ELSE 0]
kept  == [k \in Keys |-> IF Sold(k) THEN Charge(k) - refunded[k] ELSE 0]

\* When only key k changes, the accounts of the other orders stay.
LEMMA AccountFrame ==
  ASSUME NEW k \in Keys,
         \A j \in Keys \ {k} : /\ Sold(j)' = Sold(j)
                               /\ Charge(j)' = Charge(j)
                               /\ refunded'[j] = refunded[j]
  PROVE  /\ sales' = IF Sold(k)' THEN sales \cup {k} ELSE sales \ {k}
         /\ paid' = [paid EXCEPT ![k] = paid'[k]]
         /\ kept' = [kept EXCEPT ![k] = kept'[k]]
  BY DEF sales, paid, kept

\* A step that changes neither what was sold, nor what was charged for it, nor
\* its Refund rows leaves the accounts alone.
LEMMA AccountStutter ==
  ASSUME \A j \in Keys : /\ Sold(j)' = Sold(j)
                         /\ Sold(j) => /\ Charge(j)' = Charge(j)
                                       /\ refunded'[j] = refunded[j]
  PROVE  UNCHANGED <<sales, paid, kept>>
  <1>1. sales' = sales
    BY DEF sales
  <1>2. paid' = paid
    BY DEF paid
  <1>3. kept' = kept
    BY DEF kept
  <1> QED BY <1>1, <1>2, <1>3

\* A COMMIT of a purchase is a sale.
LEMMA CommitSells ==
  ASSUME LedgerInv, NEW k \in Keys, PurchaseCommits(k)
  PROVE  Books!Sell(k)
  <1>1. ~ Sold(k) /\ Sold(k)'
    BY DEF PurchaseCommits, Sold, LedgerInv, LedgerTypeOK
  <1>2. refunded[k] = 0 /\ refunded' = refunded
    BY <1>1 DEF PurchaseCommits, LedgerInv, KeyInv, UnsoldIsUntouched
  <1>3. \A j \in Keys : Charge(j)' = Charge(j)
    BY DEF PurchaseCommits, rowVars, Charge
  <1>4. \A j \in Keys \ {k} : Sold(j)' = Sold(j)
    BY DEF PurchaseCommits, Sold, LedgerInv, LedgerTypeOK
  <1>5. Charge(k) \in Nat
    BY DEF Charge, LedgerInv, LedgerTypeOK
  <1>6. /\ sales' = sales \cup {k}
        /\ paid' = [paid EXCEPT ![k] = paid'[k]]
        /\ kept' = [kept EXCEPT ![k] = kept'[k]]
    BY <1>1, <1>2, <1>3, <1>4, AccountFrame
  <1>7. k \notin sales /\ paid'[k] \in Nat /\ kept'[k] = paid'[k]
    BY <1>1, <1>2, <1>3, <1>5 DEF sales, paid, kept
  <1> QED BY <1>6, <1>7 DEF Books!Sell, sales, paid, kept

\* A COMMIT of a refund gives back, at most what is left.
LEMMA CommitGivesBack ==
  ASSUME LedgerInv, LedgerInv', NEW k \in Keys, RefundCommits(k)
  PROVE  Books!GiveBack(k)
  <1>1. Sold(k)
    BY DEF RefundCommits, LedgerInv, LedgerTypeOK, KeyInv, UnsoldIsUntouched
  <1>2. Sold(k)'
    BY DEF RefundCommits, Sold, LedgerInv, LedgerTypeOK
  <1>3. \A j \in Keys : Charge(j)' = Charge(j)
    BY DEF RefundCommits, rowVars, Charge
  <1>4. \A j \in Keys \ {k} : Sold(j)' = Sold(j) /\ refunded'[j] = refunded[j]
    BY DEF RefundCommits, Sold, LedgerInv, LedgerTypeOK
  <1>5. /\ Charge(k) \in Nat /\ refunded[k] \in Nat /\ refunded'[k] \in Nat
        /\ refunded[k] < refunded'[k]
    <2>1. /\ Charge(k) \in Nat /\ refunded[k] \in Nat /\ refunded'[k] \in Nat
      BY DEF Charge, LedgerInv, LedgerTypeOK
    <2>2. /\ refunded'[k] = refunded[k] + RefundAmount(k, refunding[k])
          /\ 0 < RefundAmount(k, refunding[k])
      BY DEF RefundCommits, RefundRowFits, LedgerInv, LedgerTypeOK
    <2>3. RefundAmount(k, refunding[k]) \in Nat
      BY <1>1, SoldFacts, RefundIsWhole, MulNat
    <2> QED BY <2>1, <2>2, <2>3
  <1>6. refunded'[k] <= Charge(k)
    <2>1. UnitCharge(k)' = UnitCharge(k) /\ Charge(k)' = Charge(k) /\ ordQty' = ordQty
      BY RowKept DEF RefundCommits, rowVars
    <2>2. refunded'[k] = UnitCharge(k) * (ordQty[k] - out'[k])
      BY <1>2, <2>1 DEF LedgerInv, KeyInv, SoldIsCounted
    <2>3. out'[k] \in Nat /\ out'[k] <= ordQty[k]
      BY <2>1, LedgerAssumption DEF LedgerInv, LedgerTypeOK
    <2>4. /\ UnitCharge(k) \in Nat /\ ordQty[k] \in Nat
          /\ Charge(k) = UnitCharge(k) * ordQty[k]
      BY <1>1, SoldFacts
    <2>5. ordQty[k] - out'[k] \in Nat /\ ordQty[k] - out'[k] <= ordQty[k]
      BY <2>3, <2>4
    <2> QED BY <2>2, <2>4, <2>5, MulMono
  <1>7. /\ sales' = sales \cup {k} /\ k \in sales
        /\ paid' = [paid EXCEPT ![k] = paid'[k]]
        /\ kept' = [kept EXCEPT ![k] = kept'[k]]
    BY <1>1, <1>2, <1>3, <1>4, AccountFrame DEF sales
  <1>8. /\ paid'[k] = paid[k]
        /\ kept[k] = Charge(k) - refunded[k]
        /\ kept'[k] = Charge(k) - refunded'[k]
    BY <1>1, <1>2, <1>3 DEF paid, kept
  <1>9. kept'[k] \in 0 .. kept[k] - 1
    BY <1>5, <1>6, <1>8
  <1>10. sales' = sales /\ paid' = paid
    BY <1>7, <1>8 DEF paid
  <1> QED BY <1>7, <1>9, <1>10 DEF Books!GiveBack, sales, paid, kept

\* Every step of the ledger is a step of the accounts, or leaves them alone.
LEMMA LedgerStepMaps ==
  ASSUME LedgerInv, LedgerInv', [LedgerNext]_ledgerVars
  PROVE  [Books!AccountsNext]_Books!accountVars
  <1> SUFFICES ASSUME ~ \E k \in Keys : PurchaseCommits(k) \/ RefundCommits(k)
               PROVE  UNCHANGED <<sales, paid, kept>>
    <2>1. ASSUME NEW k \in Keys, PurchaseCommits(k) PROVE Books!AccountsNext
      BY <2>1, CommitSells DEF Books!AccountsNext
    <2>2. ASSUME NEW k \in Keys, RefundCommits(k) PROVE Books!AccountsNext
      BY <2>2, CommitGivesBack DEF Books!AccountsNext
    <2>3. ASSUME UNCHANGED <<sales, paid, kept>> PROVE UNCHANGED Books!accountVars
      BY <2>3 DEF Books!accountVars, sales, paid, kept
    <2> QED BY <2>1, <2>2, <2>3
  <1>1. ASSUME NEW k \in Keys, NEW t \in TicketTypes, NEW q \in 1 .. MaxQty,
               InsertOrder(k, t, q), refunded' = refunded,
               \/ ordStatus' = [ordStatus EXCEPT ![k] = "processing"]
               \/ ordStatus' = [ordStatus EXCEPT ![k] = "failed"]
        PROVE  UNCHANGED <<sales, paid, kept>>
    <2>1. ordStatus[k] = "none"
      BY <1>1 DEF InsertOrder
    <2>2. \A j \in Keys : Sold(j)' = Sold(j)
      BY <1>1, <2>1 DEF Sold, LedgerInv, LedgerTypeOK
    <2>3. \A j \in Keys \ {k} : Charge(j)' = Charge(j)
      BY <1>1, InsertedElsewhere DEF Charge
    <2> QED BY <1>1, <2>1, <2>2, <2>3, AccountStutter DEF Sold
  <1>2. ASSUME NEW k \in Keys, PurchaseFails(k)
        PROVE  UNCHANGED <<sales, paid, kept>>
    <2>1. ordStatus[k] = "processing" /\ refunded' = refunded
      BY <1>2 DEF PurchaseFails
    <2>2. \A j \in Keys : Sold(j)' = Sold(j)
      BY <1>2, <2>1 DEF PurchaseFails, Sold, LedgerInv, LedgerTypeOK
    <2>3. \A j \in Keys \ {k} : Charge(j)' = Charge(j)
      BY <1>2 DEF PurchaseFails, Charge, LedgerInv, LedgerTypeOK
    <2> QED BY <2>1, <2>2, <2>3, AccountStutter DEF Sold
  <1>3. ASSUME UNCHANGED <<ordStatus, rowVars, refunded>>
        PROVE  UNCHANGED <<sales, paid, kept>>
    BY <1>3, AccountStutter DEF rowVars, Charge, Sold
  <1> QED
    <2>1. CASE \E k \in Keys, t \in TicketTypes, q \in 1 .. MaxQty :
                  PurchaseCaptured(k, t, q) \/ PurchaseDeclined(k, t, q)
      BY <1>1, <2>1 DEF PurchaseCaptured, PurchaseDeclined
    <2>2. CASE \E k \in Keys : PurchaseFails(k)
      BY <1>2, <2>2
    <2>3. CASE \/ \E t \in TicketTypes, p \in PriceLists : SetPrices(t, p)
               \/ \E k \in Keys, n \in 1 .. MaxQty : RefundPaid(k, n)
               \/ \E k \in Keys : RefundRefused(k) \/ RefundFails(k)
               \/ UNCHANGED ledgerVars
      BY <1>3, <2>3 DEF SetPrices, RefundPaid, RefundRefused, RefundFails, ledgerVars
    <2> QED BY <2>1, <2>2, <2>3 DEF LedgerNext

\* The Order and Refund rows are an account per order: paid once, never
\* changed, given back in positive amounts up to what is left, for any
\* prices, quantities and failures.
THEOREM LedgerImplementsAccounts == LedgerSpec => ImplementsAccounts
  <1>1. LedgerInit => Books!AccountsInit
    BY DEF LedgerInit, Sold, Books!AccountsInit
  <1>2. LedgerInv /\ LedgerInv' /\ [LedgerNext]_ledgerVars
           => [Books!AccountsNext]_Books!accountVars
    BY LedgerStepMaps
  <1> QED
    BY <1>1, <1>2, LedgerAlways, PTL
    DEF LedgerSpec, ImplementsAccounts, Books!AccountsSpec
=============================================================================
