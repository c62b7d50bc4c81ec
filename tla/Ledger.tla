------------------------------- MODULE Ledger -------------------------------
(***************************************************************************)
(* The money of the ticket shop, in cents: what process_purchase charges,  *)
(* what issue_refund pays back, what the Order and Refund rows say of it   *)
(* and what the payment provider did.  The provider is called inside the   *)
(* database transaction and is not undone when the transaction is, so a    *)
(* call is two steps here: the provider's answer, and the COMMIT.          *)
(*                                                                         *)
(* Inventory says which tickets are sold and refunded; here they are       *)
(* counted.  An order is identified by its idempotency key, and the row    *)
(* lock on it lets one transaction at a time be open for it.               *)
(***************************************************************************)
EXTENDS Integers

CONSTANTS
    TicketTypes,   \* TicketType rows
    PriceLists,    \* the <<price_cents, service_fee_cents, tax_cents>> in use
    Keys,          \* pool of idempotency keys
    NoRow,         \* what a column of a row that does not exist holds
    MaxQty,        \* bound on the quantity of an order
    MaxInt,        \* the largest value of a PositiveIntegerField
    MaxPaidBack,   \* bound on what the provider has paid back of one order
    MaxFaults      \* bound on the failures between provider call and COMMIT

ASSUME LedgerAssumption ==
    /\ PriceLists \subseteq Nat \X Nat \X Nat
    /\ MaxQty \in Nat \ {0}
    /\ MaxInt \in Nat
    /\ MaxPaidBack \in Nat
    /\ MaxFaults \in Nat

VARIABLES
    prices,       \* TicketType.price_cents, service_fee_cents, tax_cents
    ordStatus,    \* Order.status by key, "none" while there is no row
    ordType,      \* Order.ticket_type
    ordQty,       \* Order.quantity
    unitPrice,    \* Order.unit_price_cents
    totalCents,   \* Order.total_cents
    totalFees,    \* Order.total_fees_cents
    totalTax,     \* Order.total_tax_cents
    out,          \* the number of Ticket rows of the order that are active
    refunded,     \* the SUM(amount_cents) of the order's Refund rows
    refunding,    \* tickets of a refund the provider made, not yet committed
    captured,     \* what the provider captured with the key
    paidBack,     \* what the provider paid back of the order
    faults        \* failures after a provider call, by key

rowVars      == <<ordType, ordQty, unitPrice, totalCents, totalFees, totalTax>>
providerVars == <<captured, paidBack>>
ledgerVars   == <<prices, ordStatus, rowVars, out, refunded, refunding,
                  providerVars, faults>>

-----------------------------------------------------------------------------
\* Orders that were paid for: the ones the sales report lists.
Sold(k) == ordStatus[k] \in {"confirmed", "partially_refunded", "refunded"}

\* What is captured for an order: price, fees and tax.
Charge(k) == totalCents[k] + totalFees[k] + totalTax[k]

\* Faulty variant: a refund at today's prices.
RefundAmountToday(k, n) ==
    LET p == prices[ordType[k]] IN (p[1] + p[2] + p[3]) * n

\* refund_amount_cents for n tickets of order k.
RefundAmount(k, n) ==
    (unitPrice[k] + totalFees[k] \div ordQty[k] + totalTax[k] \div ordQty[k]) * n

\* The Refund row can be inserted: chk_refund_positive and the integer column.
RefundRowFits(a) == 0 < a /\ a <= MaxInt

-----------------------------------------------------------------------------
LedgerInit ==
    /\ prices \in [TicketTypes -> PriceLists]
    /\ ordStatus = [k \in Keys |-> "none"]
    /\ ordType = [k \in Keys |-> NoRow]
    /\ ordQty = [k \in Keys |-> 0]
    /\ unitPrice = [k \in Keys |-> 0]
    /\ totalCents = [k \in Keys |-> 0]
    /\ totalFees = [k \in Keys |-> 0]
    /\ totalTax = [k \in Keys |-> 0]
    /\ out = [k \in Keys |-> 0]
    /\ refunded = [k \in Keys |-> 0]
    /\ refunding = [k \in Keys |-> 0]
    /\ captured = [k \in Keys |-> 0]
    /\ paidBack = [k \in Keys |-> 0]
    /\ faults = [k \in Keys |-> 0]

\* The admin changes the prices of a ticket type; the UPDATE waits for a
\* purchase that has locked the row.
SetPrices(t, p) ==
    /\ \A k \in Keys : ordStatus[k] = "processing" => ordType[k] # t
    /\ prices' = [prices EXCEPT ![t] = p]
    /\ UNCHANGED <<ordStatus, rowVars, out, refunded, refunding, providerVars,
                   faults>>

\* Faulty variant: the service fee is taken once per order.
InsertOrderFlatFee(k, t, q) ==
    /\ ordStatus[k] = "none"
    /\ ordType' = [ordType EXCEPT ![k] = t]
    /\ ordQty' = [ordQty EXCEPT ![k] = q]
    /\ unitPrice' = [unitPrice EXCEPT ![k] = prices[t][1]]
    /\ totalCents' = [totalCents EXCEPT ![k] = prices[t][1] * q]
    /\ totalFees' = [totalFees EXCEPT ![k] = prices[t][2]]
    /\ totalTax' = [totalTax EXCEPT ![k] = prices[t][3] * q]

\* process_purchase creates the Order of key k, with the prices of the ticket
\* type it has locked.  A total that does not fit its column is refused by
\* the database, before anything is charged.
InsertOrder(k, t, q) ==
    /\ ordStatus[k] = "none"
    /\ \A i \in 1 .. 3 : prices[t][i] * q <= MaxInt
    /\ ordType' = [ordType EXCEPT ![k] = t]
    /\ ordQty' = [ordQty EXCEPT ![k] = q]
    /\ unitPrice' = [unitPrice EXCEPT ![k] = prices[t][1]]
    /\ totalCents' = [totalCents EXCEPT ![k] = prices[t][1] * q]
    /\ totalFees' = [totalFees EXCEPT ![k] = prices[t][2] * q]
    /\ totalTax' = [totalTax EXCEPT ![k] = prices[t][3] * q]

\* The provider captures the sum of the totals.
PurchaseCaptured(k, t, q) ==
    /\ InsertOrder(k, t, q)
    /\ ordStatus' = [ordStatus EXCEPT ![k] = "processing"]
    /\ captured' = [captured EXCEPT
           ![k] = @ + totalCents'[k] + totalFees'[k] + totalTax'[k]]
    /\ UNCHANGED <<prices, out, refunded, refunding, paidBack, faults>>

\* The provider declines: the failed Order is committed, with its totals.
PurchaseDeclined(k, t, q) ==
    /\ InsertOrder(k, t, q)
    /\ ordStatus' = [ordStatus EXCEPT ![k] = "failed"]
    /\ UNCHANGED <<prices, out, refunded, refunding, providerVars, faults>>

PurchaseCommits(k) ==
    /\ ordStatus[k] = "processing"
    /\ ordStatus' = [ordStatus EXCEPT ![k] = "confirmed"]
    /\ out' = [out EXCEPT ![k] = ordQty[k]]
    /\ UNCHANGED <<prices, rowVars, refunded, refunding, providerVars, faults>>

\* The worker dies or the transaction fails after the capture: the Order row
\* goes, the charge stays.
PurchaseFails(k) ==
    /\ ordStatus[k] = "processing"
    /\ faults[k] < MaxFaults
    /\ faults' = [faults EXCEPT ![k] = @ + 1]
    /\ ordStatus' = [ordStatus EXCEPT ![k] = "none"]
    /\ ordType' = [ordType EXCEPT ![k] = NoRow]
    /\ ordQty' = [ordQty EXCEPT ![k] = 0]
    /\ unitPrice' = [unitPrice EXCEPT ![k] = 0]
    /\ totalCents' = [totalCents EXCEPT ![k] = 0]
    /\ totalFees' = [totalFees EXCEPT ![k] = 0]
    /\ totalTax' = [totalTax EXCEPT ![k] = 0]
    /\ UNCHANGED <<prices, out, refunded, refunding, providerVars>>

\* Faulty variant: the order is not locked while its refund goes on.
RefundPaidUnlocked(k, n) ==
    /\ ordStatus[k] \in {"confirmed", "partially_refunded"}
    /\ n <= out[k]
    /\ paidBack[k] <= MaxPaidBack
    /\ refunding' = [refunding EXCEPT ![k] = n]
    /\ paidBack' = [paidBack EXCEPT ![k] = @ + RefundAmount(k, n)]
    /\ UNCHANGED <<prices, ordStatus, rowVars, out, refunded, captured, faults>>

\* Faulty variant: tickets are not filtered by status.
RefundPaidAnyTicket(k, n) ==
    /\ ordStatus[k] \in {"confirmed", "partially_refunded"}
    /\ refunding[k] = 0
    /\ n <= ordQty[k]
    /\ paidBack[k] <= MaxPaidBack
    /\ refunding' = [refunding EXCEPT ![k] = n]
    /\ paidBack' = [paidBack EXCEPT ![k] = @ + RefundAmount(k, n)]
    /\ UNCHANGED <<prices, ordStatus, rowVars, out, refunded, captured, faults>>

\* issue_refund has locked the order, found n active tickets to take back and
\* called provider.refund, which pays.
RefundPaid(k, n) ==
    /\ ordStatus[k] \in {"confirmed", "partially_refunded"}
    /\ refunding[k] = 0
    /\ n <= out[k]
    /\ paidBack[k] <= MaxPaidBack
    /\ refunding' = [refunding EXCEPT ![k] = n]
    /\ paidBack' = [paidBack EXCEPT ![k] = @ + RefundAmount(k, n)]
    /\ UNCHANGED <<prices, ordStatus, rowVars, out, refunded, captured, faults>>

\* The Refund row, the tickets and the order's status are committed.
RefundCommits(k) ==
    LET n == refunding[k]
        a == RefundAmount(k, n)
    IN
    /\ n > 0
    /\ RefundRowFits(a)
    /\ refunded' = [refunded EXCEPT ![k] = @ + a]
    /\ out' = [out EXCEPT ![k] = @ - n]
    /\ ordStatus' = [ordStatus EXCEPT
           ![k] = IF out[k] - n = 0 THEN "refunded" ELSE "partially_refunded"]
    /\ refunding' = [refunding EXCEPT ![k] = 0]
    /\ UNCHANGED <<prices, rowVars, providerVars, faults>>

\* The database refuses the Refund row: the transaction is rolled back, after
\* the provider has paid.
RefundRefused(k) ==
    /\ refunding[k] > 0
    /\ ~ RefundRowFits(RefundAmount(k, refunding[k]))
    /\ refunding' = [refunding EXCEPT ![k] = 0]
    /\ UNCHANGED <<prices, ordStatus, rowVars, out, refunded, providerVars,
                   faults>>

\* The request fails after the provider has paid, for any other reason.
RefundFails(k) ==
    /\ refunding[k] > 0
    /\ faults[k] < MaxFaults
    /\ faults' = [faults EXCEPT ![k] = @ + 1]
    /\ refunding' = [refunding EXCEPT ![k] = 0]
    /\ UNCHANGED <<prices, ordStatus, rowVars, out, refunded, providerVars>>

LedgerNext ==
    \/ \E t \in TicketTypes, p \in PriceLists : SetPrices(t, p)
    \/ \E k \in Keys, t \in TicketTypes, q \in 1 .. MaxQty :
          PurchaseCaptured(k, t, q)
    \/ \E k \in Keys, t \in TicketTypes, q \in 1 .. MaxQty :
          PurchaseDeclined(k, t, q)
    \/ \E k \in Keys : PurchaseCommits(k)
    \/ \E k \in Keys : PurchaseFails(k)
    \/ \E k \in Keys, n \in 1 .. MaxQty : RefundPaid(k, n)
    \/ \E k \in Keys : RefundCommits(k)
    \/ \E k \in Keys : RefundRefused(k)
    \/ \E k \in Keys : RefundFails(k)

LedgerSpec == LedgerInit /\ [][LedgerNext]_ledgerVars

-----------------------------------------------------------------------------
OrderStatus ==
    {"none", "processing", "confirmed", "partially_refunded", "refunded", "failed"}

\* The types of the columns; counts of tickets stay within the order.
LedgerTypeOK ==
    /\ prices \in [TicketTypes -> PriceLists]
    /\ ordStatus \in [Keys -> OrderStatus]
    /\ ordType \in [Keys -> TicketTypes \cup {NoRow}]
    /\ ordQty \in [Keys -> 0 .. MaxQty]
    /\ unitPrice \in [Keys -> Nat]
    /\ totalCents \in [Keys -> Nat]
    /\ totalFees \in [Keys -> Nat]
    /\ totalTax \in [Keys -> Nat]
    /\ out \in [Keys -> 0 .. MaxQty]
    /\ refunded \in [Keys -> Nat]
    /\ refunding \in [Keys -> 0 .. MaxQty]
    /\ captured \in [Keys -> Nat]
    /\ paidBack \in [Keys -> Nat]
    /\ faults \in [Keys -> 0 .. MaxFaults]
    /\ \A k \in Keys : refunding[k] <= out[k] /\ out[k] <= ordQty[k]

\* Refunds are fair to the cent: at any time the Refund rows of an order add
\* up to exactly the refunded tickets' share of what was charged, fees and
\* tax included, however the refunds are split and whatever became of the
\* prices since.
RefundsProRata ==
    \A k \in Keys : Sold(k) =>
        refunded[k] * ordQty[k] = Charge(k) * (ordQty[k] - out[k])

\* An order is 'refunded' exactly when every cent charged for it is in a
\* Refund row; an order that cost nothing therefore never gets there.
RefundedMeansPaidBack ==
    \A k \in Keys : Sold(k) =>
        (ordStatus[k] = "refunded" <=> refunded[k] = Charge(k) /\ Charge(k) > 0)

\* The books agree with the provider: while no call of the order has failed
\* and what it cost fits a Refund row, the provider has captured what the
\* order says and paid back what its Refund rows say, up to the refund that
\* is under way.
BooksMatchProvider ==
    \A k \in Keys : faults[k] = 0 =>
        /\ captured[k] =
              IF Sold(k) \/ ordStatus[k] = "processing" THEN Charge(k) ELSE 0
        /\ Charge(k) <= MaxInt =>
              paidBack[k] = refunded[k] + IF refunding[k] = 0 THEN 0
                                          ELSE RefundAmount(k, refunding[k])

\* A failure between the provider's refund and the COMMIT leaves the tickets
\* active, so the next request pays them back again: each failure costs the
\* shop at most what the order was charged.
LossBounded ==
    \A k \in Keys : Charge(k) <= MaxInt =>
        /\ refunded[k] <= paidBack[k]
        /\ paidBack[k] - refunded[k]
              <= Charge(k) * (faults[k] + IF refunding[k] = 0 THEN 0 ELSE 1)

\* The Order and Refund rows implement one account per order: paid once,
\* never changed, given back in positive amounts up to what is left.
Books == INSTANCE Accounts WITH
    Orders <- Keys,
    sales  <- {k \in Keys : Sold(k)},
    paid   <- [k \in Keys |-> IF Sold(k) THEN Charge(k) ELSE 0],
    kept   <- [k \in Keys |-> IF Sold(k) THEN Charge(k) - refunded[k] ELSE 0]
ImplementsAccounts == Books!AccountsSpec
=============================================================================
