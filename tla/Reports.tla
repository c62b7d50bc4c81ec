------------------------------ MODULE Reports ------------------------------
(***************************************************************************)
(* What finance reads off the Order and Refund rows of module Ledger: a    *)
(* row of the daily sales report, which is put together from two queries   *)
(* that other transactions may come between, and the revenue metric.       *)
(***************************************************************************)
EXTENDS Ledger, FiniteSetsExt

\* The orders of a report can be added up.
ASSUME ReportsAssumption == IsFiniteSet(Keys)

VARIABLE report   \* the row being put together, and how far it is

reportVars == <<ledgerVars, report>>

NoReport == [phase |-> "none", orders |-> {}, gross |-> 0, net |-> 0]

SumOf(f, S) == MapThenSumSet(LAMBDA k : f[k], S)

\* Faulty variant: tax is left out.
ChargesUntaxed == [k \in Keys |-> totalCents[k] + totalFees[k]]

Charges == [k \in Keys |-> Charge(k)]

ReportsInit == LedgerInit /\ report = NoReport

\* Faulty variant: orders that were refunded in full are left out of the
\* takings but their refunds are not.
ReportOrdersUnrefunded(day) ==
    LET listed == {k \in day : Sold(k)}
        gross  == SumOf(Charges, {k \in listed : ordStatus[k] # "refunded"})
    IN
    /\ report.phase # "orders"
    /\ report' = [NoReport EXCEPT !.phase = "orders", !.orders = listed,
                                  !.gross = gross]
    /\ UNCHANGED ledgerVars

\* generate_sales_csv reads the orders; day are the keys of one event and day
\* of creation, and gross, fees and tax are added up from what was read.
ReportOrders(day) ==
    LET listed == {k \in day : Sold(k)} IN
    /\ report.phase # "orders"
    /\ report' = [NoReport EXCEPT !.phase = "orders", !.orders = listed,
                                  !.gross = SumOf(Charges, listed)]
    /\ UNCHANGED ledgerVars

\* Then it reads the refund totals of those orders.
ReportRefunds ==
    /\ report.phase = "orders"
    /\ report' = [report EXCEPT !.phase = "done",
                                !.net = report.gross - SumOf(refunded, report.orders)]
    /\ UNCHANGED ledgerVars

ReportsNext ==
    \/ LedgerNext /\ UNCHANGED report
    \/ \E day \in SUBSET Keys : ReportOrders(day)
    \/ ReportRefunds

ReportsSpec == ReportsInit /\ [][ReportsNext]_reportVars

-----------------------------------------------------------------------------
\* Faulty variant: partially refunded orders are forgotten.
RevenuePerEventConfirmed == SumOf(totalCents, {k \in Keys : ordStatus[k] = "confirmed"})

\* MetricsView: revenue_per_event_cents, of an event that has all the orders.
RevenuePerEvent ==
    SumOf(totalCents,
          {k \in Keys : ordStatus[k] \in {"confirmed", "partially_refunded"}})

\* The net revenue finance reports is money the provider holds for the orders
\* listed, although the two queries may see different moments: with no failed
\* call and no refund under way it is what was captured for them less what
\* was paid back.
NetMatchesProvider ==
    [][ReportRefunds /\ (\A k \in report.orders : faults[k] = 0
                              /\ refunding[k] = 0 /\ Charge(k) <= MaxInt)
          => report'.net = SumOf(captured, report.orders)
                              - SumOf(paidBack, report.orders)]_reportVars

\* No row of the report shows a loss, whatever is refunded between its two
\* queries.
NetNeverNegative == report.phase = "done" => 0 <= report.net /\ report.net <= report.gross

\* The revenue metric covers every ticket that is still out at the price it
\* was sold for; refunds make it too high, never too low.
RevenueCoversTicketsOut ==
    SumOf([k \in Keys |-> unitPrice[k] * out[k]], Keys) <= RevenuePerEvent
=============================================================================
