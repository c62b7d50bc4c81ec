----------------------------- MODULE Inventory -----------------------------
(***************************************************************************)
(* The ticket inventory as its transactions leave it: the rows of          *)
(* TicketType, Event, Reservation, Order, Ticket, Refund and AuditLog, and *)
(* one action per transaction that commits.  A call that raises inside     *)
(* transaction.atomic() is rolled back and changes nothing, so refused     *)
(* calls are stuttering steps and their conditions are guards here.        *)
(* Module RowLocks splits the same operations into the steps two           *)
(* concurrent transactions can interleave and is checked to implement      *)
(* this module.                                                            *)
(*                                                                         *)
(* Abstractions.  Rows are created from pools of identifiers: Reservations *)
(* for Reservation ids and Keys for idempotency keys, which are unique and *)
(* so identify Order rows.  The i-th Ticket of the order with key k is the *)
(* pair <<k, i>>.  Time only decides whether expires_at has passed: lapsed *)
(* is the set of active reservations for which it has (of one that ended   *)
(* no code looks at expires_at again).                                     *)
(***************************************************************************)
EXTENDS Integers, FiniteSets

CONSTANTS
    TicketTypes,    \* TicketType rows
    Events,         \* Event rows
    EventOf,        \* TicketType.event
    FreeTypes,      \* ticket types with price, service fee and tax all zero
    Reservations,   \* pool of Reservation ids
    Keys,           \* pool of idempotency keys
    NoRow,          \* what a column of a row that does not exist holds
    MaxQty,         \* bound on the quantity of one reservation
    MaxCapacity     \* bound on total_capacity

ASSUME ConstantsAssumption ==
    /\ IsFiniteSet(Reservations)
    /\ IsFiniteSet(Keys)
    /\ NoRow \notin TicketTypes \cup Reservations
    /\ EventOf \in [TicketTypes -> Events]
    /\ FreeTypes \subseteq TicketTypes
    /\ MaxQty \in Nat \ {0}
    /\ MaxCapacity \in Nat

VARIABLES
    capacity,         \* TicketType.total_capacity
    sold,             \* TicketType.sold
    held,             \* TicketType.held
    onSale,           \* TicketType.status = 'active'
    paused,           \* Event.sales_paused
    resStatus,        \* Reservation.status, "none" while the id is unused
    resType,          \* Reservation.ticket_type
    resQty,           \* Reservation.quantity
    lapsed,           \* active reservations with expires_at < now()
    ordStatus,        \* Order.status by key, "none" while there is no row
    ordRes,           \* Order.reservation by key
    activeTickets,    \* Ticket rows with status 'active'
    refundedTickets,  \* Ticket rows with status 'refunded'
    refunds,          \* for each ticket, the Refund rows that paid it back
    audit             \* AuditLog rows: action and the id it is about

typeVars == <<capacity, sold, held, onSale, paused>>
resVars  == <<resStatus, resType, resQty, lapsed>>
ordVars  == <<ordStatus, ordRes, activeTickets, refundedTickets, refunds>>
vars     == <<typeVars, resVars, ordVars, audit>>

-----------------------------------------------------------------------------
ReservationStatus == {"active", "confirmed", "expired", "cancelled"}

\* 'processing' is written and overwritten inside one transaction: no
\* committed Order row has it.
OrderStatus == {"confirmed", "partially_refunded", "refunded", "failed"}

Units       == 1 .. MaxQty
TicketCells == Keys \X Units

\* Everything AuditLog.record can be called with, by action.
AuditEntries ==
    ({"inventory_held", "reservation_cancelled", "reservation_expired"}
        \X Reservations)
    \cup ({"inventory_sold", "idempotency_collision"} \X Keys)
    \cup ({"refund_issued"} \X (Keys \X SUBSET TicketCells))

\* Faulty variant: the constraint forgets the units on hold.
CheckConstraintsSoldOnly(s, h, c) == s >= 0 /\ h >= 0 /\ s <= c

\* The CheckConstraints of TicketType: PostgreSQL refuses the statement, and
\* the transaction is rolled back, when the new row breaks one.
CheckConstraints(s, h, c) ==
    /\ s >= 0
    /\ h >= 0
    /\ s <= c - h

\* TicketType.computed_available, and what create_reservation compares.
Available(t) == capacity[t] - sold[t] - held[t]

\* The units a set of reservations takes of ticket type t, one pair per unit:
\* Cardinality(UnitsOf(S, t)) is the SUM(quantity) over S.
UnitsOf(S, t) ==
    {x \in S \X Units : resType[x[1]] = t /\ x[2] <= resQty[x[1]]}

ActiveReservations == {r \in Reservations : resStatus[r] = "active"}

OrderType(k) == resType[ordRes[k]]
OrderQty(k)  == resQty[ordRes[k]]

\* The two counts of core/reconciliation.py.
SoldCells(t)  == {x \in activeTickets : OrderType(x[1]) = t}
ActualSold(t) == Cardinality(SoldCells(t))
ActualHeld(t) == Cardinality(UnitsOf(ActiveReservations, t))

TicketsOf(k)       == {x \in TicketCells : x[1] = k}
ActiveTicketsOf(k) == activeTickets \cap TicketsOf(k)

-----------------------------------------------------------------------------
Init ==
    /\ capacity \in [TicketTypes -> 0 .. MaxCapacity]
    /\ sold = [t \in TicketTypes |-> 0]
    /\ held = [t \in TicketTypes |-> 0]
    /\ onSale = [t \in TicketTypes |-> TRUE]
    /\ paused = [e \in Events |-> FALSE]
    /\ resStatus = [r \in Reservations |-> "none"]
    /\ resType = [r \in Reservations |-> NoRow]
    /\ resQty = [r \in Reservations |-> 0]
    /\ lapsed = {}
    /\ ordStatus = [k \in Keys |-> "none"]
    /\ ordRes = [k \in Keys |-> NoRow]
    /\ activeTickets = {}
    /\ refundedTickets = {}
    /\ refunds = [x \in TicketCells |-> 0]
    /\ audit = {}

\* What create_reservation writes, once it has read h in held: the new value
\* of held is computed in Python and saved.
WriteHold(r, t, q, h) ==
    /\ CheckConstraints(sold[t], h + q, capacity[t])
    /\ held' = [held EXCEPT ![t] = h + q]
    /\ resStatus' = [resStatus EXCEPT ![r] = "active"]
    /\ resType' = [resType EXCEPT ![r] = t]
    /\ resQty' = [resQty EXCEPT ![r] = q]
    /\ audit' = audit \cup {<<"inventory_held", r>>}
    /\ UNCHANGED <<capacity, sold, onSale, paused, lapsed, ordVars>>

\* Faulty variant: the kill switch is not looked at.
CreateReservationWhilePaused(r, t, q) ==
    /\ resStatus[r] = "none"
    /\ onSale[t]
    /\ Available(t) >= q
    /\ WriteHold(r, t, q, held[t])

\* create_reservation.
CreateReservation(r, t, q) ==
    /\ resStatus[r] = "none"
    /\ onSale[t]
    /\ ~ paused[EventOf[t]]
    /\ Available(t) >= q
    /\ WriteHold(r, t, q, held[t])

\* What cancel_reservation writes.
WriteCancel(r) ==
    LET t == resType[r] IN
    /\ CheckConstraints(sold[t], held[t] - resQty[r], capacity[t])
    /\ held' = [held EXCEPT ![t] = @ - resQty[r]]
    /\ resStatus' = [resStatus EXCEPT ![r] = "cancelled"]
    /\ lapsed' = lapsed \ {r}
    /\ audit' = audit \cup {<<"reservation_cancelled", r>>}
    /\ UNCHANGED <<capacity, sold, onSale, paused, resType, resQty, ordVars>>

\* Faulty variant: the status is not looked at.
CancelReservationAnyStatus(r) ==
    /\ resStatus[r] # "none"
    /\ WriteCancel(r)

\* cancel_reservation, called by the owner or by staff.  A reservation that
\* is no longer active is returned as it is.
CancelReservation(r) ==
    /\ resStatus[r] = "active"
    /\ WriteCancel(r)

\* Faulty variant: one unit is released per reservation, not its quantity.
WriteExpiryByRow(S) ==
    /\ held' = [t \in TicketTypes |->
                   held[t] - Cardinality({r \in S : resType[r] = t})]
    /\ resStatus' = [r \in Reservations |->
                        IF r \in S THEN "expired" ELSE resStatus[r]]
    /\ lapsed' = lapsed \ S
    /\ audit' = audit \cup ({"reservation_expired"} \X S)
    /\ UNCHANGED <<capacity, sold, onSale, paused, resType, resQty, ordVars>>

\* What sweep_expired_reservations writes, in one transaction, for the
\* reservations S it selected.
WriteExpiry(S) ==
    /\ \A t \in TicketTypes :
          CheckConstraints(sold[t], held[t] - Cardinality(UnitsOf(S, t)),
                           capacity[t])
    /\ held' = [t \in TicketTypes |-> held[t] - Cardinality(UnitsOf(S, t))]
    /\ resStatus' = [r \in Reservations |->
                        IF r \in S THEN "expired" ELSE resStatus[r]]
    /\ lapsed' = lapsed \ S
    /\ audit' = audit \cup ({"reservation_expired"} \X S)
    /\ UNCHANGED <<capacity, sold, onSale, paused, resType, resQty, ordVars>>

\* Faulty variant: the query forgets expires_at.
SweepExpiredAnyActive(S) ==
    /\ S # {}
    /\ S \subseteq ActiveReservations
    /\ WriteExpiry(S)

\* sweep_expired_reservations, over the stale reservations it could lock.
SweepExpired(S) ==
    /\ S # {}
    /\ S \subseteq lapsed
    /\ WriteExpiry(S)

\* Faulty variant: the reservation's status is not checked.
MayPurchaseAnyStatus(r, k) ==
    /\ ordStatus[k] = "none"
    /\ resStatus[r] # "none"
    /\ ~ paused[EventOf[resType[r]]]
    /\ r \notin lapsed

\* The checks of process_purchase before it creates the Order.  The expiry
\* branch assigns 'expired' and raises, so the assignment is rolled back.
MayPurchase(r, k) ==
    /\ ordStatus[k] = "none"
    /\ resStatus[r] = "active"
    /\ ~ paused[EventOf[resType[r]]]
    /\ r \notin lapsed

\* What process_purchase writes when the provider captured the payment.
WriteSale(r, k) ==
    LET t == resType[r]
        q == resQty[r]
    IN
    /\ CheckConstraints(sold[t] + q, held[t] - q, capacity[t])
    /\ held' = [held EXCEPT ![t] = @ - q]
    /\ sold' = [sold EXCEPT ![t] = @ + q]
    /\ activeTickets' = activeTickets \cup ({k} \X (1 .. q))
    /\ ordStatus' = [ordStatus EXCEPT ![k] = "confirmed"]
    /\ ordRes' = [ordRes EXCEPT ![k] = r]
    /\ resStatus' = [resStatus EXCEPT ![r] = "confirmed"]
    /\ lapsed' = lapsed \ {r}
    /\ audit' = audit \cup {<<"inventory_sold", k>>}
    /\ UNCHANGED <<capacity, onSale, paused, resType, resQty, refundedTickets,
                   refunds>>

PurchaseConfirmed(r, k) ==
    /\ MayPurchase(r, k)
    /\ WriteSale(r, k)

\* Faulty variant: the failed status is not saved.
WriteDeclineUnsaved(r, k) ==
    /\ ordStatus' = [ordStatus EXCEPT ![k] = "processing"]
    /\ ordRes' = [ordRes EXCEPT ![k] = r]
    /\ UNCHANGED <<typeVars, resVars, activeTickets, refundedTickets, refunds,
                   audit>>

\* What process_purchase writes when the provider declined: the failed Order
\* commits, the reservation stays active and nothing is audited.
WriteDecline(r, k) ==
    /\ ordStatus' = [ordStatus EXCEPT ![k] = "failed"]
    /\ ordRes' = [ordRes EXCEPT ![k] = r]
    /\ UNCHANGED <<typeVars, resVars, activeTickets, refundedTickets, refunds,
                   audit>>

PurchaseDeclined(r, k) ==
    /\ MayPurchase(r, k)
    /\ WriteDecline(r, k)

\* What process_purchase writes when it hands out an existing Order.
WriteCollision(k) ==
    /\ audit' = audit \cup {<<"idempotency_collision", k>>}
    /\ UNCHANGED <<typeVars, resVars, ordVars>>

PurchaseDuplicate(r, k) ==
    /\ resStatus[r] # "none"
    /\ ordStatus[k] # "none"
    /\ WriteCollision(k)

\* Faulty variant: tickets named in the list are not filtered by status.
RefundTargetsAnyStatus(k, ids) ==
    IF ids = {} THEN ActiveTicketsOf(k)
    ELSE (activeTickets \cup refundedTickets) \cap TicketsOf(k) \cap ids

\* The tickets issue_refund selects: an empty list of ticket ids counts as
\* no list.
RefundTargets(k, ids) ==
    IF ids = {} THEN ActiveTicketsOf(k) ELSE ActiveTicketsOf(k) \cap ids

\* The checks of issue_refund before it calls the provider.
MayRefund(k, ids) ==
    /\ ordStatus[k] \in {"confirmed", "partially_refunded"}
    /\ RefundTargets(k, ids) # {}

\* Faulty variant: the remaining tickets are counted before the update.
WriteRefundCountFirst(k, T) ==
    LET t == OrderType(k) IN
    /\ t \notin FreeTypes
    /\ CheckConstraints(sold[t] - Cardinality(T), held[t], capacity[t])
    /\ refunds' = [x \in TicketCells |-> IF x \in T THEN refunds[x] + 1
                                                 ELSE refunds[x]]
    /\ activeTickets' = activeTickets \ T
    /\ refundedTickets' = refundedTickets \cup T
    /\ sold' = [sold EXCEPT ![t] = @ - Cardinality(T)]
    /\ ordStatus' = [ordStatus EXCEPT
           ![k] = IF ActiveTicketsOf(k) = {}
                  THEN "refunded" ELSE "partially_refunded"]
    /\ audit' = audit \cup {<<"refund_issued", <<k, T>> >>}
    /\ UNCHANGED <<capacity, held, onSale, paused, resVars, ordRes>>

\* What issue_refund writes for the tickets T, once the provider refunded
\* them.  The Refund row needs a positive amount, so an order of a free
\* ticket type is refused by the database.
WriteRefund(k, T) ==
    LET t == OrderType(k) IN
    /\ t \notin FreeTypes
    /\ CheckConstraints(sold[t] - Cardinality(T), held[t], capacity[t])
    /\ refunds' = [x \in TicketCells |-> IF x \in T THEN refunds[x] + 1
                                                 ELSE refunds[x]]
    /\ activeTickets' = activeTickets \ T
    /\ refundedTickets' = refundedTickets \cup T
    /\ sold' = [sold EXCEPT ![t] = @ - Cardinality(T)]
    /\ ordStatus' = [ordStatus EXCEPT
           ![k] = IF ActiveTicketsOf(k) \ T = {}
                  THEN "refunded" ELSE "partially_refunded"]
    /\ audit' = audit \cup {<<"refund_issued", <<k, T>> >>}
    /\ UNCHANGED <<capacity, held, onSale, paused, resVars, ordRes>>

\* issue_refund, called by the order's user or by staff.
IssueRefund(k, ids) ==
    /\ MayRefund(k, ids)
    /\ WriteRefund(k, RefundTargets(k, ids))

\* EventAdmin.pause_sales and resume_sales.
PauseSales(e) ==
    /\ paused' = [paused EXCEPT ![e] = TRUE]
    /\ UNCHANGED <<capacity, sold, held, onSale, resVars, ordVars, audit>>

ResumeSales(e) ==
    /\ paused' = [paused EXCEPT ![e] = FALSE]
    /\ UNCHANGED <<capacity, sold, held, onSale, resVars, ordVars, audit>>

\* TicketTypeAdmin: the form edits total_capacity and status and saves the
\* whole row, sold and held as it loaded them.  Loaded and saved in one step
\* here: nothing commits in between.
AdminSaveTicketType(t, c, s) ==
    /\ CheckConstraints(sold[t], held[t], c)
    /\ capacity' = [capacity EXCEPT ![t] = c]
    /\ onSale' = [onSale EXCEPT ![t] = s]
    /\ UNCHANGED <<sold, held, paused, resVars, ordVars, audit>>

\* The clock passes expires_at.
Lapse(r) ==
    /\ resStatus[r] = "active"
    /\ lapsed' = lapsed \cup {r}
    /\ UNCHANGED <<typeVars, resStatus, resType, resQty, ordVars, audit>>

Next ==
    \/ \E r \in Reservations, t \in TicketTypes, q \in Units :
          CreateReservation(r, t, q)
    \/ \E r \in Reservations : CancelReservation(r)
    \/ \E S \in SUBSET Reservations : SweepExpired(S)
    \/ \E r \in Reservations, k \in Keys : PurchaseConfirmed(r, k)
    \/ \E r \in Reservations, k \in Keys : PurchaseDeclined(r, k)
    \/ \E r \in Reservations, k \in Keys : PurchaseDuplicate(r, k)
    \/ \E k \in Keys, ids \in SUBSET TicketCells : IssueRefund(k, ids)
    \/ \E e \in Events : PauseSales(e)
    \/ \E e \in Events : ResumeSales(e)
    \/ \E t \in TicketTypes, c \in 0 .. MaxCapacity, s \in BOOLEAN :
          AdminSaveTicketType(t, c, s)
    \/ \E r \in Reservations : Lapse(r)

Spec == Init /\ [][Next]_vars

-----------------------------------------------------------------------------
\* The types of the columns; an existing row refers to existing rows.
TypeOK ==
    /\ capacity \in [TicketTypes -> Nat]
    /\ sold \in [TicketTypes -> Nat]
    /\ held \in [TicketTypes -> Nat]
    /\ onSale \in [TicketTypes -> BOOLEAN]
    /\ paused \in [Events -> BOOLEAN]
    /\ resStatus \in [Reservations -> ReservationStatus \cup {"none"}]
    /\ resType \in [Reservations -> TicketTypes \cup {NoRow}]
    /\ resQty \in [Reservations -> 0 .. MaxQty]
    /\ lapsed \subseteq ActiveReservations
    /\ ordStatus \in [Keys -> OrderStatus \cup {"none"}]
    /\ ordRes \in [Keys -> Reservations \cup {NoRow}]
    /\ activeTickets \subseteq TicketCells
    /\ refundedTickets \subseteq TicketCells
    /\ refunds \in [TicketCells -> Nat]
    /\ audit \subseteq AuditEntries
    /\ \A r \in Reservations : resStatus[r] # "none" =>
          resType[r] \in TicketTypes /\ resQty[r] \in Units
    /\ \A k \in Keys : ordStatus[k] # "none" =>
          ordRes[k] \in Reservations /\ resStatus[ordRes[k]] # "none"

\* Zero drift: the counters every availability check trusts are what the
\* Ticket and Reservation rows say, which is what run_reconciliation compares.
CountersMatchRows ==
    \A t \in TicketTypes :
        /\ sold[t] = ActualSold(t)
        /\ held[t] = ActualHeld(t)

\* Zero oversell, over the rows and not the counters: the tickets that are
\* out and the units on hold never exceed the capacity, whatever the admin
\* makes of the capacity.
NoOversell ==
    \A t \in TicketTypes : ActualSold(t) + ActualHeld(t) <= capacity[t]

\* No charge is stranded by a CHECK constraint: whenever a reservation is
\* still active its units can be moved from held to sold, so the UPDATE that
\* follows a capture in process_purchase cannot be refused.
CaptureCanSettle ==
    \A r \in ActiveReservations :
        LET t == resType[r] IN
        CheckConstraints(sold[t] + resQty[r], held[t] - resQty[r], capacity[t])

\* No refund is stranded by one either: whatever tickets a request names, the
\* tickets issue_refund selects can be taken out of sold, so the UPDATE that
\* follows provider.refund cannot be refused.
RefundCanSettle ==
    \A k \in Keys, ids \in SUBSET TicketCells :
        LET t == OrderType(k)
            n == Cardinality(RefundTargets(k, ids))
        IN  MayRefund(k, ids) => CheckConstraints(sold[t] - n, held[t], capacity[t])

\* An order's status says what became of its tickets, through any sequence of
\* partial refunds.
OrderMatchesTickets ==
    \A k \in Keys :
        LET all  == {k} \X (1 .. OrderQty(k))
            out  == ActiveTicketsOf(k)
            back == refundedTickets \cap TicketsOf(k)
        IN  CASE ordStatus[k] = "confirmed" -> out = all /\ back = {}
              [] ordStatus[k] = "partially_refunded" ->
                    /\ out # {} /\ back # {}
                    /\ out \cup back = all /\ out \cap back = {}
              [] ordStatus[k] = "refunded" -> out = {} /\ back = all
              [] OTHER -> out = {} /\ back = {}

PaidOrdersOf(r) ==
    {k \in Keys : ordRes[k] = r /\ ordStatus[k] \notin {"none", "failed"}}

\* A reservation is sold once: it is confirmed exactly when one order was paid
\* for it, however many keys and duplicate requests were tried on it.
SoldOnce ==
    \A r \in Reservations :
        Cardinality(PaidOrdersOf(r)) = IF resStatus[r] = "confirmed" THEN 1 ELSE 0

Logged(action, id) == <<action, id>> \in audit

\* The audit trail replays: an id is on hold exactly when the log holds it and
\* neither releases nor sells it, and the log never releases or sells the
\* same hold twice.
AuditReplays ==
    \A r \in Reservations :
        LET sales == {k \in Keys : ordRes[k] = r /\ Logged("inventory_sold", k)}
            ended == ({"reservation_cancelled", "reservation_expired"} \X {r}
                         \cup {"inventory_sold"} \X sales) \cap audit
        IN  /\ resStatus[r] = "none" <=> ~ Logged("inventory_held", r)
            /\ resStatus[r] = "active" <=>
                  Logged("inventory_held", r) /\ ended = {}
            /\ Cardinality(ended) <= 1

\* No ticket is paid back twice: a ticket is in one Refund row when it is
\* refunded and in none while it is not, whatever lists of ticket ids the
\* refund requests of its order name.
RefundedOnce ==
    \A x \in TicketCells : refunds[x] = IF x \in refundedTickets THEN 1 ELSE 0

\* What a step may do to rows that ended and to holds that end.
EndsForward ==
    /\ \A r \in Reservations :
          /\ resStatus[r] \in {"confirmed", "expired", "cancelled"}
                => resStatus'[r] = resStatus[r]
          /\ resStatus[r] = "active" /\ resStatus'[r] = "expired"
                => r \in lapsed
          /\ resStatus[r] = "active" /\ resStatus'[r] = "confirmed"
                => r \notin lapsed /\ ~ paused[EventOf[resType[r]]]
    /\ \A k \in Keys :
          ordStatus[k] \in {"refunded", "failed"} => ordStatus'[k] = ordStatus[k]
    /\ refundedTickets \subseteq refundedTickets'
    /\ activeTickets' \cap refundedTickets = {}

\* What ended stays ended: no step brings a released, sold or refunded row
\* back, and a hold is released only by its own cancellation, by the sweep
\* once it lapsed, or by its sale.
NoResurrection == [][EndsForward]_vars
=============================================================================
