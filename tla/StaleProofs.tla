---------------------------- MODULE StaleProofs ----------------------------
(***************************************************************************)
(* Proofs about StaleWrites: what the unlocked writes can do, and what they*)
(* cannot, for any number of rows and any sequence of overtaken saves.     *)
(*                                                                         *)
(* Inventory's inductive invariant is lost here, but its parts are about   *)
(* one ticket type, reservation, order or ticket each, and are preserved   *)
(* row by row: InventoryProofs states them so.  What remains is to show    *)
(* that a stale save damages no row beyond those it puts into adrift and   *)
(* reopened.  For that the invariant says what of a loaded page cannot     *)
(* become stale (PageTells): a row that existed still does, and an order   *)
(* that failed, or did not, stays that way.  The audit needs the facts a   *)
(* run has gathered so far, true as long as it was not disturbed           *)
(* (QuietAuditSoFar).                                                      *)
(***************************************************************************)
EXTENDS StaleWrites, InventoryProofs

\* What is still true of the row of a page, whenever it was loaded.
PageTells ==
    /\ page.kind = "ticket_type" =>
          page.row \in TicketTypes /\ page.sold \in Nat /\ page.held \in Nat
    /\ page.kind = "event" => page.row \in Events /\ page.paused \in BOOLEAN
    /\ page.kind = "reservation" =>
          /\ page.row \in Reservations /\ page.status \in ReservationStatus
          /\ resStatus[page.row] # "none"
    /\ page.kind = "order" =>
          /\ page.row \in Keys /\ page.status \in OrderStatus
          /\ ordStatus[page.row] # "none"
          /\ page.status = "failed" <=> ordStatus[page.row] = "failed"
    /\ page.kind = "ticket" =>
          page.row \in activeTickets \cup refundedTickets /\ page.out \in BOOLEAN

\* The phases in which recon is the record of a run.
RunPhases == {"next", "sold", "held", "done"}

\* The record of a run has the fields AuditStarts gives it, with these types.
ReconTyped ==
    /\ recon.phase \in RunPhases =>
          /\ recon = [phase |-> recon.phase, quiet |-> recon.quiet,
                      fix |-> recon.fix, scope |-> recon.scope,
                      todo |-> recon.todo, row |-> recon.row,
                      limit |-> recon.limit, type |-> recon.type,
                      sold |-> recon.sold, held |-> recon.held,
                      drifted |-> recon.drifted, oversold |-> recon.oversold]
          /\ recon.fix \in BOOLEAN
          /\ recon.scope \subseteq TicketTypes /\ recon.todo \subseteq recon.scope
          /\ recon.sold \in Nat /\ recon.held \in Nat
    /\ recon.phase \in {"sold", "held"} =>
          recon.type \in recon.scope \ recon.todo
    /\ recon.phase = "done" => recon.todo = {}

\* The ticket types a run has not reported yet.
Pending ==
    recon.todo \cup (IF recon.phase \in {"sold", "held"} THEN {recon.type} ELSE {})

\* The counts a run has taken are those of the rows.
CountedRightly ==
    /\ recon.phase \in {"sold", "held"} => recon.sold = ActualSold(recon.type)
    /\ recon.phase = "held" => recon.held = ActualHeld(recon.type)

\* What a run has read and reported of ticket type t is so.
AuditedRightly(t) ==
    /\ recon.limit[t] = capacity[t]
    /\ t \in Pending =>
          /\ recon.row[t].sold = sold[t] /\ recon.row[t].held = held[t]
          /\ t \notin recon.oversold /\ t \notin recon.drifted
    /\ t \notin Pending =>
          /\ t \in recon.oversold <=> ActualSold(t) + ActualHeld(t) > capacity[t]
          /\ ~ Agrees(t) <=> t \in recon.drifted /\ ~ recon.fix

\* Both are true of a run nothing has disturbed.
QuietAuditSoFar ==
    recon.phase \in RunPhases /\ recon.quiet =>
        CountedRightly /\ \A t \in recon.scope : AuditedRightly(t)

\* A pause no save has overwritten is in force.
PausesStand == \A e \in pausedBy \ unpaused : paused[e]

\* The status of order k says whether its tickets came back.
RefundTells(k) ==
    ordStatus[k] = "refunded" <=>
        ActiveTicketsOf(k) = {} /\ refundedTickets \cap TicketsOf(k) # {}

StaleInv ==
    /\ StaleTypeOK
    /\ TicketsBelong
    /\ PageTells
    /\ ReconTyped
    /\ QuietAuditSoFar
    /\ PausesStand
    /\ DriftExplained
    /\ DamageContained

-----------------------------------------------------------------------------
(* The locked transactions are Inventory's, and the rows they leave behind *)
(* do not make a loaded page say less.                                     *)

\* The transactions that run next to the unlocked writers are Inventory's.
LEMMA TransactionIsStep ==
  ASSUME TypeOK, Transaction \/ \E e \in Events : Pause(e) \/ Resume(e)
  PROVE  Next
  <1>1. ASSUME NEW k \in Keys
        PROVE  SUBSET ActiveTicketsOf(k) \subseteq SUBSET TicketCells
    BY DEF TypeOK, ActiveTicketsOf
  <1>2. ASSUME NEW k \in Keys, NEW ids \in SUBSET ActiveTicketsOf(k),
               IssueRefund(k, ids)
        PROVE  Next
    <2>1. ids \in SUBSET TicketCells
      BY <1>1
    <2> QED
      BY <1>2, <2>1 DEF Next
  <1> QED
    BY <1>2 DEF Transaction, Pause, Resume, Next

\* A step of Inventory removes no row, revives no failed order and fails no
\* paid one.
LEMMA StepKeepsRows ==
  ASSUME TypeOK, [Next]_vars
  PROVE  /\ \A r \in Reservations : resStatus[r] # "none" => resStatus'[r] # "none"
         /\ \A k \in Keys : ordStatus[k] # "none" =>
               /\ ordStatus'[k] # "none"
               /\ ordStatus'[k] = "failed" <=> ordStatus[k] = "failed"
         /\ activeTickets \cup refundedTickets
               \subseteq activeTickets' \cup refundedTickets'
  <1> DEFINE Goal ==
         /\ \A r \in Reservations : resStatus[r] # "none" => resStatus'[r] # "none"
         /\ \A k \in Keys : ordStatus[k] # "none" =>
               /\ ordStatus'[k] # "none"
               /\ ordStatus'[k] = "failed" <=> ordStatus[k] = "failed"
         /\ activeTickets \cup refundedTickets
               \subseteq activeTickets' \cup refundedTickets'
  <1>1. ASSUME NEW r \in Reservations, NEW t \in TicketTypes, NEW q \in Units,
               CreateReservation(r, t, q)
        PROVE  Goal
    BY <1>1 DEF CreateReservation, WriteHold, ordVars, TypeOK
  <1>2. ASSUME NEW r \in Reservations, CancelReservation(r)
        PROVE  Goal
    BY <1>2 DEF CancelReservation, WriteCancel, ordVars, TypeOK
  <1>3. ASSUME NEW S \in SUBSET Reservations, SweepExpired(S)
        PROVE  Goal
    BY <1>3 DEF SweepExpired, WriteExpiry, ordVars, TypeOK
  <1>4. ASSUME NEW r \in Reservations, NEW k \in Keys,
               PurchaseConfirmed(r, k) \/ PurchaseDeclined(r, k)
        PROVE  Goal
    BY <1>4 DEF PurchaseConfirmed, MayPurchase, WriteSale, PurchaseDeclined,
       WriteDecline, resVars, TypeOK
  <1>5. ASSUME NEW k \in Keys, NEW ids \in SUBSET TicketCells, IssueRefund(k, ids)
        PROVE  Goal
    BY <1>5 DEF IssueRefund, MayRefund, WriteRefund, resVars, TypeOK
  <1>6. ASSUME UNCHANGED <<resStatus, ordVars>>
        PROVE  Goal
    BY <1>6 DEF ordVars
  <1> QED
    BY <1>1, <1>2, <1>3, <1>4, <1>5, <1>6
       DEF Next, PurchaseDuplicate, WriteCollision, PauseSales, ResumeSales,
           AdminSaveTicketType, Lapse, vars, resVars

\* The status of an order says what came back, through any step of Inventory:
\* a sale issues at least one ticket to a key that had none, and a refund
\* computes the status from what is left.
LEMMA StepKeepsRefundTells ==
  ASSUME TypeOK, TicketsBelong, [Next]_vars, NEW k \in Keys, RefundTells(k)
  PROVE  RefundTells(k)'
  <1>1. ASSUME ActiveTicketsOf(k)' = ActiveTicketsOf(k),
               refundedTickets' \cap TicketsOf(k) = refundedTickets \cap TicketsOf(k),
               ordStatus'[k] = ordStatus[k]
        PROVE  RefundTells(k)'
    <2>1. TicketsOf(k)' = TicketsOf(k)
      BY DEF TicketsOf, TicketCells
    <2> QED
      BY <1>1, <2>1 DEF RefundTells
  <1>2. ASSUME NEW r \in Reservations, NEW j \in Keys, PurchaseConfirmed(r, j)
        PROVE  RefundTells(k)'
    <2>1. /\ ordStatus[j] = "none"
          /\ ordStatus' = [ordStatus EXCEPT ![j] = "confirmed"]
          /\ activeTickets' = activeTickets \cup ({j} \X (1 .. resQty[r]))
          /\ refundedTickets' = refundedTickets
          /\ resQty[r] \in 1 .. MaxQty
      BY <1>2 DEF PurchaseConfirmed, MayPurchase, WriteSale, TypeOK, Units
    <2>2. CASE j = k
      <3>1. <<k, 1>> \in activeTickets' /\ <<k, 1>> \in TicketsOf(k)
        BY <2>1, <2>2, ConstantsAssumption DEF TicketsOf, TicketCells, Units
      <3>2. ActiveTicketsOf(k)' # {}
        BY <3>1 DEF ActiveTicketsOf, TicketsOf, TicketCells
      <3> QED
        BY <2>1, <2>2, <3>2 DEF RefundTells, TypeOK
    <2>3. CASE j # k
      <3>1. ActiveTicketsOf(k)' = ActiveTicketsOf(k)
        BY <2>1, <2>3 DEF ActiveTicketsOf, TicketsOf
      <3> QED
        BY <1>1, <2>1, <2>3, <3>1 DEF TypeOK
    <2> QED
      BY <2>2, <2>3
  <1>3. ASSUME NEW r \in Reservations, NEW j \in Keys, PurchaseDeclined(r, j)
        PROVE  RefundTells(k)'
    <2>1. /\ ordStatus[j] = "none"
          /\ ordStatus' = [ordStatus EXCEPT ![j] = "failed"]
          /\ UNCHANGED <<activeTickets, refundedTickets>>
      BY <1>3 DEF PurchaseDeclined, MayPurchase, WriteDecline
    <2>2. CASE j = k
      <3>1. refundedTickets \cap TicketsOf(k) = {}
        BY <2>1, <2>2 DEF TicketsBelong, TicketsOf
      <3> QED
        BY <2>1, <2>2, <3>1 DEF RefundTells, TicketsOf, TypeOK
    <2>3. CASE j # k
      BY <1>1, <2>1, <2>3 DEF ActiveTicketsOf, TypeOK
    <2> QED
      BY <2>2, <2>3
  <1>4. ASSUME NEW j \in Keys, NEW ids \in SUBSET TicketCells, IssueRefund(j, ids)
        PROVE  RefundTells(k)'
    <2> DEFINE T == RefundTargets(j, ids)
    <2>1. /\ T \subseteq ActiveTicketsOf(j)
          /\ T # {} /\ WriteRefund(j, T)
      BY <1>4 DEF IssueRefund, MayRefund, RefundTargets
    <2> HIDE DEF T
    <2>2. /\ activeTickets' = activeTickets \ T
          /\ refundedTickets' = refundedTickets \cup T
          /\ ordStatus' = [ordStatus EXCEPT
                 ![j] = IF ActiveTicketsOf(j) \ T = {}
                        THEN "refunded" ELSE "partially_refunded"]
      BY <2>1 DEF WriteRefund
    <2>3. CASE j = k
      <3>1. ActiveTicketsOf(k)' = ActiveTicketsOf(k) \ T
        BY <2>2 DEF ActiveTicketsOf, TicketsOf
      <3>2. (refundedTickets \cap TicketsOf(k))' # {}
        BY <2>1, <2>2, <2>3 DEF ActiveTicketsOf, TicketsOf
      <3> QED
        BY <2>2, <2>3, <3>1, <3>2 DEF RefundTells, TypeOK
    <2>4. CASE j # k
      <3>1. T \cap TicketsOf(k) = {}
        BY <2>1, <2>4 DEF ActiveTicketsOf, TicketsOf
      <3>2. ActiveTicketsOf(k)' = ActiveTicketsOf(k)
        BY <2>2, <3>1 DEF ActiveTicketsOf, TicketsOf
      <3> QED
        BY <1>1, <2>2, <2>4, <3>1, <3>2 DEF TypeOK
    <2> QED
      BY <2>3, <2>4
  <1>5. ASSUME UNCHANGED ordVars
        PROVE  RefundTells(k)'
    BY <1>1, <1>5 DEF ordVars, ActiveTicketsOf, TicketsOf
  <1> QED
    BY <1>2, <1>3, <1>4, <1>5
       DEF Next, CreateReservation, WriteHold, CancelReservation, WriteCancel,
           SweepExpired, WriteExpiry, PurchaseDuplicate, WriteCollision,
           PauseSales, ResumeSales, AdminSaveTicketType, Lapse, vars

-----------------------------------------------------------------------------
(* The record of a run of run_reconciliation.                              *)

Phases == RunPhases \cup {"idle"}

\* Any other commit ends a run that only reports, and leaves one that writes
\* as it was, no longer undisturbed.
LEMMA DisturbedRun ==
  ASSUME recon.phase \in Phases, ReconTyped, Disturb
  PROVE  /\ recon'.phase \in Phases /\ recon'.quiet \in BOOLEAN
         /\ ReconTyped'
         /\ recon'.phase \in RunPhases => ~ recon'.quiet
  <1>1. CASE recon.phase \in {"next", "sold", "held"} /\ recon.fix
    <2>1. recon' = [phase |-> recon.phase, quiet |-> FALSE,
                    fix |-> recon.fix, scope |-> recon.scope,
                    todo |-> recon.todo, row |-> recon.row,
                    limit |-> recon.limit, type |-> recon.type,
                    sold |-> recon.sold, held |-> recon.held,
                    drifted |-> recon.drifted, oversold |-> recon.oversold]
      BY <1>1 DEF Disturb, ReconTyped, RunPhases
    <2> QED
      BY <1>1, <2>1 DEF ReconTyped, Phases, RunPhases
  <1>2. CASE ~ (recon.phase \in {"next", "sold", "held"} /\ recon.fix)
    <2>1. recon' = NoAudit
      BY <1>2 DEF Disturb
    <2> QED
      BY <2>1 DEF NoAudit, ReconTyped, Phases, RunPhases
  <1> QED
    BY <1>1, <1>2

\* Both counts are numbers.
LEMMA CountsType ==
  ASSUME TypeOK, NEW t
  PROVE  ActualSold(t) \in Nat /\ ActualHeld(t) \in Nat
  <1>1. ActiveReservations \in SUBSET Reservations
    BY DEF ActiveReservations
  <1> QED
    BY <1>1, SoldFinite, UnitsFinite DEF ActualSold, ActualHeld

\* The scope of a run is some of the ticket types.
LEMMA ScopesType == \A scope \in Scopes : scope \subseteq TicketTypes
  BY DEF Scopes

\* What a run reads and reports, field by field: the tickets of a type are
\* counted, then its units on hold ...
LEMMA CountSoldFields ==
  ASSUME ReconTyped, NEW t \in TicketTypes, CountSold(t)
  PROVE  recon' = [phase |-> "sold", quiet |-> recon.quiet,
                   fix |-> recon.fix, scope |-> recon.scope,
                   todo |-> recon.todo \ {t}, row |-> recon.row,
                   limit |-> recon.limit, type |-> t,
                   sold |-> ActualSold(t), held |-> recon.held,
                   drifted |-> recon.drifted, oversold |-> recon.oversold]
  BY DEF CountSold, ReconTyped, RunPhases

\* The second count of the command fills in one field of what it remembers.
LEMMA CountHeldFields ==
  ASSUME ReconTyped, CountHeld
  PROVE  recon' = [phase |-> "held", quiet |-> recon.quiet,
                   fix |-> recon.fix, scope |-> recon.scope,
                   todo |-> recon.todo, row |-> recon.row,
                   limit |-> recon.limit, type |-> recon.type,
                   sold |-> recon.sold, held |-> ActualHeld(recon.type),
                   drifted |-> recon.drifted, oversold |-> recon.oversold]
  BY DEF CountHeld, ReconTyped, RunPhases

\* ... and then the ticket type is reported.
LEMMA ReportedFields ==
  ASSUME ReconTyped, recon.phase = "held"
  PROVE  Reported = [phase |-> IF recon.todo = {} THEN "done" ELSE "next",
                     quiet |-> recon.quiet,
                     fix |-> recon.fix, scope |-> recon.scope,
                     todo |-> recon.todo, row |-> recon.row,
                     limit |-> recon.limit, type |-> NoRow,
                     sold |-> 0, held |-> 0,
                     drifted |-> IF FoundDrift THEN recon.drifted \cup {recon.type}
                                 ELSE recon.drifted,
                     oversold |-> IF FoundOversell
                                  THEN recon.oversold \cup {recon.type}
                                  ELSE recon.oversold]
  <1> DEFINE p == IF recon.todo = {} THEN "done" ELSE "next"
             o == IF FoundOversell THEN recon.oversold \cup {recon.type}
                                   ELSE recon.oversold
             d == IF FoundDrift THEN recon.drifted \cup {recon.type}
                                ELSE recon.drifted
  <1>1. Reported = [recon EXCEPT !.phase = p, !.oversold = o, !.drifted = d,
                                 !.type = NoRow, !.sold = 0, !.held = 0]
    BY Zenon DEF Reported
  <1> HIDE DEF p, o, d
  <1>2. Reported = [phase |-> p, quiet |-> recon.quiet,
                    fix |-> recon.fix, scope |-> recon.scope,
                    todo |-> recon.todo, row |-> recon.row,
                    limit |-> recon.limit, type |-> NoRow,
                    sold |-> 0, held |-> 0, drifted |-> d, oversold |-> o]
    BY <1>1 DEF ReconTyped, RunPhases
  <1> QED
    BY <1>2, Zenon DEF p, o, d

\* Every step of a run keeps its record in its types.
LEMMA AuditKeepsTyped ==
  ASSUME TypeOK, recon.phase \in Phases, recon.quiet \in BOOLEAN, ReconTyped,
         \/ \E scope \in Scopes, fix \in BOOLEAN : AuditStarts(scope, fix)
         \/ \E t \in TicketTypes : CountSold(t)
         \/ CountHeld \/ Report \/ Fix \/ AuditDies
  PROVE  recon'.phase \in Phases /\ recon'.quiet \in BOOLEAN /\ ReconTyped'
  <1> DEFINE Goal == /\ recon'.phase \in Phases /\ recon'.quiet \in BOOLEAN
                     /\ ReconTyped'
  <1>1. ASSUME NEW scope \in Scopes, NEW fix \in BOOLEAN, AuditStarts(scope, fix)
        PROVE  Goal
    <2>1. scope \subseteq TicketTypes
      BY ScopesType
    <2>2. recon' = [phase |-> "next", quiet |-> TRUE, fix |-> fix, scope |-> scope,
                 todo |-> scope, row |-> [t \in scope |-> TicketTypeRow(t)],
                 limit |-> [t \in scope |-> capacity[t]],
                 type |-> NoRow, sold |-> 0, held |-> 0,
                 drifted |-> {}, oversold |-> {}]
      BY <1>1 DEF AuditStarts
    <2> QED
      BY <2>1, <2>2 DEF ReconTyped, Phases, RunPhases
  <1>2. ASSUME NEW t \in TicketTypes, CountSold(t)
        PROVE  Goal
    <2>1. ActualSold(t) \in Nat
      BY CountsType
    <2> QED
      BY <1>2, <2>1, CountSoldFields DEF CountSold, ReconTyped, Phases, RunPhases
  <1>3. CASE CountHeld
    <2>1. ActualHeld(recon.type) \in Nat
      BY CountsType
    <2> QED
      BY <1>3, <2>1, CountHeldFields DEF CountHeld, ReconTyped, Phases, RunPhases
  <1>4. CASE Report \/ Fix
    <2>1. recon.phase = "held" /\ recon' = Reported
      BY <1>4 DEF Report, Fix
    <2> QED
      BY <2>1, ReportedFields DEF ReconTyped, Phases, RunPhases
  <1>5. CASE AuditDies
    BY <1>5 DEF AuditDies, NoAudit, ReconTyped, Phases, RunPhases
  <1> QED
    BY <1>1, <1>2, <1>3, <1>4, <1>5

-----------------------------------------------------------------------------
(* The types.                                                              *)

\* A page can be one of these; what a loaded row tells is typed.
LEMMA LoadTells ==
  ASSUME TypeOK, NEW p, Load(p)
  PROVE  /\ PageTells'
         /\ page'.kind \in {"ticket_type", "event", "reservation", "order",
                            "ticket"}
  <1>1. p \in Rows /\ page' = p /\ UNCHANGED vars
    BY DEF Load
  <1> USE <1>1 DEF vars, typeVars, resVars, ordVars, TypeOK
  <1>2. CASE \E t \in TicketTypes : p = TicketTypeRow(t)
    BY <1>2 DEF TicketTypeRow, PageTells
  <1>3. CASE \E e \in Events : p = EventRow(e)
    BY <1>3 DEF EventRow, PageTells
  <1>4. CASE \E r \in Reservations : resStatus[r] # "none" /\ p = ReservationRow(r)
    BY <1>4 DEF ReservationRow, PageTells
  <1>5. CASE \E k \in Keys : ordStatus[k] # "none" /\ p = OrderRow(k)
    BY <1>5 DEF OrderRow, PageTells
  <1>6. CASE \E x \in activeTickets \cup refundedTickets : p = TicketRow(x)
    BY <1>6 DEF TicketRow, PageTells
  <1> QED
    BY <1>2, <1>3, <1>4, <1>5, <1>6 DEF Rows

\* A stale save writes values of the column's type, to a row that exists.
LEMMA SaveKeepsType ==
  ASSUME TypeOK, PageTells,
         \/ \E c \in 0 .. MaxCapacity : SaveTicketType(c)
         \/ SaveEvent
         \/ \E past \in BOOLEAN : SaveReservation(past)
         \/ SaveOrder \/ SaveTicket
  PROVE  TypeOK'
  <1> USE ConstantsAssumption DEF TypeOK
  <1>1. ASSUME NEW c \in 0 .. MaxCapacity, SaveTicketType(c)
        PROVE  TypeOK'
    <2>1. /\ page.row \in TicketTypes /\ page.sold \in Nat /\ page.held \in Nat
          /\ c \in Nat
      BY <1>1 DEF SaveTicketType, PageTells
    <2> QED
      BY <1>1, <2>1 DEF SaveTicketType, resVars, ordVars, ActiveReservations
  <1>2. CASE SaveEvent
    BY <1>2 DEF SaveEvent, PageTells, resVars, ordVars, ActiveReservations
  <1>3. ASSUME NEW past \in BOOLEAN, SaveReservation(past)
        PROVE  TypeOK'
    <2> DEFINE r == page.row
    <2>1. /\ r \in Reservations /\ page.status \in ReservationStatus
          /\ resStatus[r] # "none"
          /\ resStatus' = [resStatus EXCEPT ![r] = page.status]
          /\ lapsed' = IF past /\ page.status = "active" THEN lapsed \cup {r}
                       ELSE lapsed \ {r}
          /\ UNCHANGED <<typeVars, resType, resQty, ordVars, audit>>
      BY <1>3 DEF SaveReservation, PageTells
    <2>2. page.status # "none"
      BY <2>1 DEF ReservationStatus
    <2> HIDE DEF r
    <2>3. lapsed' \subseteq ActiveReservations'
      BY <2>1 DEF ActiveReservations
    <2>4. /\ resStatus' \in [Reservations -> ReservationStatus \cup {"none"}]
          /\ \A s \in Reservations : resStatus'[s] # "none" <=> resStatus[s] # "none"
      BY <2>1, <2>2
    <2> QED
      BY <2>1, <2>3, <2>4 DEF typeVars, ordVars
  <1>4. CASE SaveOrder
    <2> DEFINE k == page.row
    <2>1. /\ k \in Keys /\ page.status \in OrderStatus
          /\ ordStatus[k] # "none"
          /\ ordStatus' = [ordStatus EXCEPT ![k] = page.status]
          /\ UNCHANGED <<typeVars, resVars, ordRes, activeTickets, refundedTickets,
                         refunds, audit>>
      BY <1>4 DEF SaveOrder, PageTells
    <2> HIDE DEF k
    <2> QED
      BY <2>1 DEF typeVars, resVars, ActiveReservations
  <1>5. CASE SaveTicket
    <2> DEFINE x == page.row
    <2>1. /\ x \in TicketCells
          /\ activeTickets' \subseteq activeTickets \cup {x}
          /\ refundedTickets' \subseteq refundedTickets \cup {x}
          /\ UNCHANGED <<typeVars, resVars, ordStatus, ordRes, refunds, audit>>
      BY <1>5 DEF SaveTicket, PageTells
    <2> HIDE DEF x
    <2> QED
      BY <2>1 DEF typeVars, resVars, ActiveReservations
  <1> QED
    BY <1>1, <1>2, <1>3, <1>4, <1>5

\* So does --fix.
LEMMA FixKeepsType ==
  ASSUME TypeOK, ReconTyped, Fix
  PROVE  TypeOK'
  <1> DEFINE t == recon.type
  <1>1. /\ recon.sold \in Nat /\ recon.held \in Nat
        /\ sold' = [sold EXCEPT ![t] = recon.sold]
        /\ held' = [held EXCEPT ![t] = recon.held]
        /\ UNCHANGED <<capacity, onSale, paused, resVars, ordVars, audit>>
    BY DEF Fix, ReconTyped, RunPhases
  <1> HIDE DEF t
  <1> QED
    BY <1>1 DEF TypeOK, resVars, ordVars, ActiveReservations

\* What Inventory's type invariant and this module's say together, step by
\* step.
LEMMA StaleTypeStep ==
  ASSUME StaleTypeOK, TicketsBelong, PageTells, ReconTyped, [StaleNext]_staleVars
  PROVE  StaleTypeOK' /\ ReconTyped'
  <1> DEFINE PageKinds == {"none", "ticket_type", "event", "reservation", "order",
                           "ticket"}
             Rest == /\ overtaken' \in 0 .. MaxOvertaken
                     /\ adrift' \subseteq TicketTypes
                     /\ reopened' \subseteq Reservations \cup Keys \cup TicketCells
                     /\ pausedBy' \subseteq Events
                     /\ unpaused' \subseteq Events
  <1>0. TypeOK /\ recon.phase \in Phases /\ recon.quiet \in BOOLEAN
    BY DEF StaleTypeOK, Phases, RunPhases
  <1>1. ASSUME TypeOK', page'.kind \in PageKinds, Rest, Disturb
        PROVE  StaleTypeOK' /\ ReconTyped'
    BY <1>0, <1>1, DisturbedRun DEF StaleTypeOK, Phases, RunPhases
  <1>2. ASSUME TypeOK', page' = page, Rest,
               recon'.phase \in Phases, recon'.quiet \in BOOLEAN, ReconTyped'
        PROVE  StaleTypeOK' /\ ReconTyped'
    BY <1>2 DEF StaleTypeOK, Phases, RunPhases
  <1>3. CASE Transaction \/ \E e \in Events : Pause(e) \/ Resume(e)
    <2>1. TypeOK'
      BY <1>0, <1>3, TransactionIsStep, TypeStep, NextIsLate
    <2>2. page' = page /\ Rest /\ Disturb
      BY <1>3 DEF Transaction, Pause, Resume, historyVars, StaleTypeOK
    <2> QED
      BY <1>1, <2>1, <2>2 DEF StaleTypeOK
  <1>4. CASE \/ \E p \in Rows : Load(p)
             \/ Leave
             \/ UNCHANGED staleVars
    <2>1. /\ UNCHANGED <<vars, recon, historyVars>>
          /\ page'.kind \in PageKinds
      BY <1>0, <1>4, LoadTells DEF Load, Leave, NoPage, staleVars, StaleTypeOK
    <2>2. TypeOK'
      BY <1>0, <2>1, TypeStep, NextIsLate
    <2>3. ReconTyped'
      BY <2>1 DEF ReconTyped
    <2> QED
      BY <2>1, <2>2, <2>3 DEF StaleTypeOK, historyVars
  <1>5. CASE \/ \E c \in 0 .. MaxCapacity : SaveTicketType(c)
             \/ SaveEvent
             \/ \E past \in BOOLEAN : SaveReservation(past)
             \/ SaveOrder \/ SaveTicket
    <2>1. TypeOK'
      BY <1>0, <1>5, SaveKeepsType
    <2>2. page' = NoPage /\ Disturb /\ overtaken' \in 0 .. MaxOvertaken
      BY <1>5, StaleAssumption DEF SaveTicketType, SaveEvent, SaveReservation,
         SaveOrder, SaveTicket, Saved, Overtaken, StaleTypeOK
    <2>3. Rest
      <3>1. CASE \E c \in 0 .. MaxCapacity : SaveTicketType(c)
        BY <2>2, <3>1 DEF SaveTicketType, PageTells, StaleTypeOK
      <3>2. CASE SaveEvent
        BY <2>2, <3>2 DEF SaveEvent, PageTells, StaleTypeOK
      <3>3. CASE \E past \in BOOLEAN : SaveReservation(past)
        <4>1. page.row \in Reservations /\ resType[page.row] \in TicketTypes
          BY <1>0, <3>3 DEF SaveReservation, PageTells, TypeOK
        <4> QED
          BY <2>2, <3>3, <4>1 DEF SaveReservation, StaleTypeOK
      <3>4. CASE SaveOrder
        BY <2>2, <3>4 DEF SaveOrder, PageTells, StaleTypeOK
      <3>5. CASE SaveTicket
        <4> DEFINE x == page.row
        <4>1. x \in TicketCells /\ x[1] \in Keys /\ ordStatus[x[1]] # "none"
          BY <1>0, <3>5 DEF SaveTicket, PageTells, TypeOK, TicketsBelong, TicketCells
        <4>2. OrderType(x[1]) \in TicketTypes
          BY <1>0, <4>1 DEF OrderType, TypeOK
        <4> QED
          BY <2>2, <3>5, <4>1, <4>2 DEF SaveTicket, StaleTypeOK
      <3> QED
        BY <1>5, <3>1, <3>2, <3>3, <3>4, <3>5
    <2> QED
      BY <1>1, <2>1, <2>2, <2>3 DEF NoPage
  <1>6. CASE \/ \E scope \in Scopes, fix \in BOOLEAN : AuditStarts(scope, fix)
             \/ \E t \in TicketTypes : CountSold(t)
             \/ CountHeld \/ Report \/ AuditDies
    <2>1. UNCHANGED <<vars, page, historyVars>>
      BY <1>6 DEF AuditStarts, CountSold, CountHeld, Report, AuditDies
    <2>2. TypeOK'
      BY <1>0, <2>1, TypeStep, NextIsLate
    <2> QED
      BY <1>0, <1>2, <1>6, <2>1, <2>2, AuditKeepsTyped DEF historyVars, StaleTypeOK
  <1>7. CASE Fix
    <2>1. TypeOK'
      BY <1>0, <1>7, FixKeepsType
    <2>2. page' = page /\ Rest
      BY <1>7, StaleAssumption DEF Fix, Overtaken, StaleTypeOK, ReconTyped, RunPhases
    <2> QED
      BY <1>0, <1>2, <1>7, <2>1, <2>2, AuditKeepsTyped
  <1> QED
    BY <1>3, <1>4, <1>5, <1>6, <1>7 DEF StaleNext

-----------------------------------------------------------------------------
(* What a stale save leaves alone.                                         *)

\* A saved reservation existed, and exists; the other reservations, and the
\* orders, tickets and ticket types, are not written.
LEMMA SavedReservation ==
  ASSUME TypeOK, PageTells, NEW past \in BOOLEAN, SaveReservation(past)
  PROVE  /\ page.row \in Reservations /\ resStatus[page.row] # "none"
         /\ resStatus'[page.row] # "none"
         /\ resType[page.row] \in TicketTypes
         /\ page = ReservationRow(page.row) => resStatus' = resStatus
         /\ \A r \in Reservations \ {page.row} : resStatus'[r] = resStatus[r]
         /\ UNCHANGED <<typeVars, resType, resQty, ordVars, audit>>
  <1>1. /\ page.row \in Reservations /\ page.status \in ReservationStatus
        /\ resStatus[page.row] # "none"
        /\ resStatus' = [resStatus EXCEPT ![page.row] = page.status]
    BY DEF SaveReservation, PageTells
  <1>2. resStatus'[page.row] = page.status /\ page.status # "none"
    BY <1>1 DEF TypeOK, ReservationStatus
  <1>3. page = ReservationRow(page.row) => page.status = resStatus[page.row]
    BY DEF ReservationRow
  <1> HIDE DEF ReservationRow
  <1>4. page = ReservationRow(page.row) => resStatus' = resStatus
    BY <1>1, <1>3 DEF TypeOK
  <1> QED
    BY <1>1, <1>2, <1>4 DEF SaveReservation, TypeOK

\* A saved order existed, and exists; whether it failed, no save changes.
LEMMA SavedOrder ==
  ASSUME TypeOK, PageTells, SaveOrder
  PROVE  /\ page.row \in Keys
         /\ page = OrderRow(page.row) => ordStatus' = ordStatus
         /\ \A k \in Keys :
               /\ k # page.row => ordStatus'[k] = ordStatus[k]
               /\ ordStatus'[k] = "none" <=> ordStatus[k] = "none"
               /\ ordStatus'[k] = "failed" <=> ordStatus[k] = "failed"
         /\ UNCHANGED <<typeVars, resVars, ordRes, activeTickets, refundedTickets,
                        refunds, audit>>
  <1>1. /\ page.row \in Keys /\ page.status \in OrderStatus
        /\ ordStatus[page.row] # "none"
        /\ page.status = "failed" <=> ordStatus[page.row] = "failed"
        /\ ordStatus' = [ordStatus EXCEPT ![page.row] = page.status]
    BY DEF SaveOrder, PageTells
  <1>2. page.status # "none"
    BY <1>1 DEF OrderStatus
  <1>3. page = OrderRow(page.row) => page.status = ordStatus[page.row]
    BY DEF OrderRow
  <1>4. page = OrderRow(page.row) => ordStatus' = ordStatus
    BY <1>1, <1>3 DEF TypeOK
  <1> QED
    BY <1>1, <1>2, <1>4 DEF SaveOrder, TypeOK

\* A saved ticket was out or had come back, and is out or has come back.
LEMMA SavedTicket ==
  ASSUME TypeOK, TicketsBelong, PageTells, SaveTicket
  PROVE  /\ page.row \in TicketCells /\ page.row[1] \in Keys
         /\ page.row \in activeTickets \cup refundedTickets
         /\ page = TicketRow(page.row) =>
               activeTickets' = activeTickets /\ refundedTickets' = refundedTickets
         /\ activeTickets' \ {page.row} = activeTickets \ {page.row}
         /\ refundedTickets' \ {page.row} = refundedTickets \ {page.row}
         /\ activeTickets' \cup refundedTickets' = activeTickets \cup refundedTickets
         /\ activeTickets' \cap refundedTickets' = {}
         /\ UNCHANGED <<typeVars, resVars, ordStatus, ordRes, refunds, audit>>
  <1> DEFINE x == page.row
  <1>1. /\ x \in activeTickets \cup refundedTickets
        /\ page.out \in BOOLEAN
        /\ activeTickets' = IF page.out THEN activeTickets \cup {x}
                            ELSE activeTickets \ {x}
        /\ refundedTickets' = IF page.out THEN refundedTickets \ {x}
                              ELSE refundedTickets \cup {x}
        /\ UNCHANGED <<typeVars, resVars, ordStatus, ordRes, refunds, audit>>
    BY DEF SaveTicket, PageTells
  <1>2. page = TicketRow(x) => (page.out <=> x \in activeTickets)
    <2>1. TicketRow(x).out = (x \in activeTickets)
      BY DEF TicketRow
    <2> QED
      BY <2>1, Zenon
  <1>3. x \in TicketCells /\ x[1] \in Keys
    BY <1>1 DEF TypeOK, TicketCells
  <1>4. activeTickets \cap refundedTickets = {}
    BY DEF TicketsBelong
  <1> HIDE DEF x
  <1>5. page = TicketRow(x) =>
           activeTickets' = activeTickets /\ refundedTickets' = refundedTickets
    BY <1>1, <1>2, <1>4
  <1>6. /\ activeTickets' \ {x} = activeTickets \ {x}
        /\ refundedTickets' \ {x} = refundedTickets \ {x}
        /\ activeTickets' \cup refundedTickets' = activeTickets \cup refundedTickets
        /\ activeTickets' \cap refundedTickets' = {}
    BY <1>1, <1>4
  <1> QED
    BY <1>1, <1>3, <1>5, <1>6, Zenon DEF x

\* The steps that are Inventory's, the saves, --fix, and the steps that change
\* no row: every step is one of them.
LockedStep == Transaction \/ \E e \in Events : Pause(e) \/ Resume(e)

RowsUntouched ==
    /\ UNCHANGED vars
    /\ UNCHANGED historyVars

\* A step is a transaction under locks, one of the saves, a fix, or writes no row.
LEMMA StepKinds ==
  ASSUME [StaleNext]_staleVars
  PROVE  \/ LockedStep
         \/ \E c \in 0 .. MaxCapacity : SaveTicketType(c)
         \/ SaveEvent
         \/ \E past \in BOOLEAN : SaveReservation(past)
         \/ SaveOrder
         \/ SaveTicket
         \/ Fix
         \/ RowsUntouched
  BY DEF StaleNext, LockedStep, RowsUntouched, Load, Leave, AuditStarts, CountSold,
     CountHeld, Report, AuditDies, staleVars

\* Tickets go on belonging to orders that were paid, and a page goes on
\* telling what it told.
LEMMA StaleKeepsBelonging ==
  ASSUME StaleTypeOK, TicketsBelong, PageTells, ReconTyped, [StaleNext]_staleVars
  PROVE  TicketsBelong'
  <1>0. TypeOK
    BY DEF StaleTypeOK
  <1>1. CASE LockedStep
    BY <1>0, <1>1, TransactionIsStep, StepKeepsBelonging, NextIsLate DEF LockedStep
  <1>2. CASE \/ \E c \in 0 .. MaxCapacity : SaveTicketType(c)
             \/ SaveEvent \/ Fix \/ RowsUntouched
             \/ \E past \in BOOLEAN : SaveReservation(past)
    <2>1. UNCHANGED ordVars
      BY <1>2 DEF SaveTicketType, SaveEvent, SaveReservation, Fix, RowsUntouched,
         vars
    <2> QED
      BY <2>1 DEF TicketsBelong, ordVars
  <1>3. CASE SaveOrder
    <2>1. \A k \in Keys :
             ordStatus[k] \in {"confirmed", "partially_refunded", "refunded"}
                => ordStatus'[k] \in {"confirmed", "partially_refunded", "refunded"}
      <3>1. \A k \in Keys : ordStatus'[k] \in OrderStatus \cup {"none"}
        <4>1. TypeOK'
          BY <1>0, <1>3, SaveKeepsType
        <4> QED
          BY <4>1 DEF TypeOK
      <3> QED
        BY <1>0, <1>3, <3>1, SavedOrder DEF OrderStatus
    <2> QED
      BY <1>0, <1>3, <2>1, SavedOrder DEF TicketsBelong, TypeOK, TicketCells
  <1>4. CASE SaveTicket
    BY <1>0, <1>4, SavedTicket DEF TicketsBelong
  <1> QED
    BY <1>1, <1>2, <1>3, <1>4, StepKinds

\* What a page was loaded with stays sound enough to be saved, however late.
LEMMA StaleKeepsPage ==
  ASSUME StaleTypeOK, PageTells, [StaleNext]_staleVars
  PROVE  PageTells'
  <1>0. TypeOK
    BY DEF StaleTypeOK
  <1>1. CASE page' = NoPage
    BY <1>1 DEF NoPage, PageTells
  <1>2. CASE \E p \in Rows : Load(p)
    BY <1>0, <1>2, LoadTells
  <1>3. CASE LockedStep
    <2>1. page' = page
      BY <1>3 DEF LockedStep, Transaction, Pause, Resume
    <2>2. Next
      BY <1>0, <1>3, TransactionIsStep DEF LockedStep
    <2>3. /\ \A r \in Reservations : resStatus[r] # "none" => resStatus'[r] # "none"
          /\ \A k \in Keys : ordStatus[k] # "none" =>
                /\ ordStatus'[k] # "none"
                /\ ordStatus'[k] = "failed" <=> ordStatus[k] = "failed"
          /\ activeTickets \cup refundedTickets
                \subseteq activeTickets' \cup refundedTickets'
      BY <1>0, <2>2, StepKeepsRows
    <2> QED
      BY <2>1, <2>3 DEF PageTells
  <1>4. CASE UNCHANGED <<page, resStatus, ordVars>>
    BY <1>4 DEF PageTells, ordVars
  <1> QED
    BY <1>1, <1>2, <1>3, <1>4
       DEF StaleNext, LockedStep, Leave, SaveTicketType, SaveEvent, SaveReservation,
           SaveOrder, SaveTicket, Saved, AuditStarts, CountSold, CountHeld, Report,
           Fix, AuditDies, staleVars, vars, resVars

-----------------------------------------------------------------------------
(* The kill switch.                                                        *)

\* Only pause_sales, resume_sales and a stale save of the event write
\* sales_paused, and the last is what unpaused records.
LEMMA PausesStep ==
  ASSUME StaleTypeOK, PageTells, PausesStand, [StaleNext]_staleVars
  PROVE  PausesStand'
  <1>0. paused \in [Events -> BOOLEAN] /\ pausedBy \subseteq Events
    BY DEF StaleTypeOK, TypeOK
  <1>1. CASE UNCHANGED <<paused, pausedBy, unpaused>>
    BY <1>1 DEF PausesStand
  <1>2. CASE Transaction
    <2>1. paused' = paused
      BY <1>2 DEF Transaction, CreateReservation, WriteHold, CancelReservation,
         WriteCancel, SweepExpired, WriteExpiry, PurchaseConfirmed, WriteSale,
         PurchaseDeclined, WriteDecline, IssueRefund, WriteRefund, Lapse, typeVars
    <2> QED
      BY <1>1, <1>2, <2>1 DEF Transaction, historyVars
  <1>3. CASE \E e \in Events : Pause(e) \/ Resume(e)
    BY <1>0, <1>3 DEF Pause, PauseSales, Resume, ResumeSales, PausesStand
  <1>4. CASE SaveEvent
    <2>1. /\ page.row \in Events
          /\ paused' = [paused EXCEPT ![page.row] = page.paused]
          /\ pausedBy' = pausedBy
      BY <1>4 DEF SaveEvent, PageTells
    <2>2. CASE page = EventRow(page.row)
      <3>1. page.paused = paused[page.row]
        <4>1. EventRow(page.row).paused = paused[page.row]
          BY DEF EventRow
        <4> QED
          BY <2>2, <4>1, Zenon
      <3>2. paused' = paused
        BY <1>0, <2>1, <3>1
      <3> QED
        BY <1>1, <1>4, <2>1, <2>2, <3>2 DEF SaveEvent
    <2>3. CASE page # EventRow(page.row)
      <3>1. unpaused' = unpaused \cup {page.row}
        BY <1>4, <2>3 DEF SaveEvent
      <3> QED
        BY <1>0, <2>1, <3>1 DEF PausesStand
    <2> QED
      BY <2>2, <2>3
  <1>5. CASE \/ \E c \in 0 .. MaxCapacity : SaveTicketType(c)
             \/ \E past \in BOOLEAN : SaveReservation(past)
             \/ SaveOrder \/ SaveTicket \/ Fix
    BY <1>1, <1>5 DEF SaveTicketType, SaveReservation, SaveOrder, SaveTicket, Fix,
       typeVars
  <1>6. CASE RowsUntouched
    BY <1>1, <1>6 DEF RowsUntouched, vars, typeVars, historyVars
  <1> QED
    BY <1>2, <1>3, <1>4, <1>5, <1>6, StepKinds DEF LockedStep

\* A sale or a hold is logged by the transaction that looked at sales_paused.
LEMMA StepRespectsPauses ==
  ASSUME StaleTypeOK, PausesStand, [StaleNext]_staleVars, NEW x \in audit' \ audit
  PROVE  /\ x[1] = "inventory_held" =>
               EventOf[resType'[x[2]]] \notin pausedBy \ unpaused
         /\ x[1] = "inventory_sold" =>
               EventOf[resType[ordRes'[x[2]]]] \notin pausedBy \ unpaused
  <1> DEFINE Goal ==
         /\ x[1] = "inventory_held" =>
               EventOf[resType'[x[2]]] \notin pausedBy \ unpaused
         /\ x[1] = "inventory_sold" =>
               EventOf[resType[ordRes'[x[2]]]] \notin pausedBy \ unpaused
  <1>0. TypeOK
    BY DEF StaleTypeOK
  <1>1. ASSUME NEW r \in Reservations, NEW t \in TicketTypes, NEW q \in Units,
               CreateReservation(r, t, q)
        PROVE  Goal
    <2>1. x = <<"inventory_held", r>> /\ resType'[r] = t /\ ~ paused[EventOf[t]]
      BY <1>0, <1>1 DEF CreateReservation, WriteHold, TypeOK
    <2> QED
      BY <2>1 DEF PausesStand
  <1>2. ASSUME NEW r \in Reservations, NEW k \in Keys, PurchaseConfirmed(r, k)
        PROVE  Goal
    <2>1. /\ x = <<"inventory_sold", k>> /\ ordRes'[k] = r
          /\ ~ paused[EventOf[resType[r]]]
      BY <1>0, <1>2 DEF PurchaseConfirmed, MayPurchase, WriteSale, TypeOK
    <2> QED
      BY <2>1 DEF PausesStand
  <1>3. ASSUME \E S \in SUBSET Reservations : SweepExpired(S)
        PROVE  Goal
    <2>1. x[1] = "reservation_expired"
      BY <1>3 DEF SweepExpired, WriteExpiry
    <2> QED
      BY <2>1
  <1>4. CASE Transaction
    <2>1. \/ Goal
          \/ \E r \in Reservations : CancelReservation(r)
          \/ \E r \in Reservations, k \in Keys : PurchaseDeclined(r, k)
          \/ \E k \in Keys : \E ids \in SUBSET ActiveTicketsOf(k) : IssueRefund(k, ids)
          \/ \E r \in Reservations : Lapse(r)
      BY <1>1, <1>2, <1>3, <1>4 DEF Transaction
    <2>2. ASSUME NEW r \in Reservations, CancelReservation(r)
          PROVE  Goal
      <3>1. x = <<"reservation_cancelled", r>>
        BY <2>2 DEF CancelReservation, WriteCancel
      <3> QED
        BY <3>1
    <2>3. ASSUME NEW k \in Keys, NEW ids, IssueRefund(k, ids)
          PROVE  Goal
      <3>1. x = <<"refund_issued", <<k, RefundTargets(k, ids)>> >>
        BY <2>3 DEF IssueRefund, WriteRefund
      <3> QED
        BY <3>1
    <2>4. CASE UNCHANGED audit
      BY <2>4
    <2> QED
      BY <2>1, <2>2, <2>3, <2>4 DEF PurchaseDeclined, WriteDecline, Lapse
  <1>5. CASE audit' = audit
    BY <1>5
  <1> QED
    BY <1>4, <1>5, StepKinds
       DEF LockedStep, Pause, PauseSales, Resume, ResumeSales, SaveTicketType,
           SaveEvent, SaveReservation, SaveOrder, SaveTicket, Fix, RowsUntouched, vars

-----------------------------------------------------------------------------
(* Drift and its causes.                                                   *)

\* The counters of a ticket type agree with its rows as long as neither its
\* counters nor its reservations and tickets are written.
LEMMA AgreesUntouched ==
  ASSUME TypeOK, TicketsBelong, NEW u \in TicketTypes, Agrees(u),
         sold'[u] = sold[u], held'[u] = held[u],
         UNCHANGED <<resType, resQty, ordRes>>,
         \A r \in Reservations : resStatus[r] # "none" /\ resType[r] = u =>
            (resStatus'[r] = "active" <=> resStatus[r] = "active"),
         \A r \in Reservations : resStatus[r] = "none" => resStatus'[r] # "active",
         \A x \in TicketCells : OrderType(x[1]) = u =>
            (x \in activeTickets' <=> x \in activeTickets),
         activeTickets' \subseteq TicketCells
  PROVE  Agrees(u)'
  <1>1. SoldCells(u)' = SoldCells(u)
    BY DEF SoldCells, OrderType, TypeOK
  <1>2. UnitsOf(ActiveReservations, u)' = UnitsOf(ActiveReservations, u)
    BY DEF UnitsOf, ActiveReservations
  <1>3. ActualSold(u)' = ActualSold(u) /\ ActualHeld(u)' = ActualHeld(u)
    BY <1>1, <1>2, Zenon DEF ActualSold, ActualHeld
  <1> QED
    BY <1>3, Zenon DEF Agrees

\* --fix writes the counts it took.  Those of an undisturbed run are right.
LEMMA FixAgrees ==
  ASSUME TypeOK, TicketsBelong, ReconTyped, QuietAuditSoFar, Fix,
         NEW u \in TicketTypes
  PROVE  /\ u # recon.type /\ Agrees(u) => Agrees(u)'
         /\ u = recon.type /\ recon.quiet => Agrees(u)'
         /\ recon.type \in TicketTypes
  <1>1. /\ recon.phase = "held" /\ recon.type \in TicketTypes
        /\ sold' = [sold EXCEPT ![recon.type] = recon.sold]
        /\ held' = [held EXCEPT ![recon.type] = recon.held]
        /\ UNCHANGED <<resVars, ordVars>>
    BY DEF Fix, ReconTyped, RunPhases
  <1>2. SoldCells(u)' = SoldCells(u)
    BY <1>1 DEF SoldCells, OrderType, resVars, ordVars
  <1>3. UnitsOf(ActiveReservations, u)' = UnitsOf(ActiveReservations, u)
    BY <1>1 DEF UnitsOf, ActiveReservations, resVars
  <1>4. ActualSold(u)' = ActualSold(u) /\ ActualHeld(u)' = ActualHeld(u)
    BY <1>2, <1>3, Zenon DEF ActualSold, ActualHeld
  <1>5. CASE u # recon.type
    <2>1. sold'[u] = sold[u] /\ held'[u] = held[u]
      BY <1>1, <1>5 DEF TypeOK
    <2> QED
      BY <1>1, <1>4, <1>5, <2>1, Zenon DEF Agrees
  <1>6. CASE u = recon.type
    <2>1. sold'[u] = recon.sold /\ held'[u] = recon.held
      BY <1>1, <1>6 DEF TypeOK
    <2>2. recon.quiet => recon.sold = ActualSold(u) /\ recon.held = ActualHeld(u)
      BY <1>1, <1>6 DEF QuietAuditSoFar, CountedRightly, RunPhases
    <2> QED
      BY <1>1, <1>4, <1>6, <2>1, <2>2, Zenon DEF Agrees
  <1> QED
    BY <1>1, <1>5, <1>6

\* A ticket type that is not adrift after a step agreed before it or was
\* resynchronized by it, and agrees after it.
LEMMA DriftStep ==
  ASSUME StaleTypeOK, TicketsBelong, PageTells, ReconTyped, QuietAuditSoFar,
         DriftExplained, [StaleNext]_staleVars
  PROVE  DriftExplained'
  <1> SUFFICES ASSUME NEW u \in TicketTypes, u \notin adrift'
               PROVE  Agrees(u)'
    BY DEF DriftExplained, Agrees
  <1>0. TypeOK /\ (u \notin adrift => Agrees(u))
    BY DEF StaleTypeOK, DriftExplained, Agrees
  <1>1. CASE LockedStep
    <2>1. adrift' = adrift
      BY <1>1 DEF LockedStep, Transaction, Pause, Resume, historyVars
    <2>2. Next
      BY <1>0, <1>1, TransactionIsStep DEF LockedStep
    <2> QED
      BY <1>0, <2>1, <2>2, StepKeepsAgreement, NextIsLate
  <1>2. CASE RowsUntouched
    BY <1>0, <1>2, AgreesUntouched
       DEF RowsUntouched, vars, typeVars, resVars, ordVars, historyVars, TypeOK
  <1>3. CASE SaveEvent
    BY <1>0, <1>3, AgreesUntouched DEF SaveEvent, resVars, ordVars, TypeOK
  <1>4. ASSUME NEW c \in 0 .. MaxCapacity, SaveTicketType(c)
        PROVE  Agrees(u)'
    <2> DEFINE t == page.row
    <2>1. /\ t \in TicketTypes /\ page.sold \in Nat /\ page.held \in Nat
          /\ sold' = [sold EXCEPT ![t] = page.sold]
          /\ held' = [held EXCEPT ![t] = page.held]
          /\ adrift' = IF page = TicketTypeRow(t) THEN adrift ELSE adrift \cup {t}
          /\ UNCHANGED <<resVars, ordVars>>
      BY <1>4 DEF SaveTicketType, PageTells
    <2>2. page = TicketTypeRow(t) => page.sold = sold[t] /\ page.held = held[t]
      <3>1. TicketTypeRow(t).sold = sold[t] /\ TicketTypeRow(t).held = held[t]
        BY DEF TicketTypeRow
      <3> QED
        BY <3>1, Zenon
    <2> HIDE DEF t
    <2>3. sold'[u] = sold[u] /\ held'[u] = held[u] /\ u \notin adrift
      BY <1>0, <2>1, <2>2 DEF TypeOK
    <2> QED
      BY <1>0, <2>1, <2>3, AgreesUntouched DEF resVars, ordVars, TypeOK
  <1>5. ASSUME NEW past \in BOOLEAN, SaveReservation(past)
        PROVE  Agrees(u)'
    <2>1. /\ u \notin adrift
          /\ page = ReservationRow(page.row) \/ u # resType[page.row]
      BY <1>5 DEF SaveReservation
    <2>2. /\ \A r \in Reservations : resStatus[r] # "none" /\ resType[r] = u =>
                (resStatus'[r] = "active" <=> resStatus[r] = "active")
          /\ \A r \in Reservations : resStatus[r] = "none" => resStatus'[r] # "active"
      BY <1>0, <1>5, <2>1, SavedReservation
    <2>3. UNCHANGED <<sold, held, resType, resQty, ordRes, activeTickets>>
      BY <1>5 DEF SaveReservation, typeVars, ordVars
    <2> QED
      BY <1>0, <2>1, <2>2, <2>3, AgreesUntouched DEF TypeOK
  <1>6. CASE SaveOrder
    <2>1. UNCHANGED <<sold, held, resStatus, resType, resQty, ordRes, activeTickets,
                      adrift>>
      BY <1>6 DEF SaveOrder, typeVars, resVars
    <2> QED
      BY <1>0, <2>1, AgreesUntouched DEF TypeOK
  <1>7. CASE SaveTicket
    <2>1. /\ u \notin adrift
          /\ page = TicketRow(page.row) \/ u # OrderType(page.row[1])
      BY <1>7 DEF SaveTicket
    <2>2. \A x \in TicketCells : OrderType(x[1]) = u =>
             (x \in activeTickets' <=> x \in activeTickets)
      BY <1>0, <1>7, <2>1, SavedTicket
    <2>3. UNCHANGED <<sold, held, resStatus, resType, resQty, ordRes>>
      BY <1>7 DEF SaveTicket, typeVars, resVars
    <2>4. activeTickets' \subseteq TicketCells
      BY <1>0, <1>7, SavedTicket DEF TypeOK
    <2> QED
      BY <1>0, <2>1, <2>2, <2>3, <2>4, AgreesUntouched
  <1>8. CASE Fix
    <2>1. adrift' = IF recon.quiet THEN adrift \ {recon.type}
                    ELSE adrift \cup {recon.type}
      BY <1>8 DEF Fix
    <2> QED
      BY <1>0, <1>8, <2>1, FixAgrees
  <1> QED
    BY <1>1, <1>2, <1>3, <1>4, <1>5, <1>6, <1>7, <1>8, StepKinds

-----------------------------------------------------------------------------
(* Damage stays where it was done.                                         *)

\* The conjuncts of DamageContained, row by row.
OrderSound(k) ==
    RefundTells(k) /\ \A x \in TicketsOf(k) : PaidBackOnce(x)

\* DamageContained is about one row at a time.
LEMMA DamageByRow ==
  DamageContained <=> /\ \A r \in Reservations \ reopened : SoldOnceOf(r)
                      /\ \A k \in Keys \ reopened : OrderSound(k)
  BY DEF DamageContained, SoldOnceOf, OrderSound, RefundTells, PaidBackOnce

\* A step that writes none of what the conjunct looks at.
LEMMA SoldUntouched ==
  ASSUME NEW r \in Reservations, SoldOnceOf(r),
         resStatus'[r] = resStatus[r], ordRes' = ordRes,
         \A k \in Keys : ordStatus'[k] \in {"none", "failed"}
                            <=> ordStatus[k] \in {"none", "failed"}
  PROVE  SoldOnceOf(r)'
  <1>1. PaidOrdersOf(r)' = PaidOrdersOf(r)
    BY DEF PaidOrdersOf
  <1>2. Cardinality(PaidOrdersOf(r)') = Cardinality(PaidOrdersOf(r))
    BY <1>1, Zenon
  <1> QED
    BY <1>2 DEF SoldOnceOf

\* What is said of an order depends on its status and on its tickets only.
LEMMA OrderUntouched ==
  ASSUME NEW k \in Keys, OrderSound(k),
         ordStatus'[k] = ordStatus[k], refunds' = refunds,
         activeTickets' \cap TicketsOf(k) = activeTickets \cap TicketsOf(k),
         refundedTickets' \cap TicketsOf(k) = refundedTickets \cap TicketsOf(k)
  PROVE  OrderSound(k)'
  <1>1. TicketsOf(k)' = TicketsOf(k)
    BY DEF TicketsOf, TicketCells
  <1>2. RefundTells(k)'
    BY <1>1 DEF OrderSound, RefundTells, ActiveTicketsOf
  <1>3. \A x \in TicketsOf(k) : PaidBackOnce(x)'
    BY DEF OrderSound, PaidBackOnce
  <1> QED
    BY <1>1, <1>2, <1>3 DEF OrderSound

\* A locked transaction preserves what it finds sound; a save overwrites one
\* row, and puts it into reopened unless it writes what was there.
LEMMA DamageStep ==
  ASSUME StaleTypeOK, TicketsBelong, PageTells, DamageContained,
         [StaleNext]_staleVars
  PROVE  DamageContained'
  <1>0. /\ TypeOK
        /\ \A r \in Reservations \ reopened : SoldOnceOf(r)
        /\ \A k \in Keys \ reopened : OrderSound(k)
    BY DamageByRow DEF StaleTypeOK
  <1> DEFINE Goal == /\ \A r \in Reservations \ reopened' : SoldOnceOf(r)'
                     /\ \A k \in Keys \ reopened' : OrderSound(k)'
  <1> SUFFICES Goal
    BY DEF DamageContained, SoldOnceOf, OrderSound, RefundTells, PaidBackOnce,
       TicketsOf, TicketCells
  <1>1. CASE LockedStep
    <2>1. reopened' = reopened
      BY <1>1 DEF LockedStep, Transaction, Pause, Resume, historyVars
    <2>2. [Next]_vars
      BY <1>0, <1>1, TransactionIsStep DEF LockedStep
    <2>3. ASSUME NEW r \in Reservations \ reopened'
          PROVE  SoldOnceOf(r)'
      BY <1>0, <2>1, <2>2, <2>3, StepKeepsSold, NextIsLate
    <2>4. ASSUME NEW k \in Keys \ reopened'
          PROVE  OrderSound(k)'
      <3>1. OrderSound(k)
        BY <1>0, <2>1
      <3>2. RefundTells(k)'
        BY <1>0, <2>2, <3>1, StepKeepsRefundTells DEF OrderSound
      <3>3. \A x \in TicketsOf(k) : PaidBackOnce(x)'
        BY <1>0, <2>2, <3>1, StepKeepsPaidBack, NextIsLate DEF OrderSound, TicketsOf
      <3> QED
        BY <3>2, <3>3 DEF OrderSound, TicketsOf, TicketCells
    <2> QED
      BY <2>3, <2>4
  <1>2. CASE UNCHANGED <<resStatus, ordVars, reopened>>
    BY <1>0, <1>2, SoldUntouched, OrderUntouched DEF ordVars
  <1>3. ASSUME NEW past \in BOOLEAN, SaveReservation(past)
        PROVE  Goal
    <2>1. /\ UNCHANGED ordVars
          /\ \A r \in Reservations \ {page.row} : resStatus'[r] = resStatus[r]
          /\ page = ReservationRow(page.row) => resStatus' = resStatus
      BY <1>0, <1>3, SavedReservation
    <2>2. reopened' = IF page = ReservationRow(page.row) THEN reopened
                      ELSE reopened \cup {page.row}
      BY <1>3 DEF SaveReservation
    <2>3. ASSUME NEW r \in Reservations \ reopened'
          PROVE  SoldOnceOf(r)'
      <3>1. SoldOnceOf(r) /\ resStatus'[r] = resStatus[r]
        BY <1>0, <2>1, <2>2
      <3> QED
        BY <2>1, <3>1, SoldUntouched DEF ordVars
    <2>4. ASSUME NEW k \in Keys \ reopened'
          PROVE  OrderSound(k)'
      <3>1. OrderSound(k)
        BY <1>0, <2>2
      <3> QED
        BY <2>1, <3>1, OrderUntouched DEF ordVars
    <2> QED
      BY <2>3, <2>4
  <1>4. CASE SaveOrder
    <2>1. /\ UNCHANGED <<resVars, ordRes, activeTickets, refundedTickets, refunds>>
          /\ page = OrderRow(page.row) => ordStatus' = ordStatus
          /\ \A k \in Keys :
                /\ k # page.row => ordStatus'[k] = ordStatus[k]
                /\ ordStatus'[k] \in {"none", "failed"}
                      <=> ordStatus[k] \in {"none", "failed"}
      BY <1>0, <1>4, SavedOrder
    <2>2. reopened' = IF page = OrderRow(page.row) THEN reopened
                      ELSE reopened \cup {page.row}
      BY <1>4 DEF SaveOrder
    <2>3. ASSUME NEW r \in Reservations \ reopened'
          PROVE  SoldOnceOf(r)'
      BY <1>0, <2>1, <2>2, SoldUntouched DEF resVars
    <2>4. ASSUME NEW k \in Keys \ reopened'
          PROVE  OrderSound(k)'
      <3>1. OrderSound(k) /\ ordStatus'[k] = ordStatus[k]
        BY <1>0, <2>1, <2>2
      <3> QED
        BY <2>1, <3>1, OrderUntouched
    <2> QED
      BY <2>3, <2>4
  <1>5. CASE SaveTicket
    <2> DEFINE x == page.row
    <2>1. /\ UNCHANGED <<resVars, ordStatus, ordRes, refunds>>
          /\ x \in TicketCells
          /\ page = TicketRow(x) =>
                activeTickets' = activeTickets /\ refundedTickets' = refundedTickets
          /\ activeTickets' \ {x} = activeTickets \ {x}
          /\ refundedTickets' \ {x} = refundedTickets \ {x}
      BY <1>0, <1>5, SavedTicket
    <2>2. reopened' = IF page = TicketRow(x) THEN reopened
                      ELSE reopened \cup {x, x[1]}
      BY <1>5 DEF SaveTicket
    <2> HIDE DEF x
    <2>3. ASSUME NEW r \in Reservations \ reopened'
          PROVE  SoldOnceOf(r)'
      BY <1>0, <2>1, <2>2, SoldUntouched DEF resVars
    <2>4. ASSUME NEW k \in Keys \ reopened'
          PROVE  OrderSound(k)'
      <3>1. OrderSound(k)
        BY <1>0, <2>2
      <3>2. /\ activeTickets' \cap TicketsOf(k) = activeTickets \cap TicketsOf(k)
            /\ refundedTickets' \cap TicketsOf(k) = refundedTickets \cap TicketsOf(k)
        <4>1. CASE page = TicketRow(x)
          BY <2>1, <4>1
        <4>2. CASE page # TicketRow(x)
          <5>1. x \notin TicketsOf(k)
            BY <2>2, <4>2 DEF TicketsOf
          <5> QED
            BY <2>1, <5>1
        <4> QED
          BY <4>1, <4>2
      <3> QED
        BY <2>1, <3>1, <3>2, OrderUntouched
    <2> QED
      BY <2>3, <2>4
  <1>6. CASE \/ \E c \in 0 .. MaxCapacity : SaveTicketType(c)
             \/ SaveEvent \/ Fix \/ RowsUntouched
    <2>1. UNCHANGED <<resStatus, ordVars, reopened>>
      BY <1>6 DEF SaveTicketType, SaveEvent, Fix, RowsUntouched, vars, resVars,
         historyVars
    <2> QED
      BY <1>2, <2>1
  <1> QED
    BY <1>1, <1>3, <1>4, <1>5, <1>6, StepKinds

-----------------------------------------------------------------------------
(* An audit nothing overtook.                                              *)

\* The counts depend on the rows alone, not on the counters.
LEMMA CountsUntouched ==
  ASSUME UNCHANGED <<resVars, ordVars>>, NEW t
  PROVE  ActualSold(t)' = ActualSold(t) /\ ActualHeld(t)' = ActualHeld(t)
  <1>1. SoldCells(t)' = SoldCells(t)
    BY DEF SoldCells, OrderType, resVars, ordVars
  <1>2. UnitsOf(ActiveReservations, t)' = UnitsOf(ActiveReservations, t)
    BY DEF UnitsOf, ActiveReservations, resVars
  <1> QED
    BY <1>1, <1>2, Zenon DEF ActualSold, ActualHeld

\* A step of the run that leaves alone what it says of a ticket type.
LEMMA AuditedUntouched ==
  ASSUME NEW t, AuditedRightly(t),
         UNCHANGED <<resVars, ordVars>>,
         capacity'[t] = capacity[t], sold'[t] = sold[t], held'[t] = held[t],
         recon'.limit = recon.limit, recon'.row = recon.row,
         recon'.fix = recon.fix,
         t \in Pending' <=> t \in Pending,
         t \in recon'.oversold <=> t \in recon.oversold,
         t \in recon'.drifted <=> t \in recon.drifted
  PROVE  AuditedRightly(t)'
  <1>1. ActualSold(t)' = ActualSold(t) /\ ActualHeld(t)' = ActualHeld(t)
    BY CountsUntouched
  <1>2. Agrees(t)' <=> Agrees(t)
    BY <1>1, Zenon DEF Agrees
  <1> QED
    BY <1>1, <1>2 DEF AuditedRightly

\* When a ticket type is reported, the counts are compared with the counters
\* and the capacity the run has read; with --fix they become the counters.
LEMMA ReportIsRight ==
  ASSUME TypeOK, ReconTyped, QuietAuditSoFar, recon.quiet, Report \/ Fix,
         NEW t, t = recon.type
  PROVE  AuditedRightly(t)'
  <1>1. /\ recon.phase = "held" /\ recon' = Reported
        /\ t \in TicketTypes /\ t \in recon.scope /\ t \notin recon.todo
        /\ UNCHANGED <<capacity, resVars, ordVars>>
    BY DEF Report, Fix, ReconTyped, RunPhases, vars, typeVars
  <1>2. /\ recon'.fix = recon.fix /\ recon'.limit = recon.limit
        /\ t \notin Pending'
        /\ recon'.drifted = IF FoundDrift THEN recon.drifted \cup {t}
                            ELSE recon.drifted
        /\ recon'.oversold = IF FoundOversell THEN recon.oversold \cup {t}
                             ELSE recon.oversold
    BY <1>1, ReportedFields DEF Pending
  <1>3. /\ recon.sold = ActualSold(t) /\ recon.held = ActualHeld(t)
        /\ recon.limit[t] = capacity[t]
        /\ recon.row[t].sold = sold[t] /\ recon.row[t].held = held[t]
        /\ t \notin recon.oversold /\ t \notin recon.drifted
    BY <1>1 DEF QuietAuditSoFar, CountedRightly, AuditedRightly, RunPhases, Pending
  <1>4. ActualSold(t)' = ActualSold(t) /\ ActualHeld(t)' = ActualHeld(t)
    BY <1>1, CountsUntouched
  <1>5. t \in recon'.oversold <=> ActualSold(t) + ActualHeld(t) > capacity[t]
    BY <1>2, <1>3 DEF FoundOversell
  <1>6. t \in recon'.drifted <=> ~ Agrees(t)
    BY <1>2, <1>3 DEF FoundDrift, Agrees
  <1>7. Agrees(t)' <=> (Agrees(t) \/ recon.fix)
    <2>1. CASE Report
      <3>1. UNCHANGED <<sold, held>> /\ ~ (FoundDrift /\ recon.fix)
        BY <2>1 DEF Report, vars, typeVars
      <3>2. Agrees(t)' <=> Agrees(t)
        BY <1>4, <3>1, Zenon DEF Agrees
      <3> QED
        BY <1>3, <3>1, <3>2 DEF FoundDrift, Agrees
    <2>2. CASE Fix
      <3>1. /\ sold'[t] = recon.sold /\ held'[t] = recon.held
            /\ recon.fix
        BY <1>1, <2>2 DEF Fix, TypeOK
      <3>2. Agrees(t)'
        BY <1>3, <1>4, <3>1, Zenon DEF Agrees
      <3> QED
        BY <3>1, <3>2
    <2> QED
      BY <2>1, <2>2
  <1> QED
    BY <1>1, <1>2, <1>3, <1>4, <1>5, <1>6, <1>7 DEF AuditedRightly

\* Every step of an undisturbed run keeps it right, and every other step
\* disturbs it.
LEMMA QuietStep ==
  ASSUME StaleTypeOK, ReconTyped, QuietAuditSoFar, [StaleNext]_staleVars
  PROVE  QuietAuditSoFar'
  <1>0. TypeOK /\ recon.phase \in Phases /\ recon.quiet \in BOOLEAN
    BY DEF StaleTypeOK, Phases, RunPhases
  <1>1. CASE Disturb
    <2>1. recon'.phase \in RunPhases => ~ recon'.quiet
      BY <1>0, <1>1, DisturbedRun
    <2> QED
      BY <2>1 DEF QuietAuditSoFar
  <1>2. CASE UNCHANGED <<vars, recon>>
    <2>1. ASSUME NEW t
          PROVE  ActualSold(t)' = ActualSold(t) /\ ActualHeld(t)' = ActualHeld(t)
      BY <1>2, CountsUntouched DEF vars
    <2>2. CountedRightly => CountedRightly'
      <3>1. recon' = recon
        BY <1>2
      <3> QED
        BY <2>1, <3>1 DEF CountedRightly
    <2>3. ASSUME NEW t, AuditedRightly(t)
          PROVE  AuditedRightly(t)'
      BY <1>2, <2>3, AuditedUntouched DEF vars, typeVars, Pending
    <2> QED
      BY <1>2, <2>2, <2>3 DEF QuietAuditSoFar
  <1>3. ASSUME NEW scope \in Scopes, NEW fix \in BOOLEAN, AuditStarts(scope, fix)
        PROVE  QuietAuditSoFar'
    <2>1. /\ recon' = [phase |-> "next", quiet |-> TRUE, fix |-> fix,
                 scope |-> scope,
                 todo |-> scope, row |-> [t \in scope |-> TicketTypeRow(t)],
                 limit |-> [t \in scope |-> capacity[t]],
                 type |-> NoRow, sold |-> 0, held |-> 0,
                 drifted |-> {}, oversold |-> {}]
          /\ UNCHANGED <<capacity, sold, held>>
      BY <1>3 DEF AuditStarts, vars, typeVars
    <2>2. ASSUME NEW t \in scope
          PROVE  AuditedRightly(t)'
      <3>1. /\ recon'.limit[t] = capacity[t]
            /\ recon'.row[t] = TicketTypeRow(t)
            /\ Pending' = scope
            /\ recon'.oversold = {} /\ recon'.drifted = {}
        BY <2>1 DEF Pending
      <3>2. TicketTypeRow(t).sold = sold[t] /\ TicketTypeRow(t).held = held[t]
        BY DEF TicketTypeRow
      <3> QED
        BY <2>1, <3>1, <3>2 DEF AuditedRightly
    <2> QED
      BY <2>1, <2>2 DEF QuietAuditSoFar, CountedRightly
  <1>4. ASSUME NEW c \in TicketTypes, CountSold(c)
        PROVE  QuietAuditSoFar'
    <2>1. UNCHANGED vars /\ recon.phase = "next" /\ c \in recon.todo
      BY <1>4 DEF CountSold
    <2>2. ActualSold(c)' = ActualSold(c)
      BY <2>1, CountsUntouched DEF vars
    <2>3. CountedRightly'
      BY <1>4, <2>2, CountSoldFields DEF CountedRightly
    <2>4. ASSUME NEW t, AuditedRightly(t)
          PROVE  AuditedRightly(t)'
      <3>1. t \in Pending' <=> t \in Pending
        BY <1>4, <2>1, CountSoldFields DEF Pending
      <3> QED
        BY <1>4, <2>1, <2>4, <3>1, CountSoldFields, AuditedUntouched
           DEF vars, typeVars
    <2> QED
      BY <1>4, <2>1, <2>3, <2>4, CountSoldFields DEF QuietAuditSoFar, RunPhases
  <1>5. CASE CountHeld
    <2>1. UNCHANGED vars /\ recon.phase = "sold"
      BY <1>5 DEF CountHeld
    <2>2. ASSUME NEW t
          PROVE  ActualSold(t)' = ActualSold(t) /\ ActualHeld(t)' = ActualHeld(t)
      BY <2>1, CountsUntouched DEF vars
    <2>3. CountedRightly => CountedRightly'
      BY <1>5, <2>1, <2>2, CountHeldFields DEF CountedRightly
    <2>4. ASSUME NEW t, AuditedRightly(t)
          PROVE  AuditedRightly(t)'
      <3>1. t \in Pending' <=> t \in Pending
        BY <1>5, <2>1, CountHeldFields DEF Pending
      <3> QED
        BY <1>5, <2>1, <2>4, <3>1, CountHeldFields, AuditedUntouched
           DEF vars, typeVars
    <2> QED
      BY <1>5, <2>1, <2>3, <2>4, CountHeldFields DEF QuietAuditSoFar, RunPhases
  <1>6. CASE Report \/ Fix
    <2>1. /\ recon.phase = "held" /\ recon' = Reported
          /\ recon.type \in TicketTypes
          /\ UNCHANGED <<capacity, resVars, ordVars>>
      BY <1>6 DEF Report, Fix, ReconTyped, RunPhases, vars, typeVars
    <2>2. CountedRightly'
      BY <2>1, ReportedFields DEF CountedRightly
    <2>3. ASSUME NEW t \in TicketTypes, t # recon.type, AuditedRightly(t)
          PROVE  AuditedRightly(t)'
      <3>1. /\ t \in Pending' <=> t \in Pending
            /\ t \in recon'.oversold <=> t \in recon.oversold
            /\ t \in recon'.drifted <=> t \in recon.drifted
            /\ recon'.limit = recon.limit /\ recon'.row = recon.row
            /\ recon'.fix = recon.fix
        BY <2>1, <2>3, ReportedFields DEF Pending
      <3>2. sold'[t] = sold[t] /\ held'[t] = held[t]
        BY <1>0, <1>6, <2>1, <2>3 DEF Report, Fix, TypeOK, vars, typeVars
      <3> QED
        BY <2>1, <2>3, <3>1, <3>2, AuditedUntouched
    <2>4. recon.quiet => \A t : t = recon.type => AuditedRightly(t)'
      BY <1>0, <1>6, ReportIsRight
    <2>5. /\ recon'.quiet = recon.quiet /\ recon'.scope = recon.scope
          /\ recon.scope \subseteq TicketTypes
      BY <2>1, ReportedFields DEF ReconTyped, RunPhases
    <2> QED
      BY <2>1, <2>2, <2>3, <2>4, <2>5 DEF QuietAuditSoFar, RunPhases
  <1>7. CASE AuditDies
    BY <1>7 DEF AuditDies, NoAudit, QuietAuditSoFar, RunPhases
  <1> QED
    BY <1>1, <1>2, <1>3, <1>4, <1>5, <1>6, <1>7
       DEF StaleNext, Transaction, Pause, Resume, Load, Leave, SaveTicketType,
           SaveEvent, SaveReservation, SaveOrder, SaveTicket, Saved, staleVars

-----------------------------------------------------------------------------
(* The inductive invariant, and what follows from it.                      *)

\* Nothing is loaded, adrift, reopened or unpaused.
LEMMA StaleInvInit == StaleInit => StaleInv
  <1> SUFFICES ASSUME StaleInit
               PROVE  StaleInv
    OBVIOUS
  <1>1. Inv
    BY InvInit DEF StaleInit
  <1>2. /\ TypeOK /\ TicketsBelong
        /\ \A t \in TicketTypes : Agrees(t)
        /\ \A x \in TicketCells : PaidBackOnce(x)
    BY <1>1 DEF Inv, CountersMatchRows, Agrees, RefundedOnce, PaidBackOnce
  <1>3. StaleTypeOK
    BY <1>2, StaleAssumption DEF StaleInit, StaleTypeOK, NoPage, NoAudit
  <1>4. PageTells /\ ReconTyped /\ QuietAuditSoFar /\ PausesStand
    BY DEF StaleInit, NoPage, NoAudit, PageTells, ReconTyped, QuietAuditSoFar,
       PausesStand, RunPhases
  <1>5. DriftExplained
    BY <1>2 DEF DriftExplained, Agrees
  <1>6. DamageContained
    <2>1. ASSUME NEW r \in Reservations
          PROVE  SoldOnceOf(r)
      <3>1. PaidOrdersOf(r) = {}
        BY DEF StaleInit, Init, PaidOrdersOf
      <3>2. Cardinality(PaidOrdersOf(r)) = 0
        BY <3>1, FS_EmptySet
      <3> QED
        BY <3>2 DEF StaleInit, Init, SoldOnceOf
    <2>2. ASSUME NEW k \in Keys
          PROVE  OrderSound(k)
      BY <1>2 DEF StaleInit, Init, OrderSound, RefundTells, TicketsOf
    <2> QED
      BY <2>1, <2>2, DamageByRow
  <1> QED
    BY <1>2, <1>3, <1>4, <1>5, <1>6 DEF StaleInv

\* Every step, with or without locks, keeps the invariant.
LEMMA StaleInvStep == StaleInv /\ [StaleNext]_staleVars => StaleInv'
  BY StaleTypeStep, StaleKeepsBelonging, StaleKeepsPage, QuietStep, PausesStep,
     DriftStep, DamageStep DEF StaleInv

\* The inductive invariant holds of every reachable state.
THEOREM StaleInvariance == StaleSpec => []StaleInv
  BY StaleInvInit, StaleInvStep, PTL DEF StaleSpec

\* Type correctness next to the unlocked writers: no stale save of the admin
\* site or the event API, and no --fix of run_reconciliation, breaks a column
\* or leaves a reference to a row that does not exist.
THEOREM StaleTyped == StaleSpec => []StaleTypeOK
  <1>1. StaleInv => StaleTypeOK
    BY DEF StaleInv
  <1> QED
    BY <1>1, StaleInvariance, PTL

\* Drift has a cause: the counters of every ticket type that no stale save and
\* no overtaken --fix has written agree with its rows, and one --fix that
\* nothing overtakes makes them agree again.
THEOREM DriftHasACause == StaleSpec => []DriftExplained
  <1>1. StaleInv => DriftExplained
    BY DEF StaleInv
  <1> QED
    BY <1>1, StaleInvariance, PTL

\* Damage stays where it was done: a stale save of one row makes no other
\* reservation sold twice, no other order's status wrong and no other ticket
\* paid back twice.
THEOREM DamageStaysPut == StaleSpec => []DamageContained
  <1>1. StaleInv => DamageContained
    BY DEF StaleInv
  <1> QED
    BY <1>1, StaleInvariance, PTL

\* run_reconciliation is right about every ticket type of its scope, alerts
\* and drift alike, whenever nothing commits between its queries.
THEOREM QuietAuditsAreRight == StaleSpec => []QuietAuditIsRight
  <1>1. StaleInv => QuietAuditIsRight
    <2> SUFFICES ASSUME StaleInv, recon.phase = "done", recon.quiet,
                        NEW t \in recon.scope
                 PROVE  /\ t \in recon.oversold
                              <=> ActualSold(t) + ActualHeld(t) > capacity[t]
                        /\ (sold[t] # ActualSold(t) \/ held[t] # ActualHeld(t))
                              <=> t \in recon.drifted /\ ~ recon.fix
      BY DEF QuietAuditIsRight
    <2>1. AuditedRightly(t) /\ t \notin Pending
      BY DEF StaleInv, QuietAuditSoFar, ReconTyped, RunPhases, Pending
    <2> QED
      BY <2>1 DEF AuditedRightly, Agrees
  <1> QED
    BY <1>1, StaleInvariance, PTL

\* The kill switch holds: pause_sales stops every hold and sale of the event
\* until resume_sales, unless a stale save of the event has overwritten it.
THEOREM KillSwitchHolds == StaleSpec => KillSwitchExplained
  <1>1. StaleInv /\ [StaleNext]_staleVars =>
           [LET OnSale(t) == EventOf[t] \notin pausedBy \ unpaused IN
            \A x \in audit' \ audit :
               /\ x[1] = "inventory_held" => OnSale(resType'[x[2]])
               /\ x[1] = "inventory_sold" => OnSale(resType[ordRes'[x[2]]])]_staleVars
    BY StepRespectsPauses DEF StaleInv
  <1> QED
    BY <1>1, StaleInvariance, PTL DEF StaleSpec, KillSwitchExplained

=============================================================================
