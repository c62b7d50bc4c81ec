-------------------------- MODULE InventoryProofs --------------------------
(***************************************************************************)
(* Proofs about Inventory, for any number of ticket types, reservations,   *)
(* orders and units.                                                       *)
(*                                                                         *)
(* Zero drift is not inductive by itself.  A sale adds the tickets of a    *)
(* key to the tickets that are out, and adds as many as it takes from held *)
(* only if the key had none before; a new reservation changes the type of  *)
(* an id, and leaves the tickets sold alone only if no order refers to it. *)
(* So the inductive invariant adds that tickets belong to orders that were *)
(* paid (TicketsBelong) and TypeOK's references between rows, and, for the *)
(* bound on the rows, the CHECK constraint on the counters.                *)
(***************************************************************************)
EXTENDS Inventory, FiniteSetTheorems, TLAPS

\* A ticket that is out or came back belongs to an order that was paid, and a
\* ticket is not both.
TicketsBelong ==
    /\ \A x \in activeTickets \cup refundedTickets :
          ordStatus[x[1]] \in {"confirmed", "partially_refunded", "refunded"}
    /\ activeTickets \cap refundedTickets = {}

CountersWithinCapacity ==
    \A t \in TicketTypes : sold[t] <= capacity[t] - held[t]

\* The counters of ticket type t are what its rows say.
Agrees(t) == sold[t] = ActualSold(t) /\ held[t] = ActualHeld(t)

Inv ==
    /\ TypeOK
    /\ TicketsBelong
    /\ CountersWithinCapacity
    /\ CountersMatchRows
    /\ RefundedOnce

\* process_purchase looks at the clock and the kill switch once, before the
\* capture; what it relies on when it commits is the status of its
\* reservation, and that its key has no order.
LateSale(r, k)    == resStatus[r] = "active" /\ ordStatus[k] = "none" /\ WriteSale(r, k)
LateDecline(r, k) == resStatus[r] = "active" /\ ordStatus[k] = "none" /\ WriteDecline(r, k)

\* The transactions of Inventory with purchases that may commit late: what the
\* invariants survive, so that RowLocks and PurchaseTask, where purchases take
\* several steps, inherit them.
LateNext ==
    \/ \E r \in Reservations, t \in TicketTypes, q \in Units :
          CreateReservation(r, t, q)
    \/ \E r \in Reservations : CancelReservation(r)
    \/ \E S \in SUBSET Reservations : SweepExpired(S)
    \/ \E r \in Reservations, k \in Keys : LateSale(r, k)
    \/ \E r \in Reservations, k \in Keys : LateDecline(r, k)
    \/ \E r \in Reservations, k \in Keys : PurchaseDuplicate(r, k)
    \/ \E k \in Keys, ids \in SUBSET TicketCells : IssueRefund(k, ids)
    \/ \E e \in Events : PauseSales(e) \/ ResumeSales(e)
    \/ \E t \in TicketTypes, c \in 0 .. MaxCapacity, s \in BOOLEAN :
          AdminSaveTicketType(t, c, s)
    \/ \E r \in Reservations : Lapse(r)

\* Every step of Inventory is one of these.
LEMMA NextIsLate == [Next]_vars => [LateNext]_vars
  BY DEF Next, LateNext, PurchaseConfirmed, PurchaseDeclined, MayPurchase,
     LateSale, LateDecline

-----------------------------------------------------------------------------
(* Finiteness, and the SUM(quantity) of sets of reservations.              *)

\* The pool of tickets is finite, so every set of tickets has a cardinality.
LEMMA TicketCellsFinite == IsFiniteSet(TicketCells)
  <1>1. IsFiniteSet(Units)
    BY FS_Interval, ConstantsAssumption DEF Units
  <1> QED
    BY <1>1, FS_Product, ConstantsAssumption DEF TicketCells

\* So is the set of units any reservations take.
LEMMA UnitsFinite ==
  ASSUME NEW S \in SUBSET Reservations, NEW t
  PROVE  /\ IsFiniteSet(UnitsOf(S, t))
         /\ Cardinality(UnitsOf(S, t)) \in Nat
  <1>1. IsFiniteSet(Units)
    BY FS_Interval, ConstantsAssumption DEF Units
  <1>2. IsFiniteSet(S)
    BY FS_Subset, ConstantsAssumption
  <1>3. IsFiniteSet(S \X Units)
    BY <1>1, <1>2, FS_Product
  <1>4. UnitsOf(S, t) \in SUBSET (S \X Units)
    BY DEF UnitsOf
  <1>5. IsFiniteSet(UnitsOf(S, t))
    BY <1>3, <1>4, FS_Subset
  <1> QED
    BY <1>5, FS_CardinalityType

\* The units of one reservation are its quantity, of its own ticket type, and
\* none of any other.
LEMMA UnitsOfOne ==
  ASSUME NEW r \in Reservations, resQty[r] \in 0 .. MaxQty, NEW t
  PROVE  Cardinality(UnitsOf({r}, t)) = IF resType[r] = t THEN resQty[r] ELSE 0
  <1> DEFINE q == resQty[r]
  <1>0. q \in Nat /\ q <= MaxQty
    BY ConstantsAssumption
  <1>1. CASE resType[r] = t
    <2>1. UnitsOf({r}, t) = {r} \X (1 .. q)
      BY <1>0, <1>1, ConstantsAssumption DEF UnitsOf, Units
    <2> HIDE DEF q
    <2>2. /\ IsFiniteSet(1 .. q)
          /\ Cardinality(1 .. q) = q
      <3>1. 1 \in Int /\ q \in Int
        BY <1>0
      <3>2. IsFiniteSet(1 .. q) /\ Cardinality(1 .. q) = IF 1 > q THEN 0 ELSE q - 1 + 1
        BY <3>1, FS_Interval
      <3> QED
        BY <1>0, <3>2
    <2>3. IsFiniteSet({r}) /\ Cardinality({r}) = 1
      BY FS_Singleton
    <2>4. Cardinality({r} \X (1 .. q)) = 1 * q
      <3> DEFINE X == {r}
                 Q == 1 .. q
      <3>1. /\ IsFiniteSet(X) /\ Cardinality(X) = 1
            /\ IsFiniteSet(Q) /\ Cardinality(Q) = q
        BY <2>2, <2>3
      <3> HIDE DEF X, Q
      <3>2. Cardinality(X \X Q) = Cardinality(X) * Cardinality(Q)
        BY <3>1, FS_Product
      <3>3. Cardinality(X \X Q) = 1 * q
        BY <3>1, <3>2
      <3> QED
        BY <3>3, Zenon DEF X, Q
    <2>5. 1 * q = q
      BY <1>0
    <2>6. Cardinality(UnitsOf({r}, t)) = q
      BY <2>1, <2>4, <2>5, Zenon
    <2> QED
      BY <1>1, <2>6 DEF q
  <1>2. CASE resType[r] # t
    <2>1. UnitsOf({r}, t) = {}
      BY <1>2 DEF UnitsOf
    <2> QED
      BY <1>2, <2>1, FS_EmptySet
  <1> QED
    BY <1>1, <1>2

\* Releasing some of a set of reservations takes their units away.
LEMMA UnitsRemoved ==
  ASSUME NEW A \in SUBSET Reservations, NEW S \in SUBSET A, NEW t
  PROVE  Cardinality(UnitsOf(A \ S, t))
            = Cardinality(UnitsOf(A, t)) - Cardinality(UnitsOf(S, t))
  <1>1. UnitsOf(A \ S, t) = UnitsOf(A, t) \ UnitsOf(S, t)
    BY DEF UnitsOf
  <1>2. UnitsOf(A, t) \cap UnitsOf(S, t) = UnitsOf(S, t)
    BY DEF UnitsOf
  <1>3. IsFiniteSet(UnitsOf(A, t))
    BY UnitsFinite
  <1>4. Cardinality(UnitsOf(A, t) \ UnitsOf(S, t))
           = Cardinality(UnitsOf(A, t))
                - Cardinality(UnitsOf(A, t) \cap UnitsOf(S, t))
    BY <1>3, FS_Difference
  <1> QED
    BY <1>1, <1>2, <1>4, Zenon

\* The tickets that are out are finitely many, of any type.
LEMMA SoldFinite ==
  ASSUME TypeOK, NEW t
  PROVE  IsFiniteSet(SoldCells(t)) /\ Cardinality(SoldCells(t)) \in Nat
  <1>1. SoldCells(t) \in SUBSET TicketCells
    BY DEF TypeOK, SoldCells
  <1> QED
    BY <1>1, TicketCellsFinite, FS_Subset, FS_CardinalityType

\* A refund's targets are tickets of the order that are out.
LEMMA TargetsType ==
  ASSUME TypeOK, NEW k \in Keys, NEW ids
  PROVE  /\ RefundTargets(k, ids) \subseteq activeTickets
         /\ \A x \in RefundTargets(k, ids) : x \in TicketCells /\ x[1] = k
         /\ IsFiniteSet(RefundTargets(k, ids))
         /\ Cardinality(RefundTargets(k, ids)) \in Nat
  <1>1. /\ RefundTargets(k, ids) \subseteq activeTickets
        /\ \A x \in RefundTargets(k, ids) : x \in TicketCells /\ x[1] = k
    BY DEF RefundTargets, ActiveTicketsOf, TicketsOf, TypeOK
  <1>2. RefundTargets(k, ids) \in SUBSET TicketCells
    BY <1>1
  <1> QED
    BY <1>1, <1>2, TicketCellsFinite, FS_Subset, FS_CardinalityType

\* A counter lowered by no more than it counts is still a natural number.
LEMMA CounterLowered ==
  ASSUME NEW f \in [TicketTypes -> Nat], NEW t, NEW n \in Nat, f[t] - n >= 0
  PROVE  [f EXCEPT ![t] = @ - n] \in [TicketTypes -> Nat]
  <1>1. CASE t \in TicketTypes
    <2>1. f[t] - n \in Nat
      BY <1>1
    <2> QED
      BY <1>1, <2>1
  <1>2. CASE t \notin TicketTypes
    <2>1. [f EXCEPT ![t] = @ - n] = f
      BY <1>2
    <2> QED
      BY <2>1
  <1> QED
    BY <1>1, <1>2

-----------------------------------------------------------------------------
(* Type correctness.                                                       *)

\* No reservation, order or ticket exists yet.
LEMMA TypeInit == Init => TypeOK
  BY ConstantsAssumption DEF Init, TypeOK, ActiveReservations

\* A sale keeps the types, whatever was checked before it.
LEMMA SaleKeepsType ==
  ASSUME TypeOK, NEW r \in Reservations, NEW k \in Keys,
         resStatus[r] = "active", WriteSale(r, k)
  PROVE  TypeOK'
  <1> USE ConstantsAssumption DEF TypeOK, WriteSale
  <1>1. /\ held' \in [TicketTypes -> Nat]
        /\ sold' \in [TicketTypes -> Nat]
    BY DEF CheckConstraints, Units
  <1>2. audit' \subseteq AuditEntries
    BY DEF AuditEntries
  <1>3. /\ resStatus' \in [Reservations -> ReservationStatus \cup {"none"}]
        /\ lapsed' \subseteq ActiveReservations'
    BY DEF ReservationStatus, ActiveReservations
  <1>4. /\ ordStatus' \in [Keys -> OrderStatus \cup {"none"}]
        /\ ordRes' \in [Keys -> Reservations \cup {NoRow}]
    BY DEF OrderStatus
  <1>5. activeTickets' \subseteq TicketCells
    BY DEF TicketCells, Units
  <1>6. \A x \in Keys : ordStatus'[x] # "none" =>
           ordRes'[x] \in Reservations /\ resStatus'[ordRes'[x]] # "none"
    OBVIOUS
  <1> QED
    BY <1>1, <1>2, <1>3, <1>4, <1>5, <1>6

\* So does a decline.
LEMMA DeclineKeepsType ==
  ASSUME TypeOK, NEW r \in Reservations, NEW k \in Keys,
         resStatus[r] = "active", WriteDecline(r, k)
  PROVE  TypeOK'
  <1> USE ConstantsAssumption DEF TypeOK, WriteDecline, typeVars, resVars
  <1>1. /\ ordStatus' \in [Keys -> OrderStatus \cup {"none"}]
        /\ ordRes' \in [Keys -> Reservations \cup {NoRow}]
    BY DEF OrderStatus
  <1>2. \A x \in Keys : ordStatus'[x] # "none" =>
           ordRes'[x] \in Reservations /\ resStatus'[ordRes'[x]] # "none"
    OBVIOUS
  <1> QED
    BY <1>1, <1>2 DEF ActiveReservations

\* Every step keeps the columns in their types and the references intact.
LEMMA TypeStep == TypeOK /\ [LateNext]_vars => TypeOK'
  <1> SUFFICES ASSUME TypeOK, [LateNext]_vars
               PROVE  TypeOK'
    OBVIOUS
  <1> USE ConstantsAssumption DEF TypeOK
  <1>1. ASSUME NEW r \in Reservations, NEW t \in TicketTypes, NEW q \in Units,
               CreateReservation(r, t, q)
        PROVE  TypeOK'
    <2> USE <1>1 DEF CreateReservation, WriteHold, ordVars
    <2>1. held' \in [TicketTypes -> Nat]
      BY DEF Units, CheckConstraints
    <2>2. audit' \subseteq AuditEntries
      BY DEF AuditEntries
    <2>3. /\ resStatus' \in [Reservations -> ReservationStatus \cup {"none"}]
          /\ resType' \in [Reservations -> TicketTypes \cup {NoRow}]
          /\ resQty' \in [Reservations -> 0 .. MaxQty]
          /\ lapsed' \subseteq ActiveReservations'
      BY DEF ReservationStatus, Units, ActiveReservations
    <2>4. \A x \in Reservations : resStatus'[x] # "none" =>
             resType'[x] \in TicketTypes /\ resQty'[x] \in Units
      OBVIOUS
    <2>5. \A k \in Keys : ordStatus'[k] # "none" =>
             ordRes'[k] \in Reservations /\ resStatus'[ordRes'[k]] # "none"
      OBVIOUS
    <2> QED
      BY <2>1, <2>2, <2>3, <2>4, <2>5
  <1>2. ASSUME NEW r \in Reservations, CancelReservation(r)
        PROVE  TypeOK'
    <2> USE <1>2 DEF CancelReservation, WriteCancel, ordVars
    <2>1. held' \in [TicketTypes -> Nat]
      BY DEF CheckConstraints, Units
    <2>2. audit' \subseteq AuditEntries
      BY DEF AuditEntries
    <2>3. /\ resStatus' \in [Reservations -> ReservationStatus \cup {"none"}]
          /\ lapsed' \subseteq ActiveReservations'
      BY DEF ReservationStatus, ActiveReservations
    <2>4. \A k \in Keys : ordStatus'[k] # "none" =>
             ordRes'[k] \in Reservations /\ resStatus'[ordRes'[k]] # "none"
      OBVIOUS
    <2> QED
      BY <2>1, <2>2, <2>3, <2>4
  <1>3. ASSUME NEW S \in SUBSET Reservations, SweepExpired(S)
        PROVE  TypeOK'
    <2> USE <1>3 DEF SweepExpired, WriteExpiry, ordVars
    <2>1. held' \in [TicketTypes -> Nat]
      <3>1. \A t \in TicketTypes : Cardinality(UnitsOf(S, t)) \in Nat
        BY UnitsFinite
      <3> QED
        BY <3>1 DEF CheckConstraints
    <2>2. audit' \subseteq AuditEntries
      BY DEF AuditEntries
    <2>3. /\ resStatus' \in [Reservations -> ReservationStatus \cup {"none"}]
          /\ lapsed' \subseteq ActiveReservations'
      BY DEF ReservationStatus, ActiveReservations
    <2>4. \A x \in Reservations : resStatus'[x] # "none" => resStatus[x] # "none"
      BY DEF ActiveReservations
    <2>5. \A k \in Keys : ordStatus'[k] # "none" =>
             ordRes'[k] \in Reservations /\ resStatus'[ordRes'[k]] # "none"
      OBVIOUS
    <2> QED
      BY <2>1, <2>2, <2>3, <2>4, <2>5
  <1>4. ASSUME NEW r \in Reservations, NEW k \in Keys, LateSale(r, k)
        PROVE  TypeOK'
    BY <1>4, SaleKeepsType DEF LateSale
  <1>5. ASSUME NEW r \in Reservations, NEW k \in Keys, LateDecline(r, k)
        PROVE  TypeOK'
    BY <1>5, DeclineKeepsType DEF LateDecline
  <1>6. ASSUME NEW r \in Reservations, NEW k \in Keys, PurchaseDuplicate(r, k)
        PROVE  TypeOK'
    BY <1>6 DEF PurchaseDuplicate, WriteCollision, typeVars, resVars, ordVars,
       AuditEntries, ActiveReservations
  <1>7. ASSUME NEW k \in Keys, NEW ids \in SUBSET TicketCells, IssueRefund(k, ids)
        PROVE  TypeOK'
    <2> DEFINE T == RefundTargets(k, ids)
    <2>0. /\ T \subseteq activeTickets
          /\ T \subseteq TicketCells
          /\ Cardinality(T) \in Nat
      BY TargetsType
    <2> HIDE DEF T
    <2> USE DEF resVars
    <2>1. /\ WriteRefund(k, T)
          /\ ordStatus[k] \in {"confirmed", "partially_refunded"}
      BY <1>7 DEF IssueRefund, MayRefund, T
    <2>2. sold' \in [TicketTypes -> Nat]
      <3> DEFINE t == OrderType(k)
                 n == Cardinality(T)
      <3>1. /\ sold' = [sold EXCEPT ![t] = @ - n]
            /\ sold[t] - n >= 0
            /\ n \in Nat
        BY <2>0, <2>1 DEF WriteRefund, CheckConstraints
      <3> HIDE DEF t, n
      <3>2. sold \in [TicketTypes -> Nat]
        OBVIOUS
      <3> QED
        BY <3>1, <3>2, CounterLowered, Zenon
    <2>3. audit' \subseteq AuditEntries
      BY <2>0, <2>1 DEF WriteRefund, AuditEntries
    <2>4. ordStatus' \in [Keys -> OrderStatus \cup {"none"}]
      BY <2>1 DEF WriteRefund, OrderStatus
    <2>5. /\ activeTickets' \subseteq TicketCells
          /\ refundedTickets' \subseteq TicketCells
          /\ refunds' \in [TicketCells -> Nat]
      BY <2>0, <2>1 DEF WriteRefund
    <2>6. /\ UNCHANGED <<capacity, held, onSale, paused, resStatus, resType,
                         resQty, lapsed, ordRes>>
          /\ \A x \in Keys : ordStatus'[x] # "none" => ordStatus[x] # "none"
      BY <2>1 DEF WriteRefund
    <2>7. lapsed' \subseteq ActiveReservations'
      BY <2>6 DEF ActiveReservations
    <2>8. /\ \A x \in Reservations : resStatus'[x] # "none" =>
                resType'[x] \in TicketTypes /\ resQty'[x] \in Units
          /\ \A x \in Keys : ordStatus'[x] # "none" =>
                ordRes'[x] \in Reservations /\ resStatus'[ordRes'[x]] # "none"
      BY <2>6
    <2>9. /\ capacity' \in [TicketTypes -> Nat]
          /\ held' \in [TicketTypes -> Nat]
          /\ onSale' \in [TicketTypes -> BOOLEAN]
          /\ paused' \in [Events -> BOOLEAN]
          /\ resStatus' \in [Reservations -> ReservationStatus \cup {"none"}]
          /\ resType' \in [Reservations -> TicketTypes \cup {NoRow}]
          /\ resQty' \in [Reservations -> 0 .. MaxQty]
          /\ ordRes' \in [Keys -> Reservations \cup {NoRow}]
      BY <2>6
    <2> QED
      BY <2>2, <2>3, <2>4, <2>5, <2>7, <2>8, <2>9, Zenon
  <1>8. ASSUME NEW e \in Events, PauseSales(e) \/ ResumeSales(e)
        PROVE  TypeOK'
    <2>1. paused' \in [Events -> BOOLEAN]
      BY <1>8 DEF PauseSales, ResumeSales
    <2>2. UNCHANGED <<capacity, sold, held, onSale, resVars, ordVars, audit>>
      BY <1>8 DEF PauseSales, ResumeSales
    <2>3. ActiveReservations' = ActiveReservations
      BY <2>2 DEF resVars, ActiveReservations
    <2> QED
      BY <2>1, <2>2, <2>3 DEF resVars, ordVars
  <1>9. ASSUME NEW t \in TicketTypes, NEW c \in 0 .. MaxCapacity,
               NEW s \in BOOLEAN, AdminSaveTicketType(t, c, s)
        PROVE  TypeOK'
    BY <1>9 DEF AdminSaveTicketType, resVars, ordVars, ActiveReservations
  <1>10. ASSUME NEW r \in Reservations, Lapse(r)
         PROVE  TypeOK'
    BY <1>10 DEF Lapse, typeVars, ordVars, ActiveReservations
  <1>11. CASE UNCHANGED vars
    BY <1>11 DEF vars, typeVars, resVars, ordVars, ActiveReservations
  <1> QED
    BY <1>1, <1>2, <1>3, <1>4, <1>5, <1>6, <1>7, <1>8, <1>9, <1>10, <1>11
       DEF LateNext

\* Every reachable state is well typed, and no reservation or order is left
\* pointing at a row that does not exist.
THEOREM TypeCorrect == Spec => []TypeOK
  BY TypeInit, TypeStep, NextIsLate, PTL DEF Spec
-----------------------------------------------------------------------------
(* How each kind of step moves the two counts of core/reconciliation.py.   *)

\* Reservations that stop being active give their units back.
LEMMA HeldReleased ==
  ASSUME NEW S \in SUBSET ActiveReservations,
         ActiveReservations' = ActiveReservations \ S,
         resType' = resType, resQty' = resQty,
         NEW t
  PROVE  ActualHeld(t)' = ActualHeld(t) - Cardinality(UnitsOf(S, t))
  <1>1. ActiveReservations \in SUBSET Reservations
    BY DEF ActiveReservations
  <1>2. ActualHeld(t)' = Cardinality(UnitsOf(ActiveReservations \ S, t))
    <2>1. UnitsOf(ActiveReservations, t)' = UnitsOf(ActiveReservations \ S, t)
      BY DEF UnitsOf
    <2> QED
      BY <2>1, Zenon DEF ActualHeld
  <1>3. Cardinality(UnitsOf(ActiveReservations \ S, t))
           = Cardinality(UnitsOf(ActiveReservations, t))
                - Cardinality(UnitsOf(S, t))
    BY <1>1, UnitsRemoved
  <1> QED
    BY <1>2, <1>3, Zenon DEF ActualHeld

\* The tickets out of a type stay the same when none is issued or taken back
\* and no order that exists changes its ticket type.
LEMMA SoldUnchanged ==
  ASSUME TypeOK, TicketsBelong,
         activeTickets' = activeTickets,
         \A k \in Keys : ordStatus[k] # "none" =>
            resType'[ordRes'[k]] = resType[ordRes[k]],
         NEW t
  PROVE  ActualSold(t)' = ActualSold(t)
  <1>1. \A x \in activeTickets : x[1] \in Keys /\ ordStatus[x[1]] # "none"
    BY DEF TypeOK, TicketsBelong, TicketCells
  <1>2. SoldCells(t)' = SoldCells(t)
    BY <1>1 DEF SoldCells, OrderType
  <1> QED
    BY <1>2, Zenon DEF ActualSold

\* Adding the first q pairs of something a set has no pair of adds q.
LEMMA PairsAdded ==
  ASSUME NEW C, IsFiniteSet(C), NEW x, NEW q \in Nat,
         C \cap ({x} \X (1 .. q)) = {}
  PROVE  Cardinality(C \cup ({x} \X (1 .. q))) = Cardinality(C) + q
  <1>1. /\ IsFiniteSet(1 .. q)
        /\ Cardinality(1 .. q) = q
    BY FS_Interval
  <1>2. IsFiniteSet({x}) /\ Cardinality({x}) = 1
    BY FS_Singleton
  <1>3. /\ IsFiniteSet({x} \X (1 .. q))
        /\ Cardinality({x} \X (1 .. q)) = 1 * q
    <2> DEFINE X == {x}
               Q == 1 .. q
    <2>1. /\ IsFiniteSet(X) /\ Cardinality(X) = 1
          /\ IsFiniteSet(Q) /\ Cardinality(Q) = q
      BY <1>1, <1>2
    <2> HIDE DEF X, Q
    <2>2. /\ IsFiniteSet(X \X Q)
          /\ Cardinality(X \X Q) = Cardinality(X) * Cardinality(Q)
      BY <2>1, FS_Product
    <2>3. /\ IsFiniteSet(X \X Q)
          /\ Cardinality(X \X Q) = 1 * q
      BY <2>1, <2>2
    <2> QED
      BY <2>3, Zenon DEF X, Q
  <1> DEFINE D == {x} \X (1 .. q)
  <1> HIDE DEF D
  <1>4. IsFiniteSet(D) /\ Cardinality(D) = q /\ C \cap D = {}
    BY <1>3 DEF D
  <1>5. Cardinality(C \cup D)
           = Cardinality(C) + Cardinality(D) - Cardinality(C \cap D)
    BY <1>4, FS_Union
  <1>6. Cardinality(C \cap D) = 0
    BY <1>4, FS_EmptySet
  <1>7. Cardinality(C) \in Nat
    BY FS_CardinalityType
  <1>8. Cardinality(C \cup D) = Cardinality(C) + q
    BY <1>4, <1>5, <1>6, <1>7
  <1> QED
    BY <1>8 DEF D

-----------------------------------------------------------------------------
(* Each transaction preserves the inductive invariant.                     *)

\* A new hold raises held by its quantity, and sells nothing.
LEMMA CreateKeepsCounters ==
  ASSUME TypeOK, TicketsBelong, NEW u \in TicketTypes, Agrees(u),
         NEW r \in Reservations, NEW t \in TicketTypes, NEW q \in Units,
         CreateReservation(r, t, q)
  PROVE  Agrees(u)'
  <1> USE CreateReservation(r, t, q), ConstantsAssumption
  <1>0. /\ TypeOK /\ TicketsBelong
        /\ sold[u] = ActualSold(u) /\ held[u] = ActualHeld(u)
    BY DEF Agrees
  <1>1. sold'[u] = ActualSold(u)'
    <2>1. \A k \in Keys : ordStatus[k] # "none" =>
             resType'[ordRes'[k]] = resType[ordRes[k]]
      BY <1>0 DEF CreateReservation, WriteHold, ordVars, TypeOK
    <2>2. activeTickets' = activeTickets /\ sold' = sold
      BY DEF CreateReservation, WriteHold, ordVars
    <2>3. ActualSold(u)' = ActualSold(u)
      BY <1>0, <2>1, <2>2, SoldUnchanged
    <2> QED
      BY <1>0, <2>2, <2>3, Zenon
  <1>2. held'[u] = ActualHeld(u)'
    <2> DEFINE A == UnitsOf(ActiveReservations, u)
    <2>1. /\ r \notin ActiveReservations
          /\ ActiveReservations' = ActiveReservations \cup {r}
          /\ resType'[r] = t /\ resQty'[r] = q
          /\ \A x \in Reservations \ {r} :
                resType'[x] = resType[x] /\ resQty'[x] = resQty[x]
      BY <1>0 DEF CreateReservation, WriteHold, ActiveReservations, TypeOK
    <2>2. CASE u = t
      <3>1. UnitsOf(ActiveReservations, u)' = A \cup ({r} \X (1 .. q))
        BY <2>1, <2>2 DEF UnitsOf, Units, ActiveReservations
      <3>2. A \cap ({r} \X (1 .. q)) = {}
        BY <2>1 DEF UnitsOf
      <3>3. IsFiniteSet(A) /\ Cardinality(A) \in Nat
        <4>1. ActiveReservations \in SUBSET Reservations
          BY DEF ActiveReservations
        <4> QED
          BY <4>1, UnitsFinite
      <3>4. q \in Nat
        BY DEF Units
      <3>5. Cardinality(A \cup ({r} \X (1 .. q))) = Cardinality(A) + q
        BY <3>2, <3>3, <3>4, PairsAdded
      <3>6. ActualHeld(u)' = ActualHeld(u) + q
        BY <3>1, <3>5, Zenon DEF ActualHeld
      <3>7. held'[u] = held[u] + q
        BY <1>0, <2>2 DEF CreateReservation, WriteHold, TypeOK
      <3> QED
        BY <1>0, <3>6, <3>7, Zenon
    <2>3. CASE u # t
      <3>1. UnitsOf(ActiveReservations, u)' = A
        BY <2>1, <2>3 DEF UnitsOf, Units, ActiveReservations
      <3>2. held'[u] = held[u]
        BY <1>0, <2>3 DEF CreateReservation, WriteHold, TypeOK
      <3> QED
        BY <1>0, <3>1, <3>2, Zenon DEF ActualHeld
    <2> QED
      BY <2>2, <2>3
  <1> QED
    BY <1>1, <1>2 DEF Agrees

\* Cancelling gives back exactly the reservation's own units.
LEMMA CancelKeepsCounters ==
  ASSUME TypeOK, TicketsBelong, NEW u \in TicketTypes, Agrees(u),
         NEW r \in Reservations, CancelReservation(r)
  PROVE  Agrees(u)'
  <1> USE CancelReservation(r), ConstantsAssumption
  <1>0. /\ TypeOK /\ TicketsBelong
        /\ sold[u] = ActualSold(u) /\ held[u] = ActualHeld(u)
    BY DEF Agrees
  <1>1. /\ activeTickets' = activeTickets /\ sold' = sold
        /\ ordRes' = ordRes /\ resType' = resType /\ resQty' = resQty
        /\ {r} \in SUBSET ActiveReservations
        /\ ActiveReservations' = ActiveReservations \ {r}
    BY <1>0 DEF CancelReservation, WriteCancel, ordVars, ActiveReservations, TypeOK
  <1>2. sold'[u] = ActualSold(u)'
    <2>1. ActualSold(u)' = ActualSold(u)
      BY <1>0, <1>1, SoldUnchanged
    <2> QED
      BY <1>0, <1>1, <2>1, Zenon
  <1>3. held'[u] = ActualHeld(u)'
    <2>1. ActualHeld(u)' = ActualHeld(u) - Cardinality(UnitsOf({r}, u))
      BY <1>1, HeldReleased
    <2>2. Cardinality(UnitsOf({r}, u)) = IF resType[r] = u THEN resQty[r] ELSE 0
      BY <1>0, UnitsOfOne DEF TypeOK
    <2>3. held'[u] = held[u] - (IF resType[r] = u THEN resQty[r] ELSE 0)
      BY <1>0 DEF CancelReservation, WriteCancel, TypeOK
    <2> QED
      BY <1>0, <2>1, <2>2, <2>3, Zenon
  <1> QED
    BY <1>2, <1>3 DEF Agrees

\* The sweep gives back the units of all it expires, however many share a
\* ticket type.
LEMMA SweepKeepsCounters ==
  ASSUME TypeOK, TicketsBelong, NEW u \in TicketTypes, Agrees(u),
         NEW S \in SUBSET Reservations, SweepExpired(S)
  PROVE  Agrees(u)'
  <1> USE SweepExpired(S), ConstantsAssumption
  <1>0. /\ TypeOK /\ TicketsBelong
        /\ sold[u] = ActualSold(u) /\ held[u] = ActualHeld(u)
    BY DEF Agrees
  <1>1. /\ activeTickets' = activeTickets /\ sold' = sold
        /\ ordRes' = ordRes /\ resType' = resType /\ resQty' = resQty
        /\ S \in SUBSET ActiveReservations
        /\ ActiveReservations' = ActiveReservations \ S
    BY <1>0 DEF SweepExpired, WriteExpiry, ordVars, ActiveReservations, TypeOK
  <1>2. sold'[u] = ActualSold(u)'
    <2>1. ActualSold(u)' = ActualSold(u)
      BY <1>0, <1>1, SoldUnchanged
    <2> QED
      BY <1>0, <1>1, <2>1, Zenon
  <1>3. held'[u] = ActualHeld(u)'
    <2>1. ActualHeld(u)' = ActualHeld(u) - Cardinality(UnitsOf(S, u))
      BY <1>1, HeldReleased
    <2>2. held'[u] = held[u] - Cardinality(UnitsOf(S, u))
      BY DEF SweepExpired, WriteExpiry
    <2> QED
      BY <1>0, <2>1, <2>2, Zenon
  <1> QED
    BY <1>2, <1>3 DEF Agrees

\* A sale moves the reservation's units from held to sold and issues as many
\* tickets, of a key that had none.
LEMMA SaleKeepsCounters ==
  ASSUME TypeOK, TicketsBelong, NEW u \in TicketTypes, Agrees(u),
         NEW r \in Reservations, NEW k \in Keys,
         resStatus[r] = "active", ordStatus[k] = "none", WriteSale(r, k)
  PROVE  Agrees(u)'
  <1> USE WriteSale(r, k), ConstantsAssumption
  <1>0. /\ TypeOK /\ TicketsBelong
        /\ sold[u] = ActualSold(u) /\ held[u] = ActualHeld(u)
    BY DEF Agrees
  <1> DEFINE q == resQty[r]
  <1>1. /\ resStatus[r] = "active" /\ ordStatus[k] = "none"
        /\ resType' = resType /\ resQty' = resQty
        /\ {r} \in SUBSET ActiveReservations
        /\ ActiveReservations' = ActiveReservations \ {r}
        /\ resType[r] \in TicketTypes /\ q \in Nat
    BY <1>0 DEF WriteSale, ActiveReservations,
       TypeOK, Units
  <1>2. held'[u] = ActualHeld(u)'
    <2>1. ActualHeld(u)' = ActualHeld(u) - Cardinality(UnitsOf({r}, u))
      BY <1>1, HeldReleased
    <2>2. Cardinality(UnitsOf({r}, u)) = IF resType[r] = u THEN resQty[r] ELSE 0
      BY <1>0, UnitsOfOne DEF TypeOK
    <2>3. held'[u] = held[u] - (IF resType[r] = u THEN resQty[r] ELSE 0)
      BY <1>0, <1>1 DEF WriteSale, TypeOK
    <2> QED
      BY <1>0, <2>1, <2>2, <2>3, Zenon
  <1>3. sold'[u] = ActualSold(u)'
    <2> DEFINE C == SoldCells(u)
    <2>1. \A x \in activeTickets :
             x \in TicketCells /\ x[1] \in Keys \ {k} /\ x[2] \in Units
      BY <1>0, <1>1 DEF TypeOK, TicketsBelong, TicketCells
    <2>2. /\ activeTickets' = activeTickets \cup ({k} \X (1 .. q))
          /\ ordRes'[k] = r
          /\ \A j \in Keys \ {k} : ordRes'[j] = ordRes[j]
      BY <1>0 DEF WriteSale, TypeOK
    <2>3. CASE resType[r] = u
      <3>1. SoldCells(u)' = C \cup ({k} \X (1 .. q))
        BY <1>1, <2>1, <2>2, <2>3 DEF SoldCells, OrderType
      <3>2. C \cap ({k} \X (1 .. q)) = {}
        BY <2>1 DEF SoldCells
      <3>3. IsFiniteSet(C)
        BY <1>0, SoldFinite
      <3>4. Cardinality(C \cup ({k} \X (1 .. q))) = Cardinality(C) + q
        BY <1>1, <3>2, <3>3, PairsAdded
      <3>5. ActualSold(u)' = ActualSold(u) + q
        BY <3>1, <3>4, Zenon DEF ActualSold
      <3>6. sold'[u] = sold[u] + q
        BY <1>0, <2>3 DEF WriteSale, TypeOK
      <3> QED
        BY <1>0, <3>5, <3>6, Zenon
    <2>4. CASE resType[r] # u
      <3>1. SoldCells(u)' = C
        BY <1>1, <2>1, <2>2, <2>4 DEF SoldCells, OrderType
      <3>2. sold'[u] = sold[u]
        BY <1>0, <2>4 DEF WriteSale, TypeOK
      <3> QED
        BY <1>0, <3>1, <3>2, Zenon DEF ActualSold
    <2> QED
      BY <2>3, <2>4
  <1> QED
    BY <1>2, <1>3 DEF Agrees

\* A refund takes back as many tickets as it takes from sold, all of one type.
LEMMA RefundKeepsCounters ==
  ASSUME TypeOK, TicketsBelong, NEW u \in TicketTypes, Agrees(u),
         NEW k \in Keys, NEW ids \in SUBSET TicketCells,
         IssueRefund(k, ids)
  PROVE  Agrees(u)'
  <1> USE ConstantsAssumption
  <1>0. /\ TypeOK /\ TicketsBelong
        /\ sold[u] = ActualSold(u) /\ held[u] = ActualHeld(u)
    BY DEF Agrees
  <1> DEFINE T == RefundTargets(k, ids)
             t == OrderType(k)
             n == Cardinality(T)
  <1>1. /\ T \subseteq activeTickets
        /\ \A x \in T : x[1] = k
        /\ n \in Nat
    BY <1>0, TargetsType
  <1>2. WriteRefund(k, T)
    BY IssueRefund(k, ids) DEF IssueRefund
  <1> HIDE DEF T
  <1>3. /\ activeTickets' = activeTickets \ T
        /\ held' = held /\ ordRes' = ordRes
        /\ resStatus' = resStatus /\ resType' = resType /\ resQty' = resQty
        /\ sold' = [sold EXCEPT ![t] = @ - n]
    BY <1>2 DEF WriteRefund, resVars
  <1>4. held'[u] = ActualHeld(u)'
    <2>1. UnitsOf(ActiveReservations, u)' = UnitsOf(ActiveReservations, u)
      BY <1>3 DEF UnitsOf, ActiveReservations
    <2> QED
      BY <1>0, <1>3, <2>1, Zenon DEF ActualHeld
  <1>5. sold'[u] = ActualSold(u)'
    <2> DEFINE C == SoldCells(u)
    <2>1. CASE u = t
      <3>1. SoldCells(u)' = C \ T
        BY <1>3 DEF SoldCells, OrderType
      <3>2. C \cap T = T
        BY <1>1, <2>1 DEF SoldCells, OrderType
      <3>3. IsFiniteSet(C)
        BY <1>0, SoldFinite
      <3>4. Cardinality(C \ T) = Cardinality(C) - Cardinality(C \cap T)
        BY <3>3, FS_Difference
      <3>5. ActualSold(u)' = ActualSold(u) - n
        BY <3>1, <3>2, <3>4, Zenon DEF ActualSold
      <3> HIDE DEF t, n
      <3>6. sold'[u] = sold[u] - n
        BY <1>0, <1>3, <2>1 DEF TypeOK
      <3> QED
        BY <1>0, <3>5, <3>6, Zenon
    <2>2. CASE u # t
      <3>1. SoldCells(u)' = C
        BY <1>1, <1>3, <2>2 DEF SoldCells, OrderType
      <3> HIDE DEF t, n
      <3>2. sold'[u] = sold[u]
        BY <1>0, <1>3, <2>2 DEF TypeOK
      <3> QED
        BY <1>0, <3>1, <3>2, Zenon DEF ActualSold
    <2> QED
      BY <2>1, <2>2
  <1> QED
    BY <1>4, <1>5 DEF Agrees

\* No other step touches what the two counts or the counters look at.
LEMMA RestKeepsCounters ==
  ASSUME TypeOK, TicketsBelong, NEW u \in TicketTypes, Agrees(u),
         UNCHANGED <<sold, held, resStatus, resType, resQty, activeTickets>>,
         \A k \in Keys : ordStatus[k] # "none" => ordRes'[k] = ordRes[k]
  PROVE  Agrees(u)'
  <1>0. /\ TypeOK /\ TicketsBelong
        /\ sold[u] = ActualSold(u) /\ held[u] = ActualHeld(u)
    BY DEF Agrees
  <1>1. \A k \in Keys : ordStatus[k] # "none" =>
           resType'[ordRes'[k]] = resType[ordRes[k]]
    OBVIOUS
  <1>2. ActualSold(u)' = ActualSold(u)
    BY <1>0, <1>1, SoldUnchanged
  <1>3. UnitsOf(ActiveReservations, u)' = UnitsOf(ActiveReservations, u)
    BY DEF UnitsOf, ActiveReservations
  <1>4. ActualHeld(u)' = ActualHeld(u)
    BY <1>3, Zenon DEF ActualHeld
  <1> QED
    BY <1>0, <1>2, <1>4, Zenon DEF Agrees

\* Every step preserves the agreement of counters and rows, of each ticket
\* type for itself: the other ticket types may be adrift.
LEMMA StepKeepsAgreement ==
  ASSUME TypeOK, TicketsBelong, NEW u \in TicketTypes, Agrees(u), [LateNext]_vars
  PROVE  Agrees(u)'
  <1>1. ASSUME NEW r \in Reservations, NEW t \in TicketTypes, NEW q \in Units,
               CreateReservation(r, t, q)
        PROVE  Agrees(u)'
    BY <1>1, CreateKeepsCounters
  <1>2. ASSUME NEW r \in Reservations, CancelReservation(r)
        PROVE  Agrees(u)'
    BY <1>2, CancelKeepsCounters
  <1>3. ASSUME NEW S \in SUBSET Reservations, SweepExpired(S)
        PROVE  Agrees(u)'
    BY <1>3, SweepKeepsCounters
  <1>4. ASSUME NEW r \in Reservations, NEW k \in Keys, LateSale(r, k)
        PROVE  Agrees(u)'
    BY <1>4, SaleKeepsCounters DEF LateSale
  <1>5. ASSUME NEW r \in Reservations, NEW k \in Keys, LateDecline(r, k)
        PROVE  Agrees(u)'
    <2>1. \A j \in Keys : ordStatus[j] # "none" => ordRes'[j] = ordRes[j]
      BY <1>5 DEF LateDecline, WriteDecline, TypeOK
    <2>2. UNCHANGED <<sold, held, resStatus, resType, resQty, activeTickets>>
      BY <1>5 DEF LateDecline, WriteDecline, typeVars, resVars
    <2> QED
      BY <2>1, <2>2, RestKeepsCounters
  <1>6. ASSUME NEW r \in Reservations, NEW k \in Keys, PurchaseDuplicate(r, k)
        PROVE  Agrees(u)'
    BY <1>6, RestKeepsCounters
       DEF PurchaseDuplicate, WriteCollision, typeVars, resVars, ordVars
  <1>7. ASSUME NEW k \in Keys, NEW ids \in SUBSET TicketCells, IssueRefund(k, ids)
        PROVE  Agrees(u)'
    BY <1>7, RefundKeepsCounters
  <1>8. ASSUME NEW e \in Events, PauseSales(e) \/ ResumeSales(e)
        PROVE  Agrees(u)'
    BY <1>8, RestKeepsCounters DEF PauseSales, ResumeSales, resVars, ordVars
  <1>9. ASSUME NEW t \in TicketTypes, NEW c \in 0 .. MaxCapacity,
               NEW s \in BOOLEAN, AdminSaveTicketType(t, c, s)
        PROVE  Agrees(u)'
    BY <1>9, RestKeepsCounters DEF AdminSaveTicketType, resVars, ordVars
  <1>10. ASSUME NEW r \in Reservations, Lapse(r)
         PROVE  Agrees(u)'
    BY <1>10, RestKeepsCounters DEF Lapse, typeVars, ordVars
  <1>11. CASE UNCHANGED vars
    BY <1>11, RestKeepsCounters DEF vars, typeVars, resVars, ordVars
  <1> QED
    BY <1>1, <1>2, <1>3, <1>4, <1>5, <1>6, <1>7, <1>8, <1>9, <1>10, <1>11
       DEF LateNext

\* Every transaction moves the counters as it moves the rows.
LEMMA StepKeepsCounters == Inv /\ [LateNext]_vars => CountersMatchRows'
  <1> SUFFICES ASSUME Inv, [LateNext]_vars, NEW u \in TicketTypes
               PROVE  Agrees(u)'
    BY DEF CountersMatchRows, Agrees
  <1>1. TypeOK /\ TicketsBelong /\ Agrees(u)
    BY DEF Inv, CountersMatchRows, Agrees
  <1> QED
    BY <1>1, StepKeepsAgreement

\* The CHECK constraint holds of every row the steps leave behind.
LEMMA StepKeepsCapacity ==
  Inv /\ [LateNext]_vars => CountersWithinCapacity'
  <1> SUFFICES ASSUME Inv, [LateNext]_vars, NEW u \in TicketTypes
               PROVE  sold'[u] <= capacity'[u] - held'[u]
    BY DEF CountersWithinCapacity
  <1>0. TypeOK /\ sold[u] <= capacity[u] - held[u]
    BY DEF Inv, CountersWithinCapacity
  <1> DEFINE Goal == sold'[u] <= capacity'[u] - held'[u]
  <1>1. ASSUME NEW r \in Reservations, NEW t \in TicketTypes, NEW q \in Units,
               CreateReservation(r, t, q)
        PROVE  Goal
    BY <1>0, <1>1 DEF CreateReservation, WriteHold, CheckConstraints, TypeOK
  <1>2. ASSUME NEW r \in Reservations, CancelReservation(r)
        PROVE  Goal
    BY <1>0, <1>2 DEF CancelReservation, WriteCancel, CheckConstraints, TypeOK
  <1>3. ASSUME NEW S \in SUBSET Reservations, SweepExpired(S)
        PROVE  Goal
    BY <1>0, <1>3 DEF SweepExpired, WriteExpiry, CheckConstraints, TypeOK
  <1>4. ASSUME NEW r \in Reservations, NEW k \in Keys, LateSale(r, k)
        PROVE  Goal
    BY <1>0, <1>4 DEF LateSale, WriteSale, CheckConstraints, TypeOK
  <1>5. ASSUME NEW r \in Reservations, NEW k \in Keys,
               LateDecline(r, k) \/ PurchaseDuplicate(r, k)
        PROVE  Goal
    BY <1>0, <1>5 DEF LateDecline, WriteDecline, PurchaseDuplicate,
       WriteCollision, typeVars
  <1>6. ASSUME NEW k \in Keys, NEW ids \in SUBSET TicketCells, IssueRefund(k, ids)
        PROVE  Goal
    <2> DEFINE t == OrderType(k)
               n == Cardinality(RefundTargets(k, ids))
    <2>1. n \in Nat
      BY <1>0, TargetsType
    <2>2. sold' = [sold EXCEPT ![t] = @ - n] /\ UNCHANGED <<capacity, held>>
      BY <1>6 DEF IssueRefund, WriteRefund
    <2> HIDE DEF t, n
    <2>3. sold'[u] = sold[u] \/ sold'[u] = sold[u] - n
      BY <1>0, <2>2 DEF TypeOK
    <2> QED
      BY <1>0, <2>1, <2>2, <2>3 DEF TypeOK
  <1>7. ASSUME NEW e \in Events, PauseSales(e) \/ ResumeSales(e)
        PROVE  Goal
    BY <1>0, <1>7 DEF PauseSales, ResumeSales
  <1>8. ASSUME NEW t \in TicketTypes, NEW c \in 0 .. MaxCapacity,
               NEW s \in BOOLEAN, AdminSaveTicketType(t, c, s)
        PROVE  Goal
    BY <1>0, <1>8 DEF AdminSaveTicketType, CheckConstraints, TypeOK
  <1>9. ASSUME NEW r \in Reservations, Lapse(r)
        PROVE  Goal
    BY <1>0, <1>9 DEF Lapse, typeVars
  <1>10. CASE UNCHANGED vars
    BY <1>0, <1>10 DEF vars, typeVars
  <1> QED
    BY <1>1, <1>2, <1>3, <1>4, <1>5, <1>6, <1>7, <1>8, <1>9, <1>10 DEF LateNext

\* Tickets are only issued to a key that becomes confirmed and had none, and
\* only tickets that are out come back.
LEMMA StepKeepsBelonging ==
  ASSUME TypeOK, TicketsBelong, [LateNext]_vars
  PROVE  TicketsBelong'
  <1>1. ASSUME UNCHANGED <<activeTickets, refundedTickets>>,
               \A k \in Keys : ordStatus[k] # "none" => ordStatus'[k] = ordStatus[k]
        PROVE  TicketsBelong'
    BY <1>1 DEF TicketsBelong, TypeOK, TicketCells
  <1>2. ASSUME NEW r \in Reservations, NEW k \in Keys, LateSale(r, k)
        PROVE  TicketsBelong'
    <2>1. /\ activeTickets' = activeTickets \cup ({k} \X (1 .. resQty[r]))
          /\ refundedTickets' = refundedTickets
          /\ ordStatus[k] = "none"
          /\ ordStatus' = [ordStatus EXCEPT ![k] = "confirmed"]
      BY <1>2 DEF LateSale, WriteSale
    <2>2. \A x \in activeTickets \cup refundedTickets : x[1] \in Keys \ {k}
      BY <2>1 DEF TicketsBelong, TypeOK, TicketCells
    <2> QED
      BY <2>1, <2>2 DEF TicketsBelong, TypeOK
  <1>3. ASSUME NEW r \in Reservations, NEW k \in Keys, LateDecline(r, k)
        PROVE  TicketsBelong'
    BY <1>1, <1>3 DEF LateDecline, WriteDecline, TypeOK
  <1>4. ASSUME NEW k \in Keys, NEW ids \in SUBSET TicketCells, IssueRefund(k, ids)
        PROVE  TicketsBelong'
    <2> DEFINE T == RefundTargets(k, ids)
    <2>1. T \subseteq activeTickets
      BY TargetsType
    <2>2. WriteRefund(k, T)
      BY <1>4 DEF IssueRefund
    <2> HIDE DEF T
    <2>3. /\ activeTickets' = activeTickets \ T
          /\ refundedTickets' = refundedTickets \cup T
          /\ \A j \in Keys : \/ ordStatus'[j] = ordStatus[j]
                             \/ ordStatus'[j] \in {"refunded", "partially_refunded"}
      BY <2>2 DEF WriteRefund, TypeOK
    <2> QED
      BY <2>1, <2>3 DEF TicketsBelong, TypeOK, TicketCells
  <1>5. ASSUME UNCHANGED ordVars
        PROVE  TicketsBelong'
    BY <1>1, <1>5 DEF ordVars
  <1>6. CASE UNCHANGED vars
    BY <1>5, <1>6 DEF vars
  <1> QED
    BY <1>2, <1>3, <1>4, <1>5, <1>6
       DEF LateNext, CreateReservation, WriteHold, CancelReservation, WriteCancel,
           SweepExpired, WriteExpiry, PurchaseDuplicate, WriteCollision,
           PauseSales, ResumeSales, AdminSaveTicketType, Lapse

\* A ticket is in one Refund row if it was refunded, and in none otherwise.
PaidBackOnce(x) == refunds[x] = IF x \in refundedTickets THEN 1 ELSE 0

\* A ticket that comes back was out, and so was in no Refund row.
LEMMA StepKeepsPaidBack ==
  ASSUME TypeOK, TicketsBelong, [LateNext]_vars,
         NEW x \in TicketCells, PaidBackOnce(x)
  PROVE  PaidBackOnce(x)'
  <1>1. ASSUME UNCHANGED <<refundedTickets, refunds>>
        PROVE  PaidBackOnce(x)'
    BY <1>1 DEF PaidBackOnce
  <1>2. ASSUME NEW k \in Keys, NEW ids \in SUBSET TicketCells, IssueRefund(k, ids)
        PROVE  PaidBackOnce(x)'
    <2> DEFINE T == RefundTargets(k, ids)
    <2>1. T \subseteq activeTickets
      BY TargetsType
    <2>2. WriteRefund(k, T)
      BY <1>2 DEF IssueRefund
    <2> HIDE DEF T
    <2>3. x \in T => x \notin refundedTickets
      BY <2>1 DEF TicketsBelong
    <2> QED
      BY <2>2, <2>3 DEF WriteRefund, PaidBackOnce
  <1>3. CASE UNCHANGED vars
    BY <1>1, <1>3 DEF vars, ordVars
  <1> QED
    BY <1>1, <1>2, <1>3
       DEF LateNext, CreateReservation, WriteHold, CancelReservation, WriteCancel,
           SweepExpired, WriteExpiry, LateSale, WriteSale,
           LateDecline, WriteDecline, PurchaseDuplicate, WriteCollision,
           PauseSales, ResumeSales, AdminSaveTicketType, Lapse, ordVars

\* Every transaction keeps tickets with orders that were paid, and pays each back
\* once.
LEMMA StepKeepsTickets ==
  Inv /\ [LateNext]_vars => TicketsBelong' /\ RefundedOnce'
  <1> SUFFICES ASSUME Inv, [LateNext]_vars
               PROVE  TicketsBelong' /\ RefundedOnce'
    OBVIOUS
  <1>1. TypeOK /\ TicketsBelong /\ \A x \in TicketCells : PaidBackOnce(x)
    BY DEF Inv, RefundedOnce, PaidBackOnce
  <1>2. \A x \in TicketCells : PaidBackOnce(x)'
    BY <1>1, StepKeepsPaidBack
  <1> QED
    BY <1>1, <1>2, StepKeepsBelonging DEF RefundedOnce, PaidBackOnce

-----------------------------------------------------------------------------
(* The inductive invariant, and what follows from it.                      *)

\* The inductive invariant holds before the first reservation.
LEMMA InvInit == Init => Inv
  <1> SUFFICES ASSUME Init
               PROVE  Inv
    OBVIOUS
  <1>1. TypeOK
    BY TypeInit
  <1>2. TicketsBelong /\ RefundedOnce
    BY DEF Init, TicketsBelong, RefundedOnce
  <1>3. CountersWithinCapacity
    BY <1>1 DEF Init, CountersWithinCapacity, TypeOK
  <1>4. CountersMatchRows
    <2> SUFFICES ASSUME NEW t \in TicketTypes
                 PROVE  sold[t] = ActualSold(t) /\ held[t] = ActualHeld(t)
      BY DEF CountersMatchRows
    <2>1. SoldCells(t) = {} /\ UnitsOf(ActiveReservations, t) = {}
      BY DEF Init, SoldCells, UnitsOf, ActiveReservations
    <2>2. ActualSold(t) = 0 /\ ActualHeld(t) = 0
      BY <2>1, FS_EmptySet, Zenon DEF ActualSold, ActualHeld
    <2> QED
      BY <2>2 DEF Init
  <1> QED
    BY <1>1, <1>2, <1>3, <1>4 DEF Inv

\* Every transaction keeps it, also a purchase that commits late.
LEMMA InvStep == Inv /\ [LateNext]_vars => Inv'
  BY TypeStep, StepKeepsTickets, StepKeepsCapacity, StepKeepsCounters DEF Inv

\* The inductive invariant holds of every reachable state.
THEOREM Invariance == Spec => []Inv
  BY InvInit, InvStep, NextIsLate, PTL DEF Spec

\* Zero drift (run_reconciliation never has anything to report): sold is the
\* number of tickets that are out, and held the units of the active
\* reservations, of every ticket type.
THEOREM ZeroDrift == Spec => []CountersMatchRows
  <1>1. Inv => CountersMatchRows
    BY DEF Inv
  <1> QED
    BY <1>1, Invariance, PTL

\* What is out and what is on hold is counted, and the counters fit.
LEMMA InvNoOversell == Inv => NoOversell
  <1> SUFFICES ASSUME Inv, NEW t \in TicketTypes
               PROVE  ActualSold(t) + ActualHeld(t) <= capacity[t]
    BY DEF NoOversell
  <1>1. /\ ActualSold(t) = sold[t] /\ ActualHeld(t) = held[t]
        /\ sold[t] <= capacity[t] - held[t]
        /\ sold[t] \in Nat /\ held[t] \in Nat /\ capacity[t] \in Nat
    BY DEF Inv, CountersMatchRows, CountersWithinCapacity, TypeOK
  <1> QED
    BY <1>1

\* Zero oversell: the tickets out and the units on hold fit the capacity.
THEOREM ZeroOversell == Spec => []NoOversell
  BY InvNoOversell, Invariance, PTL

\* The units of an active reservation are part of held, so they can be sold.
LEMMA InvSettles == Inv => CaptureCanSettle
  <1> SUFFICES ASSUME Inv, NEW r \in ActiveReservations
               PROVE  CheckConstraints(sold[resType[r]] + resQty[r],
                                       held[resType[r]] - resQty[r],
                                       capacity[resType[r]])
    BY DEF CaptureCanSettle
  <1> DEFINE t == resType[r]
             q == resQty[r]
  <1>1. /\ t \in TicketTypes /\ q \in Nat /\ r \in Reservations
        /\ resQty[r] \in 0 .. MaxQty
        /\ sold[t] \in Nat /\ held[t] \in Nat /\ capacity[t] \in Nat
        /\ sold[t] <= capacity[t] - held[t]
        /\ held[t] = Cardinality(UnitsOf(ActiveReservations, t))
    BY ConstantsAssumption DEF Inv, TypeOK, ActiveReservations, Units,
       CountersWithinCapacity, CountersMatchRows, ActualHeld
  <1>2. Cardinality(UnitsOf({r}, t)) = q
    BY <1>1, UnitsOfOne
  <1>3. /\ UnitsOf({r}, t) \in SUBSET UnitsOf(ActiveReservations, t)
        /\ IsFiniteSet(UnitsOf(ActiveReservations, t))
    <2>1. ActiveReservations \in SUBSET Reservations
      BY DEF ActiveReservations
    <2> QED
      BY <2>1, UnitsFinite DEF UnitsOf
  <1>4. Cardinality(UnitsOf({r}, t))
           <= Cardinality(UnitsOf(ActiveReservations, t))
    BY <1>3, FS_Subset
  <1> HIDE DEF t, q
  <1>5. q <= held[t]
    BY <1>1, <1>2, <1>4, Zenon
  <1>6. CheckConstraints(sold[t] + q, held[t] - q, capacity[t])
    BY <1>1, <1>5 DEF CheckConstraints
  <1> QED
    BY <1>6 DEF t, q

\* A captured payment settles: process_purchase's UPDATE of the counters is
\* never refused by the CHECK constraints while the reservation is active.
THEOREM CapturesSettle == Spec => []CaptureCanSettle
  BY InvSettles, Invariance, PTL

\* The tickets a refund selects are among those that are out, and sold counts
\* them.
LEMMA InvRefundsSettle == Inv => RefundCanSettle
  <1> SUFFICES ASSUME Inv, NEW k \in Keys, NEW ids \in SUBSET TicketCells,
                      MayRefund(k, ids)
               PROVE  CheckConstraints(
                         sold[OrderType(k)] - Cardinality(RefundTargets(k, ids)),
                         held[OrderType(k)], capacity[OrderType(k)])
    BY DEF RefundCanSettle
  <1> DEFINE t == OrderType(k)
             n == Cardinality(RefundTargets(k, ids))
  <1>0. TypeOK
    BY DEF Inv
  <1>1. t \in TicketTypes
    BY <1>0 DEF MayRefund, OrderType, TypeOK
  <1>2. /\ sold[t] \in Nat /\ held[t] \in Nat /\ capacity[t] \in Nat
        /\ sold[t] <= capacity[t] - held[t]
        /\ sold[t] = Cardinality(SoldCells(t))
    BY <1>1 DEF Inv, TypeOK, CountersWithinCapacity, CountersMatchRows, ActualSold
  <1>3. /\ RefundTargets(k, ids) \subseteq SoldCells(t)
        /\ n \in Nat
    BY <1>0, TargetsType DEF SoldCells
  <1>4. n <= Cardinality(SoldCells(t))
    BY <1>0, <1>3, SoldFinite, FS_Subset
  <1> HIDE DEF t, n
  <1>5. CheckConstraints(sold[t] - n, held[t], capacity[t])
    BY <1>2, <1>3, <1>4 DEF CheckConstraints
  <1> QED
    BY <1>5 DEF t, n

\* What the provider paid back is recorded: issue_refund's UPDATE of sold is
\* never refused by the CHECK constraints.
THEOREM RefundsSettle == Spec => []RefundCanSettle
  BY InvRefundsSettle, Invariance, PTL

\* No ticket is refunded twice, however the lists of ticket ids overlap.
THEOREM RefundsPayOnce == Spec => []RefundedOnce
  <1>1. Inv => RefundedOnce
    BY DEF Inv
  <1> QED
    BY <1>1, Invariance, PTL

\* EndsForward but for the clock and the kill switch, which a purchase that
\* commits late has looked at before.
RowsStayEnded ==
    /\ \A r \in Reservations :
          /\ resStatus[r] \in {"confirmed", "expired", "cancelled"}
                => resStatus'[r] = resStatus[r]
          /\ resStatus[r] = "active" /\ resStatus'[r] = "expired"
                => r \in lapsed
    /\ \A k \in Keys :
          ordStatus[k] \in {"refunded", "failed"} => ordStatus'[k] = ordStatus[k]
    /\ refundedTickets \subseteq refundedTickets'
    /\ activeTickets' \cap refundedTickets = {}

\* No row that ended comes back, and no hold expires before its time.
LEMMA StepKeepsEnded == Inv /\ [LateNext]_vars => [RowsStayEnded]_vars
  <1> SUFFICES ASSUME Inv, LateNext
               PROVE  RowsStayEnded
    OBVIOUS
  <1>0. TypeOK /\ TicketsBelong
    BY DEF Inv
  <1> DEFINE TicketsForward == /\ refundedTickets \subseteq refundedTickets'
                               /\ activeTickets' \cap refundedTickets = {}
  <1>1. TicketsForward
    <2>1. TicketsBelong'
      BY StepKeepsTickets
    <2>2. refundedTickets \subseteq refundedTickets'
      BY DEF LateNext, CreateReservation, WriteHold, CancelReservation,
         WriteCancel, SweepExpired, WriteExpiry, LateSale, WriteSale,
         LateDecline, WriteDecline, PurchaseDuplicate, WriteCollision,
         IssueRefund, WriteRefund, PauseSales, ResumeSales,
         AdminSaveTicketType, Lapse, ordVars
    <2> QED
      BY <2>1, <2>2 DEF TicketsBelong
  <1>2. ASSUME UNCHANGED <<resStatus, ordStatus>>
        PROVE  RowsStayEnded
    BY <1>1, <1>2 DEF RowsStayEnded
  <1>3. ASSUME NEW r \in Reservations, NEW t \in TicketTypes, NEW q \in Units,
               CreateReservation(r, t, q)
        PROVE  RowsStayEnded
    BY <1>0, <1>1, <1>3
       DEF CreateReservation, WriteHold, ordVars, RowsStayEnded, TypeOK
  <1>4. ASSUME NEW r \in Reservations, CancelReservation(r)
        PROVE  RowsStayEnded
    BY <1>0, <1>1, <1>4
       DEF CancelReservation, WriteCancel, ordVars, RowsStayEnded, TypeOK
  <1>5. ASSUME NEW S \in SUBSET Reservations, SweepExpired(S)
        PROVE  RowsStayEnded
    BY <1>0, <1>1, <1>5
       DEF SweepExpired, WriteExpiry, ordVars, RowsStayEnded, TypeOK,
           ActiveReservations
  <1>6. ASSUME NEW r \in Reservations, NEW k \in Keys, LateSale(r, k)
        PROVE  RowsStayEnded
    BY <1>0, <1>1, <1>6
       DEF LateSale, WriteSale, RowsStayEnded, TypeOK
  <1>7. ASSUME NEW r \in Reservations, NEW k \in Keys, LateDecline(r, k)
        PROVE  RowsStayEnded
    BY <1>0, <1>1, <1>7
       DEF LateDecline, WriteDecline, resVars, RowsStayEnded,
           TypeOK
  <1>8. ASSUME NEW k \in Keys, NEW ids \in SUBSET TicketCells, IssueRefund(k, ids)
        PROVE  RowsStayEnded
    BY <1>0, <1>1, <1>8
       DEF IssueRefund, MayRefund, WriteRefund, resVars, RowsStayEnded, TypeOK
  <1> QED
    BY <1>2, <1>3, <1>4, <1>5, <1>6, <1>7, <1>8
       DEF LateNext, PurchaseDuplicate, WriteCollision, PauseSales, ResumeSales,
           AdminSaveTicketType, Lapse, resVars, ordVars

\* A purchase that commits with its checks sees the clock and the switch too.
LEMMA StepEndsForward == Inv /\ [Next]_vars => [EndsForward]_vars
  <1> SUFFICES ASSUME Inv, Next, NEW r \in Reservations,
                      resStatus[r] = "active", resStatus'[r] = "confirmed"
               PROVE  r \notin lapsed /\ ~ paused[EventOf[resType[r]]]
    BY StepKeepsEnded, NextIsLate DEF RowsStayEnded, EndsForward
  <1>0. TypeOK
    BY DEF Inv
  <1>1. ASSUME NEW s \in Reservations, NEW k \in Keys, PurchaseConfirmed(s, k)
        PROVE  r \notin lapsed /\ ~ paused[EventOf[resType[r]]]
    BY <1>0, <1>1 DEF PurchaseConfirmed, MayPurchase, WriteSale, TypeOK
  <1> QED
    BY <1>0, <1>1
       DEF Next, CreateReservation, WriteHold, CancelReservation, WriteCancel,
           SweepExpired, WriteExpiry, PurchaseDeclined, WriteDecline,
           PurchaseDuplicate, WriteCollision, IssueRefund, WriteRefund,
           PauseSales, ResumeSales, AdminSaveTicketType, Lapse, resVars, TypeOK

\* What ended stays ended: reservations that were sold, cancelled or expired,
\* orders that were refunded or failed, tickets that were refunded.
THEOREM EndedStaysEnded == Spec => NoResurrection
  BY Invariance, StepEndsForward, PTL DEF Spec, NoResurrection

\* One order was paid for r if it is confirmed, and none otherwise.
SoldOnceOf(r) ==
    Cardinality(PaidOrdersOf(r)) = IF resStatus[r] = "confirmed" THEN 1 ELSE 0

\* That is preserved, of each reservation for itself: a sale needs an active
\* reservation, which had no paid order, and a refund leaves an order among
\* the paid ones.
LEMMA StepKeepsSold ==
  ASSUME TypeOK, [LateNext]_vars, NEW x \in Reservations, SoldOnceOf(x)
  PROVE  SoldOnceOf(x)'
  <1> DEFINE Same == /\ PaidOrdersOf(x)' = PaidOrdersOf(x)
                     /\ resStatus'[x] = "confirmed" <=> resStatus[x] = "confirmed"
  <1>1. ASSUME Same
        PROVE  SoldOnceOf(x)'
    <2>1. Cardinality(PaidOrdersOf(x)') = Cardinality(PaidOrdersOf(x))
      BY <1>1, Zenon
    <2> QED
      BY <1>1, <2>1 DEF SoldOnceOf
  <1>2. ASSUME NEW r \in Reservations, NEW k \in Keys, LateSale(r, k)
        PROVE  SoldOnceOf(x)'
    <2>1. /\ ordStatus[k] = "none" /\ resStatus[r] = "active"
          /\ ordStatus' = [ordStatus EXCEPT ![k] = "confirmed"]
          /\ ordRes' = [ordRes EXCEPT ![k] = r]
          /\ resStatus' = [resStatus EXCEPT ![r] = "confirmed"]
      BY <1>2 DEF LateSale, WriteSale
    <2>2. CASE x = r
      <3>1. PaidOrdersOf(x)' = PaidOrdersOf(x) \cup {k}
        BY <2>1, <2>2 DEF PaidOrdersOf, TypeOK
      <3>2. PaidOrdersOf(x) \in SUBSET Keys
        BY DEF PaidOrdersOf
      <3>3. IsFiniteSet(PaidOrdersOf(x))
        BY <3>2, ConstantsAssumption, FS_Subset
      <3>4. PaidOrdersOf(x) = {}
        BY <2>1, <2>2, <3>3, FS_EmptySet DEF SoldOnceOf
      <3>5. PaidOrdersOf(x)' = {k}
        BY <3>1, <3>4
      <3>6. Cardinality(PaidOrdersOf(x)') = 1
        BY <3>5, FS_Singleton
      <3> QED
        BY <2>1, <2>2, <3>6 DEF SoldOnceOf, TypeOK
    <2>3. CASE x # r
      BY <1>1, <2>1, <2>3 DEF PaidOrdersOf, TypeOK
    <2> QED
      BY <2>2, <2>3
  <1>3. ASSUME NEW r \in Reservations, NEW k \in Keys, LateDecline(r, k)
        PROVE  SoldOnceOf(x)'
    BY <1>1, <1>3 DEF LateDecline, WriteDecline, resVars,
       PaidOrdersOf, TypeOK
  <1>4. ASSUME NEW k \in Keys, NEW ids \in SUBSET TicketCells, IssueRefund(k, ids)
        PROVE  SoldOnceOf(x)'
    <2>1. /\ ordRes' = ordRes /\ resStatus' = resStatus
          /\ ordStatus[k] \notin {"none", "failed"}
          /\ ordStatus'[k] \notin {"none", "failed"}
          /\ \A j \in Keys \ {k} : ordStatus'[j] = ordStatus[j]
      BY <1>4 DEF IssueRefund, MayRefund, WriteRefund, resVars, TypeOK
    <2> QED
      BY <1>1, <2>1 DEF PaidOrdersOf
  <1>5. ASSUME NEW r \in Reservations, NEW t \in TicketTypes, NEW q \in Units,
               CreateReservation(r, t, q)
        PROVE  SoldOnceOf(x)'
    BY <1>1, <1>5 DEF CreateReservation, WriteHold, ordVars, PaidOrdersOf, TypeOK
  <1>6. ASSUME NEW r \in Reservations, CancelReservation(r)
        PROVE  SoldOnceOf(x)'
    BY <1>1, <1>6 DEF CancelReservation, WriteCancel, ordVars, PaidOrdersOf, TypeOK
  <1>7. ASSUME NEW S \in SUBSET Reservations, SweepExpired(S)
        PROVE  SoldOnceOf(x)'
    BY <1>1, <1>7 DEF SweepExpired, WriteExpiry, ordVars, PaidOrdersOf,
       ActiveReservations, TypeOK
  <1>8. ASSUME UNCHANGED <<resStatus, ordStatus, ordRes>>
        PROVE  SoldOnceOf(x)'
    BY <1>1, <1>8 DEF PaidOrdersOf
  <1> QED
    BY <1>2, <1>3, <1>4, <1>5, <1>6, <1>7, <1>8
       DEF LateNext, PurchaseDuplicate, WriteCollision, PauseSales, ResumeSales,
           AdminSaveTicketType, Lapse, vars, resVars, ordVars

\* Every transaction leaves a reservation confirmed exactly when one order was
\* paid for it.
LEMMA StepKeepsSoldOnce == Inv /\ SoldOnce /\ [LateNext]_vars => SoldOnce'
  <1> SUFFICES ASSUME Inv, SoldOnce, [LateNext]_vars, NEW x \in Reservations
               PROVE  SoldOnceOf(x)'
    BY DEF SoldOnce, SoldOnceOf
  <1>1. TypeOK /\ SoldOnceOf(x)
    BY DEF Inv, SoldOnce, SoldOnceOf
  <1> QED
    BY <1>1, StepKeepsSold

\* No order, none paid.
LEMMA SoldOnceInit == Init => SoldOnce
  <1> SUFFICES ASSUME Init, NEW r \in Reservations
               PROVE  Cardinality(PaidOrdersOf(r)) = 0
    BY DEF Init, SoldOnce
  <1>1. PaidOrdersOf(r) = {}
    BY DEF Init, PaidOrdersOf
  <1> QED
    BY <1>1, FS_EmptySet

\* A reservation is sold once: exactly one order was paid for it when it is
\* confirmed, and none when it is not, whatever keys were tried.
THEOREM OnePaidOrder == Spec => []SoldOnce
  BY SoldOnceInit, Invariance, StepKeepsSoldOnce, NextIsLate, PTL DEF Spec
=============================================================================
