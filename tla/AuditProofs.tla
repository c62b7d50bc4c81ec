---------------------------- MODULE AuditProofs ----------------------------
(***************************************************************************)
(* Two more theorems about Inventory: an order's status says what became   *)
(* of its tickets, and the audit log replays to the state of the holds.    *)
(*                                                                         *)
(* The first is inductive once it is known which orders have tickets at    *)
(* all (TicketsBelong).  The second follows from what each action of the   *)
(* log says of one row (AuditTellsStatus, inductive by itself) and from    *)
(* SoldOnce, which bounds the sales of one reservation.                    *)
(***************************************************************************)
EXTENDS InventoryProofs

\* The conjunct of OrderMatchesTickets about order k.
TicketsMatch(k) ==
    LET all  == {k} \X (1 .. OrderQty(k))
        out  == ActiveTicketsOf(k)
        back == refundedTickets \cap TicketsOf(k)
    IN  /\ ordStatus[k] = "confirmed" => out = all /\ back = {}
        /\ ordStatus[k] = "partially_refunded" =>
              /\ out # {} /\ back # {}
              /\ out \cup back = all /\ out \cap back = {}
        /\ ordStatus[k] = "refunded" => out = {} /\ back = all
        /\ ordStatus[k] \in {"none", "failed"} => out = {} /\ back = {}

\* What one entry of the log says of its row: a reservation was held when it
\* exists, and was cancelled, expired or sold exactly when the log says so.
AuditTellsStatus ==
    /\ \A r \in Reservations :
          /\ Logged("inventory_held", r) <=> resStatus[r] # "none"
          /\ Logged("reservation_cancelled", r) <=> resStatus[r] = "cancelled"
          /\ Logged("reservation_expired", r) <=> resStatus[r] = "expired"
    /\ \A k \in Keys :
          Logged("inventory_sold", k) <=> ordStatus[k] \notin {"none", "failed"}

-----------------------------------------------------------------------------
(* Orders and their tickets.                                               *)

\* The property, key by key.
LEMMA MatchesByKey ==
  ASSUME TypeOK
  PROVE  OrderMatchesTickets <=> \A k \in Keys : TicketsMatch(k)
  <1>1. \A k \in Keys : ordStatus[k] \in {"none", "failed", "confirmed",
                                          "partially_refunded", "refunded"}
    BY DEF TypeOK, OrderStatus
  <1> QED
    BY <1>1 DEF OrderMatchesTickets, TicketsMatch

\* An order nothing happens to still matches its tickets.
LEMMA MatchUnchanged ==
  ASSUME NEW k \in Keys, TicketsMatch(k),
         ordStatus'[k] = ordStatus[k],
         ActiveTicketsOf(k)' = ActiveTicketsOf(k),
         (refundedTickets \cap TicketsOf(k))' = refundedTickets \cap TicketsOf(k),
         ordStatus[k] \notin {"none", "failed"} => OrderQty(k)' = OrderQty(k)
  PROVE  TicketsMatch(k)'
  <1>1. CASE ordStatus[k] \in {"none", "failed"}
    BY <1>1 DEF TicketsMatch
  <1>2. CASE ordStatus[k] \notin {"none", "failed"}
    BY <1>2 DEF TicketsMatch
  <1> QED
    BY <1>1, <1>2

\* A sale issues every ticket of an order that had none; a refund moves its
\* targets from out to back, and the status is computed from what is left.
LEMMA StepKeepsMatch ==
  Inv /\ OrderMatchesTickets /\ [LateNext]_vars => OrderMatchesTickets'
  <1> SUFFICES ASSUME Inv, OrderMatchesTickets, [LateNext]_vars, NEW j \in Keys
               PROVE  TicketsMatch(j)'
    <2>1. Inv /\ [LateNext]_vars => TypeOK'
      BY TypeStep DEF Inv
    <2>2. ASSUME TypeOK', \A k \in Keys : TicketsMatch(k)'
          PROVE  OrderMatchesTickets'
      <3>1. \A k \in Keys : ordStatus'[k] \in {"none", "failed", "confirmed",
                                               "partially_refunded", "refunded"}
        BY <2>2 DEF TypeOK, OrderStatus
      <3> QED
        BY <2>2, <3>1 DEF OrderMatchesTickets, TicketsMatch
    <2> QED
      BY <2>1, <2>2
  <1>0. TypeOK /\ TicketsBelong /\ TicketsMatch(j)
    BY MatchesByKey DEF Inv
  <1>1. ASSUME UNCHANGED <<activeTickets, refundedTickets>>,
               ordStatus'[j] = ordStatus[j],
               ordStatus[j] # "none" =>
                  ordRes'[j] = ordRes[j] /\ resQty'[ordRes[j]] = resQty[ordRes[j]]
        PROVE  TicketsMatch(j)'
    <2>1. /\ ActiveTicketsOf(j)' = ActiveTicketsOf(j)
          /\ (refundedTickets \cap TicketsOf(j))' = refundedTickets \cap TicketsOf(j)
      BY <1>1 DEF ActiveTicketsOf, TicketsOf
    <2>2. ordStatus[j] # "none" => OrderQty(j)' = OrderQty(j)
      BY <1>1 DEF OrderQty
    <2> QED
      BY <1>0, <1>1, <2>1, <2>2, MatchUnchanged
  <1>2. ASSUME NEW r \in Reservations, NEW t \in TicketTypes, NEW q \in Units,
               CreateReservation(r, t, q)
        PROVE  TicketsMatch(j)'
    BY <1>0, <1>1, <1>2 DEF CreateReservation, WriteHold, ordVars, TypeOK
  <1>3. ASSUME NEW r \in Reservations, NEW k \in Keys, LateSale(r, k)
        PROVE  TicketsMatch(j)'
    <2> DEFINE q == resQty[r]
    <2>1. /\ ordStatus[k] = "none"
          /\ ordStatus' = [ordStatus EXCEPT ![k] = "confirmed"]
          /\ ordRes' = [ordRes EXCEPT ![k] = r]
          /\ activeTickets' = activeTickets \cup ({k} \X (1 .. q))
          /\ UNCHANGED <<resQty, refundedTickets>>
          /\ q \in Units
      BY <1>0, <1>3 DEF LateSale, WriteSale, TypeOK
    <2>2. CASE j = k
      <3>1. ActiveTicketsOf(j) = {} /\ refundedTickets \cap TicketsOf(j) = {}
        BY <1>0, <2>1, <2>2 DEF TicketsMatch
      <3>2. ordStatus'[j] = "confirmed" /\ OrderQty(j)' = q
        BY <1>0, <2>1, <2>2 DEF OrderQty, TypeOK
      <3>3. ({k} \X (1 .. q)) \subseteq TicketsOf(k)
        BY <2>1, ConstantsAssumption DEF TicketsOf, TicketCells, Units
      <3>4. /\ ActiveTicketsOf(j)' = {j} \X (1 .. q)
            /\ (refundedTickets \cap TicketsOf(j))' = {}
        BY <2>1, <2>2, <3>1, <3>3 DEF ActiveTicketsOf, TicketsOf
      <3> QED
        BY <3>2, <3>4 DEF TicketsMatch
    <2>3. CASE j # k
      <3>1. /\ ordStatus'[j] = ordStatus[j]
            /\ ordRes'[j] = ordRes[j]
        BY <1>0, <2>1, <2>3 DEF TypeOK
      <3>2. ActiveTicketsOf(j)' = ActiveTicketsOf(j)
        BY <2>1, <2>3 DEF ActiveTicketsOf, TicketsOf
      <3>3. (refundedTickets \cap TicketsOf(j))' = refundedTickets \cap TicketsOf(j)
        BY <2>1 DEF TicketsOf
      <3>4. OrderQty(j)' = OrderQty(j)
        BY <2>1, <3>1 DEF OrderQty
      <3> QED
        BY <1>0, <3>1, <3>2, <3>3, <3>4, MatchUnchanged
    <2> QED
      BY <2>2, <2>3
  <1>4. ASSUME NEW r \in Reservations, NEW k \in Keys, LateDecline(r, k)
        PROVE  TicketsMatch(j)'
    <2>1. /\ ordStatus[k] = "none"
          /\ ordStatus' = [ordStatus EXCEPT ![k] = "failed"]
          /\ ordRes' = [ordRes EXCEPT ![k] = r]
          /\ UNCHANGED <<resQty, activeTickets, refundedTickets>>
      BY <1>4 DEF LateDecline, WriteDecline, resVars
    <2>2. CASE j = k
      <3>1. ActiveTicketsOf(j) = {} /\ refundedTickets \cap TicketsOf(j) = {}
        BY <1>0, <2>1, <2>2 DEF TicketsMatch
      <3>2. /\ ActiveTicketsOf(j)' = {}
            /\ (refundedTickets \cap TicketsOf(j))' = {}
            /\ ordStatus'[j] = "failed"
        BY <1>0, <2>1, <2>2, <3>1 DEF ActiveTicketsOf, TicketsOf, TypeOK
      <3> QED
        BY <3>2 DEF TicketsMatch
    <2>3. CASE j # k
      BY <1>0, <1>1, <2>1, <2>3 DEF TypeOK
    <2> QED
      BY <2>2, <2>3
  <1>5. ASSUME NEW k \in Keys, NEW ids \in SUBSET TicketCells, IssueRefund(k, ids)
        PROVE  TicketsMatch(j)'
    <2> DEFINE T == RefundTargets(k, ids)
    <2>1. /\ T \subseteq ActiveTicketsOf(k)
          /\ T # {}
          /\ ordStatus[k] \in {"confirmed", "partially_refunded"}
          /\ WriteRefund(k, T)
      BY <1>5 DEF IssueRefund, MayRefund, RefundTargets
    <2> HIDE DEF T
    <2>2. /\ activeTickets' = activeTickets \ T
          /\ refundedTickets' = refundedTickets \cup T
          /\ ordStatus' = [ordStatus EXCEPT
                 ![k] = IF ActiveTicketsOf(k) \ T = {}
                        THEN "refunded" ELSE "partially_refunded"]
          /\ UNCHANGED <<ordRes, resQty>>
      BY <2>1 DEF WriteRefund, resVars
    <2>3. T \subseteq TicketsOf(k)
      BY <2>1 DEF ActiveTicketsOf
    <2>4. OrderQty(j)' = OrderQty(j)
      BY <2>2 DEF OrderQty
    <2>5. CASE j = k
      <3> DEFINE out  == ActiveTicketsOf(j)
                 back == refundedTickets \cap TicketsOf(j)
                 all  == {j} \X (1 .. OrderQty(j))
      <3>1. out \cup back = all /\ out \cap back = {}
        BY <1>0, <2>1, <2>5 DEF TicketsMatch
      <3>2. /\ ActiveTicketsOf(j)' = out \ T
            /\ (refundedTickets \cap TicketsOf(j))' = back \cup T
        BY <2>2, <2>3, <2>5 DEF ActiveTicketsOf, TicketsOf
      <3>3. ordStatus'[j] = IF out \ T = {} THEN "refunded"
                                            ELSE "partially_refunded"
        BY <1>0, <2>2, <2>5 DEF TypeOK
      <3>4. T \subseteq out
        BY <2>1, <2>5
      <3>5. ({j} \X (1 .. OrderQty(j)))' = all
        BY <2>4
      <3> HIDE DEF out, back, all
      <3>6. (out \ T) \cup (back \cup T) = all /\ (out \ T) \cap (back \cup T) = {}
        BY <3>1, <3>4
      <3>7. CASE out \ T = {}
        <4>1. back \cup T = all
          BY <3>6, <3>7
        <4> QED
          BY <3>2, <3>3, <3>5, <3>7, <4>1 DEF TicketsMatch
      <3>8. CASE out \ T # {}
        <4>1. back \cup T # {}
          BY <2>1
        <4> QED
          BY <3>2, <3>3, <3>5, <3>6, <3>8, <4>1 DEF TicketsMatch
      <3> QED
        BY <3>7, <3>8
    <2>6. CASE j # k
      <3>1. ordStatus'[j] = ordStatus[j]
        BY <1>0, <2>2, <2>6 DEF TypeOK
      <3>2. \A x \in T : x \notin TicketsOf(j)
        BY <2>3, <2>6 DEF TicketsOf
      <3>3. /\ ActiveTicketsOf(j)' = ActiveTicketsOf(j)
            /\ (refundedTickets \cap TicketsOf(j))'
                  = refundedTickets \cap TicketsOf(j)
        BY <2>2, <3>2 DEF ActiveTicketsOf, TicketsOf
      <3> QED
        BY <1>0, <2>4, <3>1, <3>3, MatchUnchanged
    <2> QED
      BY <2>5, <2>6
  <1>6. ASSUME UNCHANGED <<ordVars, resQty>>
        PROVE  TicketsMatch(j)'
    BY <1>1, <1>6 DEF ordVars
  <1> QED
    BY <1>2, <1>3, <1>4, <1>5, <1>6
       DEF LateNext, CancelReservation, WriteCancel, SweepExpired, WriteExpiry,
           PurchaseDuplicate, WriteCollision, PauseSales, ResumeSales,
           AdminSaveTicketType, Lapse, vars, resVars

\* No order, no ticket.
LEMMA MatchInit == Init => OrderMatchesTickets
  <1> SUFFICES ASSUME Init, NEW k \in Keys
               PROVE  TicketsMatch(k)
    BY TypeInit, MatchesByKey
  <1>1. ActiveTicketsOf(k) = {} /\ refundedTickets \cap TicketsOf(k) = {}
    BY DEF Init, ActiveTicketsOf
  <1> QED
    BY <1>1 DEF Init, TicketsMatch

\* Through any sequence of partial refunds, with any lists of tickets, an
\* order is 'confirmed' with all its tickets out, 'refunded' with none, and
\* 'partially_refunded' in between; a failed order never has any.
THEOREM StatusTellsTickets == Spec => []OrderMatchesTickets
  BY MatchInit, Invariance, StepKeepsMatch, NextIsLate, PTL DEF Spec

-----------------------------------------------------------------------------
(* The audit log.                                                          *)

\* Each transaction logs what it does to a row when it does it.
LEMMA StepKeepsAudit == Inv /\ AuditTellsStatus /\ [LateNext]_vars => AuditTellsStatus'
  <1> SUFFICES ASSUME Inv, AuditTellsStatus, [LateNext]_vars
               PROVE  AuditTellsStatus'
    OBVIOUS
  <1>0. TypeOK
    BY DEF Inv
  <1> USE <1>0 DEF AuditTellsStatus, Logged
  <1>1. ASSUME UNCHANGED <<resStatus, ordStatus, audit>>
        PROVE  AuditTellsStatus'
    BY <1>1
  <1>2. ASSUME NEW r \in Reservations, NEW t \in TicketTypes, NEW q \in Units,
               CreateReservation(r, t, q)
        PROVE  AuditTellsStatus'
    BY <1>2 DEF CreateReservation, WriteHold, ordVars, TypeOK
  <1>3. ASSUME NEW r \in Reservations, CancelReservation(r)
        PROVE  AuditTellsStatus'
    BY <1>3 DEF CancelReservation, WriteCancel, ordVars, TypeOK
  <1>4. ASSUME NEW S \in SUBSET Reservations, SweepExpired(S)
        PROVE  AuditTellsStatus'
    BY <1>4 DEF SweepExpired, WriteExpiry, ordVars, TypeOK, ActiveReservations
  <1>5. ASSUME NEW r \in Reservations, NEW k \in Keys, LateSale(r, k)
        PROVE  AuditTellsStatus'
    BY <1>5 DEF LateSale, WriteSale, TypeOK
  <1>6. ASSUME NEW r \in Reservations, NEW k \in Keys, LateDecline(r, k)
        PROVE  AuditTellsStatus'
    BY <1>6 DEF LateDecline, WriteDecline, resVars, TypeOK
  <1>7. ASSUME NEW r \in Reservations, NEW k \in Keys, PurchaseDuplicate(r, k)
        PROVE  AuditTellsStatus'
    BY <1>7 DEF PurchaseDuplicate, WriteCollision, resVars, ordVars
  <1>8. ASSUME NEW k \in Keys, NEW ids \in SUBSET TicketCells, IssueRefund(k, ids)
        PROVE  AuditTellsStatus'
    BY <1>8 DEF IssueRefund, MayRefund, WriteRefund, resVars, TypeOK
  <1> QED
    BY <1>1, <1>2, <1>3, <1>4, <1>5, <1>6, <1>7, <1>8
       DEF LateNext, PauseSales, ResumeSales, AdminSaveTicketType, Lapse, vars,
           resVars, ordVars

\* The sales the log knows of a reservation are the orders paid for it.
LEMMA LoggedSales ==
  ASSUME AuditTellsStatus, NEW r \in Reservations
  PROVE  {k \in Keys : ordRes[k] = r /\ Logged("inventory_sold", k)}
            = PaidOrdersOf(r)
  BY DEF AuditTellsStatus, PaidOrdersOf

\* So the log replays.
LEMMA AuditFollows ==
  ASSUME Inv, SoldOnce, AuditTellsStatus
  PROVE  AuditReplays
  <1> DEFINE Sales(r) == {k \in Keys : ordRes[k] = r /\ Logged("inventory_sold", k)}
             Ended(r) == ({"reservation_cancelled", "reservation_expired"} \X {r}
                             \cup {"inventory_sold"} \X Sales(r)) \cap audit
  <1> SUFFICES ASSUME NEW r \in Reservations
               PROVE  /\ resStatus[r] = "none" <=> ~ Logged("inventory_held", r)
                      /\ resStatus[r] = "active" <=>
                            Logged("inventory_held", r) /\ Ended(r) = {}
                      /\ Cardinality(Ended(r)) <= 1
    BY DEF AuditReplays
  <1> DEFINE paid  == PaidOrdersOf(r)
             ended == Ended(r)
  <1>0. ended = ({"reservation_cancelled", "reservation_expired"} \X {r}
                    \cup {"inventory_sold"} \X paid) \cap audit
    BY LoggedSales
  <1>1. /\ resStatus[r] = "none" <=> ~ Logged("inventory_held", r)
        /\ resStatus[r] \in ReservationStatus \cup {"none"}
    BY DEF AuditTellsStatus, Inv, TypeOK
  <1>2. paid \in SUBSET Keys /\ IsFiniteSet(paid)
    <2>1. paid \in SUBSET Keys
      BY DEF PaidOrdersOf
    <2> QED
      BY <2>1, ConstantsAssumption, FS_Subset
  <1>3. \A k \in paid : <<"inventory_sold", k>> \in audit
    BY DEF AuditTellsStatus, PaidOrdersOf, Logged
  <1>4. Cardinality(paid) = IF resStatus[r] = "confirmed" THEN 1 ELSE 0
    BY DEF SoldOnce
  <1>5. /\ <<"reservation_cancelled", r>> \in audit <=> resStatus[r] = "cancelled"
        /\ <<"reservation_expired", r>> \in audit <=> resStatus[r] = "expired"
    BY DEF AuditTellsStatus, Logged
  <1> HIDE DEF paid, Ended
  <1>6. CASE resStatus[r] = "confirmed"
    <2>1. PICK k : paid = {k}
      BY <1>2, <1>4, <1>6, FS_Singleton
    <2>2. ended = {<<"inventory_sold", k>>}
      BY <1>0, <1>3, <1>5, <1>6, <2>1
    <2>3. Cardinality(ended) <= 1
      <3>1. Cardinality(ended) = 1
        BY <2>2, FS_Singleton
      <3> HIDE DEF ended
      <3> QED
        BY <3>1
    <2>4. ended # {}
      BY <2>2
    <2> QED
      BY <1>1, <1>6, <2>3, <2>4
  <1>7. CASE resStatus[r] # "confirmed"
    <2>1. paid = {}
      <3>1. Cardinality(paid) = 0
        BY <1>4, <1>7
      <3> QED
        BY <1>2, <3>1, FS_EmptySet
    <2>2. CASE resStatus[r] \in {"cancelled", "expired"}
      <3> DEFINE a == IF resStatus[r] = "cancelled" THEN "reservation_cancelled"
                                                    ELSE "reservation_expired"
      <3>1. ended = {<<a, r>>}
        BY <1>0, <1>5, <2>1, <2>2
      <3>2. Cardinality(ended) <= 1
        <4>1. Cardinality(ended) = 1
          BY <3>1, FS_Singleton
        <4> HIDE DEF ended
        <4> QED
          BY <4>1
      <3>3. ended # {}
        BY <3>1
      <3> QED
        BY <1>1, <2>2, <3>2, <3>3
    <2>3. CASE resStatus[r] \in {"active", "none"}
      <3>1. ended = {}
        BY <1>0, <1>5, <2>1, <2>3
      <3>2. Cardinality(ended) <= 1
        BY <3>1, FS_EmptySet
      <3> QED
        BY <1>1, <2>3, <3>1, <3>2
    <2> QED
      BY <1>1, <1>7, <2>2, <2>3 DEF ReservationStatus
  <1> QED
    BY <1>6, <1>7

\* No row, no entry.
LEMMA AuditInit == Init => AuditTellsStatus
  BY DEF Init, AuditTellsStatus, Logged

\* The audit log alone tells which reservations are on hold, and never shows
\* the same hold released or sold twice.
THEOREM LogReplays == Spec => []AuditReplays
  <1>1. Inv /\ SoldOnce /\ AuditTellsStatus => AuditReplays
    BY AuditFollows
  <1> QED
    BY <1>1, AuditInit, Invariance, OnePaidOrder, StepKeepsAudit, NextIsLate, PTL
       DEF Spec
=============================================================================
