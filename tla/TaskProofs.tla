----------------------------- MODULE TaskProofs -----------------------------
(***************************************************************************)
(* Theorems about PurchaseTask, for any number of workers, tasks, retries  *)
(* and faults.  The argument has two parts.  The rows an open purchase has *)
(* locked stay as it read them (LockedRowsKept), whatever the other        *)
(* workers, the rest of the system and the deletion of events do, so       *)
(* committing it is a step of LateNext, and keeps what Inventory's steps   *)
(* keep; deleting an event is the one step that is not, and each invariant *)
(* is shown to survive it.  And what the provider captured for a key is    *)
(* accounted for by its paid order, by the one worker that has it in       *)
(* flight, by deleted orders and by faults.                                *)
(***************************************************************************)
EXTENDS PurchaseTask, AuditProofs

-----------------------------------------------------------------------------
(* Deleting an event: the invariant of Inventory survives it.              *)

Gone(e) == {r \in Reservations : Exists(r) /\ EventOf[resType[r]] = e}

\* The orders of the reservations that are deleted.
GoneKeys(e) == {k \in Keys : ordRes[k] \in Gone(e)}

\* The rows that are left keep their types and their references.
LEMMA DeleteKeepsType ==
  ASSUME TypeOK, NEW e \in Events, DeleteRows(e, Gone(e))
  PROVE  TypeOK'
  <1> DEFINE G == Gone(e)
             K == GoneKeys(e)
  <1> USE ConstantsAssumption DEF TypeOK, DeleteRows
  <1>0. K = {k \in Keys : ordRes[k] \in G}
    BY DEF GoneKeys
  <1> HIDE DEF G, K
  <1>1. /\ resStatus' = [r \in Reservations |-> IF r \in G THEN "none" ELSE resStatus[r]]
        /\ resType' = [r \in Reservations |-> IF r \in G THEN NoRow ELSE resType[r]]
        /\ resQty' = [r \in Reservations |-> IF r \in G THEN 0 ELSE resQty[r]]
        /\ ordStatus' = [k \in Keys |-> IF k \in K THEN "none" ELSE ordStatus[k]]
        /\ ordRes' = [k \in Keys |-> IF k \in K THEN NoRow ELSE ordRes[k]]
        /\ lapsed' = lapsed \ G
    BY <1>0, Zenon DEF G
  <1>2. /\ capacity' \in [TicketTypes -> Nat]
        /\ audit' \subseteq AuditEntries
        /\ sold' \in [TicketTypes -> Nat]
        /\ held' \in [TicketTypes -> Nat]
    OBVIOUS
  <1>3. /\ onSale' \in [TicketTypes -> BOOLEAN]
        /\ paused' \in [Events -> BOOLEAN]
    <2> HIDE DEF TypeOK, DeleteRows
    <2>1. [t \in TicketTypes |-> onSale[t] /\ EventOf[t] # e]
             \in [TicketTypes -> BOOLEAN]
      BY Zenon
    <2>2. [f \in Events |-> paused[f] /\ f # e] \in [Events -> BOOLEAN]
      BY Zenon
    <2>3. /\ onSale' = [t \in TicketTypes |-> onSale[t] /\ EventOf[t] # e]
          /\ paused' = [f \in Events |-> paused[f] /\ f # e]
      BY Zenon DEF DeleteRows
    <2> QED
      BY <2>1, <2>2, <2>3, Zenon
  <1>4. /\ resStatus' \in [Reservations -> ReservationStatus \cup {"none"}]
        /\ resType' \in [Reservations -> TicketTypes \cup {NoRow}]
        /\ resQty' \in [Reservations -> 0 .. MaxQty]
    BY <1>1
  <1>5. lapsed' \subseteq ActiveReservations'
    BY <1>1 DEF ActiveReservations
  <1>6. /\ ordStatus' \in [Keys -> OrderStatus \cup {"none"}]
        /\ ordRes' \in [Keys -> Reservations \cup {NoRow}]
    BY <1>1
  <1>7. /\ activeTickets' \subseteq TicketCells
        /\ refundedTickets' \subseteq TicketCells
        /\ refunds' \in [TicketCells -> Nat]
    OBVIOUS
  <1>8. \A r \in Reservations : resStatus'[r] # "none" =>
           resType'[r] \in TicketTypes /\ resQty'[r] \in Units
    BY <1>1
  <1>9. \A k \in Keys : ordStatus'[k] # "none" =>
           ordRes'[k] \in Reservations /\ resStatus'[ordRes'[k]] # "none"
    <2> SUFFICES ASSUME NEW k \in Keys, ordStatus'[k] # "none"
                 PROVE  ordRes'[k] \in Reservations /\ resStatus'[ordRes'[k]] # "none"
      OBVIOUS
    <2>1. k \notin K /\ ordStatus[k] # "none"
      BY <1>1
    <2>2. ordRes'[k] = ordRes[k] /\ ordRes[k] \in Reservations \ G
      BY <1>0, <1>1, <2>1
    <2>3. resStatus[ordRes[k]] # "none"
      BY <2>1
    <2> QED
      BY <1>1, <2>2, <2>3
  <1> QED
    BY <1>2, <1>3, <1>4, <1>5, <1>6, <1>7, <1>8, <1>9, Zenon

\* What the deletion leaves and takes, row by row.
LEMMA DeleteByRow ==
  ASSUME TypeOK, NEW e \in Events, DeleteRows(e, Gone(e))
  PROVE  /\ \A r \in Reservations :
               IF r \in Gone(e) THEN resStatus'[r] = "none"
               ELSE /\ resStatus'[r] = resStatus[r]
                    /\ resType'[r] = resType[r]
                    /\ resQty'[r] = resQty[r]
         /\ \A k \in Keys :
               IF k \in GoneKeys(e) THEN ordStatus'[k] = "none"
               ELSE /\ ordStatus'[k] = ordStatus[k]
                    /\ ordRes'[k] = ordRes[k]
         /\ activeTickets' = {x \in activeTickets : x[1] \notin GoneKeys(e)}
         /\ refundedTickets' = {x \in refundedTickets : x[1] \notin GoneKeys(e)}
         /\ refunds' = [x \in TicketCells |->
                          IF x[1] \in GoneKeys(e) THEN 0 ELSE refunds[x]]
         /\ \A t \in TicketTypes :
               IF EventOf[t] = e THEN sold'[t] = 0 /\ held'[t] = 0
               ELSE sold'[t] = sold[t] /\ held'[t] = held[t]
         /\ capacity' = capacity
  <1> DEFINE G == Gone(e)
             K == GoneKeys(e)
  <1>0. K = {k \in Keys : ordRes[k] \in G}
    BY DEF GoneKeys
  <1>1. DeleteRows(e, G)
    OBVIOUS
  <1> HIDE DEF G, K
  <1>2. \A r \in Reservations :
           IF r \in G THEN resStatus'[r] = "none"
           ELSE /\ resStatus'[r] = resStatus[r]
                /\ resType'[r] = resType[r]
                /\ resQty'[r] = resQty[r]
    BY <1>1 DEF DeleteRows
  <1>3. \A k \in Keys :
           IF k \in K THEN ordStatus'[k] = "none"
           ELSE ordStatus'[k] = ordStatus[k] /\ ordRes'[k] = ordRes[k]
    BY <1>0, <1>1 DEF DeleteRows
  <1>4. activeTickets \subseteq TicketCells /\ refundedTickets \subseteq TicketCells
    BY DEF TypeOK
  <1>5. /\ activeTickets' = {x \in activeTickets : x[1] \notin K}
        /\ refundedTickets' = {x \in refundedTickets : x[1] \notin K}
    BY <1>0, <1>1, <1>4 DEF DeleteRows
  <1>6. refunds' = [x \in TicketCells |-> IF x[1] \in K THEN 0 ELSE refunds[x]]
    BY <1>0, <1>1 DEF DeleteRows
  <1>7. /\ \A t \in TicketTypes :
              IF EventOf[t] = e THEN sold'[t] = 0 /\ held'[t] = 0
              ELSE sold'[t] = sold[t] /\ held'[t] = held[t]
        /\ capacity' = capacity
    BY <1>1 DEF DeleteRows
  <1> QED
    BY <1>2, <1>3, <1>5, <1>6, <1>7, Zenon DEF G, K

\* A reservation that is left is of another event, and one of another event
\* is left.
LEMMA GoneByEvent ==
  ASSUME TypeOK, NEW e \in Events, NEW r \in Reservations, resStatus[r] # "none"
  PROVE  r \in Gone(e) <=> EventOf[resType[r]] = e
  BY ConstantsAssumption DEF Gone, Exists

\* The deletion takes the units and the tickets of its ticket types together.
LEMMA DeleteKeepsCounters ==
  ASSUME Inv, NEW e \in Events, DeleteRows(e, Gone(e))
  PROVE  CountersMatchRows'
  <1> SUFFICES ASSUME NEW u \in TicketTypes
               PROVE  sold'[u] = ActualSold(u)' /\ held'[u] = ActualHeld(u)'
    BY DEF CountersMatchRows
  <1> DEFINE C == SoldCells(u)
             A == UnitsOf(ActiveReservations, u)
  <1>0. /\ TypeOK /\ TicketsBelong
        /\ sold[u] = Cardinality(C) /\ held[u] = Cardinality(A)
    BY DEF Inv, CountersMatchRows, ActualSold, ActualHeld
  <1>1. /\ activeTickets' = {x \in activeTickets : x[1] \notin GoneKeys(e)}
        /\ \A k \in Keys \ GoneKeys(e) :
              ordStatus'[k] = ordStatus[k] /\ ordRes'[k] = ordRes[k]
        /\ \A r \in Reservations :
              IF r \in Gone(e) THEN resStatus'[r] = "none"
              ELSE /\ resStatus'[r] = resStatus[r]
                   /\ resType'[r] = resType[r]
                   /\ resQty'[r] = resQty[r]
        /\ IF EventOf[u] = e THEN sold'[u] = 0 /\ held'[u] = 0
           ELSE sold'[u] = sold[u] /\ held'[u] = held[u]
    BY <1>0, DeleteByRow
  <1>2. \A x \in activeTickets :
           /\ x[1] \in Keys
           /\ ordRes[x[1]] \in Reservations
           /\ resStatus[ordRes[x[1]]] # "none"
           /\ ordRes[x[1]] \in Gone(e) <=> EventOf[OrderType(x[1])] = e
    <2> SUFFICES ASSUME NEW x \in activeTickets
                 PROVE  /\ x[1] \in Keys
                        /\ ordRes[x[1]] \in Reservations
                        /\ resStatus[ordRes[x[1]]] # "none"
                        /\ ordRes[x[1]] \in Gone(e) <=> EventOf[OrderType(x[1])] = e
      OBVIOUS
    <2>1. x[1] \in Keys
      BY <1>0 DEF TypeOK, TicketCells
    <2>2. ordRes[x[1]] \in Reservations /\ resStatus[ordRes[x[1]]] # "none"
      BY <1>0, <2>1 DEF TypeOK, TicketsBelong
    <2> QED
      BY <1>0, <2>1, <2>2, GoneByEvent DEF OrderType
  <1>3. \A x \in activeTickets : x[1] \in GoneKeys(e) <=> EventOf[OrderType(x[1])] = e
    BY <1>2 DEF GoneKeys
  <1>4. \A x \in activeTickets : x[1] \notin GoneKeys(e) => OrderType(x[1])' = OrderType(x[1])
    BY <1>1, <1>2, <1>3 DEF OrderType
  <1>5. SoldCells(u)' = {x \in C : EventOf[u] # e}
    BY <1>1, <1>3, <1>4 DEF SoldCells
  <1>6. ActiveReservations' = ActiveReservations \ Gone(e)
    BY <1>1 DEF ActiveReservations
  <1>7. \A r \in ActiveReservations : r \in Gone(e) <=> EventOf[resType[r]] = e
    BY <1>0, GoneByEvent DEF ActiveReservations
  <1>8. UnitsOf(ActiveReservations, u)' = {x \in A : EventOf[u] # e}
    <2>1. \A r \in ActiveReservations \ Gone(e) :
             resType'[r] = resType[r] /\ resQty'[r] = resQty[r]
      BY <1>1 DEF ActiveReservations
    <2> QED
      BY <1>6, <1>7, <2>1 DEF UnitsOf
  <1> HIDE DEF C, A
  <1>9. CASE EventOf[u] = e
    <2>1. SoldCells(u)' = {} /\ UnitsOf(ActiveReservations, u)' = {}
      BY <1>5, <1>8, <1>9
    <2>2. ActualSold(u)' = 0 /\ ActualHeld(u)' = 0
      BY <2>1, FS_EmptySet, Zenon DEF ActualSold, ActualHeld
    <2> QED
      BY <1>1, <1>9, <2>2
  <1>10. CASE EventOf[u] # e
    <2>1. SoldCells(u)' = C /\ UnitsOf(ActiveReservations, u)' = A
      BY <1>5, <1>8, <1>10
    <2>2. ActualSold(u)' = Cardinality(C) /\ ActualHeld(u)' = Cardinality(A)
      BY <2>1, Zenon DEF ActualSold, ActualHeld
    <2> QED
      BY <1>0, <1>1, <1>10, <2>2, Zenon
  <1> QED
    BY <1>9, <1>10

\* So the invariant of Inventory survives the deletion of an event.
LEMMA DeleteKeepsInv ==
  ASSUME Inv, NEW e \in Events, DeleteRows(e, Gone(e))
  PROVE  Inv'
  <1>0. TypeOK /\ TicketsBelong /\ RefundedOnce /\ CountersWithinCapacity
    BY DEF Inv
  <1>1. TypeOK'
    BY <1>0, DeleteKeepsType
  <1>2. CountersMatchRows'
    BY DeleteKeepsCounters
  <1>3. TicketsBelong'
    <2>1. \A x \in activeTickets \cup refundedTickets : x[1] \in Keys
      BY <1>0 DEF TypeOK, TicketCells
    <2> QED
      BY <1>0, <2>1, DeleteByRow DEF TicketsBelong
  <1>4. RefundedOnce'
    BY <1>0, DeleteByRow DEF RefundedOnce
  <1>5. CountersWithinCapacity'
    <2> SUFFICES ASSUME NEW u \in TicketTypes
                 PROVE  sold'[u] <= capacity'[u] - held'[u]
      BY DEF CountersWithinCapacity
    <2>1. sold[u] <= capacity[u] - held[u] /\ capacity[u] \in Nat
      BY <1>0 DEF CountersWithinCapacity, TypeOK
    <2>2. /\ \/ sold'[u] = 0 /\ held'[u] = 0
             \/ sold'[u] = sold[u] /\ held'[u] = held[u]
          /\ capacity' = capacity
      BY <1>0, DeleteByRow
    <2> QED
      BY <2>1, <2>2
  <1> QED
    BY <1>1, <1>2, <1>3, <1>4, <1>5, Zenon DEF Inv

\* The paid orders of the reservations that are left are left; those that are
\* gone have none.
LEMMA DeleteKeepsSoldOnce ==
  ASSUME Inv, SoldOnce, NEW e \in Events, DeleteRows(e, Gone(e))
  PROVE  SoldOnce'
  <1> SUFFICES ASSUME NEW r \in Reservations
               PROVE  Cardinality(PaidOrdersOf(r))'
                         = IF resStatus'[r] = "confirmed" THEN 1 ELSE 0
    BY DEF SoldOnce
  <1>0. TypeOK
    BY DEF Inv
  <1>1. /\ \A k \in Keys :
              IF k \in GoneKeys(e) THEN ordStatus'[k] = "none"
              ELSE ordStatus'[k] = ordStatus[k] /\ ordRes'[k] = ordRes[k]
        /\ IF r \in Gone(e) THEN resStatus'[r] = "none"
           ELSE resStatus'[r] = resStatus[r]
    BY <1>0, DeleteByRow
  <1>2. \A k \in Keys : k \in GoneKeys(e) <=> ordRes[k] \in Gone(e)
    BY DEF GoneKeys
  <1>3. CASE r \in Gone(e)
    <2>1. PaidOrdersOf(r)' = {}
      BY <1>1, <1>2, <1>3 DEF PaidOrdersOf
    <2>2. Cardinality(PaidOrdersOf(r))' = 0
      BY <2>1, FS_EmptySet, Zenon
    <2> QED
      BY <1>1, <1>3, <2>2
  <1>4. CASE r \notin Gone(e)
    <2>1. PaidOrdersOf(r)' = PaidOrdersOf(r)
      BY <1>1, <1>2, <1>4 DEF PaidOrdersOf
    <2>2. Cardinality(PaidOrdersOf(r))' = Cardinality(PaidOrdersOf(r))
      BY <2>1, Zenon
    <2> QED
      BY <1>1, <1>4, <2>2 DEF SoldOnce
  <1> QED
    BY <1>3, <1>4

\* An order goes with all its tickets.
LEMMA DeleteKeepsMatch ==
  ASSUME Inv, OrderMatchesTickets, NEW e \in Events, DeleteRows(e, Gone(e))
  PROVE  OrderMatchesTickets'
  <1>0. TypeOK /\ \A k \in Keys : TicketsMatch(k)
    BY MatchesByKey DEF Inv
  <1>1. TypeOK'
    BY <1>0, DeleteKeepsType
  <1>2. ASSUME NEW k \in Keys
        PROVE  TicketsMatch(k)'
    <2>1. /\ IF k \in GoneKeys(e) THEN ordStatus'[k] = "none"
             ELSE ordStatus'[k] = ordStatus[k] /\ ordRes'[k] = ordRes[k]
          /\ activeTickets' = {x \in activeTickets : x[1] \notin GoneKeys(e)}
          /\ refundedTickets' = {x \in refundedTickets : x[1] \notin GoneKeys(e)}
          /\ \A r \in Reservations : r \notin Gone(e) => resQty'[r] = resQty[r]
      BY <1>0, DeleteByRow
    <2>2. CASE k \in GoneKeys(e)
      <3>1. /\ ActiveTicketsOf(k)' = {}
            /\ (refundedTickets \cap TicketsOf(k))' = {}
        BY <2>1, <2>2 DEF ActiveTicketsOf, TicketsOf
      <3> QED
        BY <2>1, <2>2, <3>1 DEF TicketsMatch
    <2>3. CASE k \notin GoneKeys(e)
      <3>1. /\ ActiveTicketsOf(k)' = ActiveTicketsOf(k)
            /\ (refundedTickets \cap TicketsOf(k))' = refundedTickets \cap TicketsOf(k)
        BY <2>1, <2>3 DEF ActiveTicketsOf, TicketsOf
      <3>2. ordStatus[k] # "none" => OrderQty(k)' = OrderQty(k)
        BY <1>0, <2>1, <2>3 DEF OrderQty, GoneKeys, TypeOK
      <3> QED
        BY <1>0, <2>1, <2>3, <3>1, <3>2, MatchUnchanged
    <2> QED
      BY <2>2, <2>3
  <1>3. \A k \in Keys : ordStatus'[k] \in {"none", "failed", "confirmed",
                                           "partially_refunded", "refunded"}
    BY <1>1 DEF TypeOK, OrderStatus
  <1> QED
    BY <1>2, <1>3 DEF OrderMatchesTickets, TicketsMatch

-----------------------------------------------------------------------------
(* The inductive invariant of PurchaseTask.                                *)

Phases == {"idle", "taken", "create_order", "captured", "declined", "raised",
           "order", "refused", "retried", "failed"}

WorkTyped ==
    work \in [Workers -> [id : Tasks \cup {NoTask}, retries : 0 .. MaxRetries,
                          phase : Phases]]

\* A message, a busy worker and a dead letter are about a task that was
\* submitted, for a reservation that exists, did exist or never will.
Excused(i) == args[i][1] \in deleted \cup {NoRow}

TasksKnown ==
    /\ \A m \in queue : args[m[1]] # NoTask
    /\ \A w \in Workers : IF work[w].phase = "idle" THEN work[w] = Idle
                          ELSE work[w].id \in Tasks /\ args[work[w].id] # NoTask
    /\ \A i \in failedTask : args[i] # NoTask
    /\ \A i \in Tasks : args[i] # NoTask => Exists(args[i][1]) \/ Excused(i)

\* What the row locks of an open purchase guarantee: its reservation is still
\* active, its key has no committed order, and no other open purchase is of
\* the same event or has the same key.
LocksHold ==
    /\ \A w \in Workers :
          Open(w) => /\ Res(w) \in Reservations
                     /\ resStatus[Res(w)] = "active"
                     /\ ordStatus[Key(w)] = "none"
    /\ \A v, w \in Workers :
          Open(v) /\ Open(w) /\ v # w =>
             /\ Key(v) # Key(w)
             /\ EventOf[resType[Res(v)]] # EventOf[resType[Res(w)]]

\* Every attempt that was not the first, and every one that raised, cost a fault.
Attempts(w) == work[w].retries + (IF work[w].phase = "raised" THEN 1 ELSE 0)

AttemptsAreFaults ==
    /\ \A m \in queue : m[2] <= faults \/ Excused(m[1])
    /\ \A w \in Workers : Attempts(w) <= faults \/ Excused(work[w].id)

TaskInv ==
    /\ Inv
    /\ TaskTypeOK
    /\ WorkTyped
    /\ TasksKnown
    /\ LocksHold
    /\ ChargesExplained
    /\ AttemptsAreFaults
    /\ DeadLettersAreFaults

\* A worker that moves on keeps its message; the others do not move.
LEMMA PhaseMoves ==
  ASSUME WorkTyped, NEW w \in Workers, NEW ph \in Phases, Phase(w, ph)
  PROVE  /\ WorkTyped'
         /\ work'[w].id = work[w].id
         /\ work'[w].retries = work[w].retries
         /\ work'[w].phase = ph
         /\ \A v \in Workers \ {w} : work'[v] = work[v]
  BY DEF WorkTyped, Phase

\* A busy worker has a task, with its arguments.
LEMMA BusyWorker ==
  ASSUME TaskTypeOK, WorkTyped, TasksKnown,
         NEW w \in Workers, work[w].phase # "idle"
  PROVE  /\ work[w].id \in Tasks
         /\ work[w].retries \in 0 .. MaxRetries
         /\ Res(w) \in Reservations \cup {NoRow}
         /\ Key(w) \in Keys
         /\ Exists(Res(w)) => Res(w) \in Reservations
  <1>1. work[w].id \in Tasks /\ args[work[w].id] # NoTask
    BY DEF TasksKnown
  <1>2. args[work[w].id] \in (Reservations \cup {NoRow}) \X Keys
    BY <1>1 DEF TaskTypeOK
  <1> QED
    BY <1>1, <1>2 DEF WorkTyped, Res, Key, Exists

\* What the rest of the system does is a step of Inventory.
LEMMA ElsewhereIsNext == Elsewhere => Next /\ UNCHANGED taskVars
  BY DEF Elsewhere, Next

\* A worker that starts changes at most the audit log.
LEMMA StartIsNext ==
  ASSUME TaskInv, NEW w \in Workers, Start(w)
  PROVE  /\ [Next]_vars
         /\ UNCHANGED <<typeVars, resVars, ordVars>>
  <1>1. work[w].phase # "idle"
    BY DEF Start
  <1>2. /\ Exists(Res(w)) => Res(w) \in Reservations
        /\ Key(w) \in Keys
    BY <1>1, BusyWorker DEF TaskInv
  <1>3. UNCHANGED vars \/ (Exists(Res(w)) /\ PurchaseDuplicate(Res(w), Key(w)))
    BY DEF Start
  <1>4. CASE UNCHANGED vars
    BY <1>4 DEF vars
  <1>5. CASE Exists(Res(w)) /\ PurchaseDuplicate(Res(w), Key(w))
    <2>1. Next
      BY <1>2, <1>5 DEF Next
    <2> QED
      BY <1>5, <2>1 DEF PurchaseDuplicate, WriteCollision
  <1> QED
    BY <1>3, <1>4, <1>5

\* A commit finds the rows as Start left them.
LEMMA CommitHasLocks ==
  ASSUME TaskInv, NEW w \in Workers, CommitPurchase(w)
  PROVE  /\ Open(w)
         /\ Res(w) \in Reservations
         /\ Key(w) \in Keys
         /\ resStatus[Res(w)] = "active"
         /\ ordStatus[Key(w)] = "none"
         /\ \/ work[w].phase = "captured" /\ WriteSale(Res(w), Key(w))
            \/ work[w].phase = "declined" /\ WriteDecline(Res(w), Key(w))
  <1>1. /\ Open(w) /\ work[w].phase # "idle"
        /\ \/ work[w].phase = "captured" /\ WriteSale(Res(w), Key(w))
           \/ work[w].phase = "declined" /\ WriteDecline(Res(w), Key(w))
    BY DEF CommitPurchase, Open
  <1> QED
    BY <1>1, BusyWorker DEF TaskInv, LocksHold

\* Every step is a transaction of Inventory, or a purchase that commits after
\* its checks, or deletes an event.
LEMMA TaskStepIsLate ==
  TaskInv /\ [TaskNext]_everyVar
     => [LateNext]_vars \/ \E e \in Events : DeleteRows(e, Gone(e))
  <1> DEFINE Late == [LateNext]_vars
  <1> SUFFICES ASSUME TaskInv, [TaskNext]_everyVar
               PROVE  Late \/ \E e \in Events : DeleteRows(e, Gone(e))
    OBVIOUS
  <1>1. ASSUME NEW w \in Workers, Start(w)
        PROVE  Late
    BY <1>1, StartIsNext, NextIsLate
  <1>2. ASSUME NEW w \in Workers, CommitPurchase(w)
        PROVE  Late
    BY <1>2, CommitHasLocks DEF LateNext, LateSale, LateDecline
  <1>3. CASE Elsewhere
    BY <1>3, ElsewhereIsNext, NextIsLate
  <1>4. ASSUME NEW e \in Events, DeleteEvent(e)
        PROVE  DeleteRows(e, Gone(e))
    BY <1>4 DEF DeleteEvent, Gone
  <1>5. CASE UNCHANGED vars
    BY <1>5
  <1> HIDE DEF Late
  <1> QED
    BY <1>1, <1>2, <1>3, <1>4, <1>5
       DEF TaskNext, WorkerStep, Submit, Take, Capture, Retry, GiveUp, Ack,
           TransientError, GiveUpUnrecorded, WorkerDies, everyVar

\* So it keeps the invariant of the database.
LEMMA StepKeepsInv == TaskInv /\ [TaskNext]_everyVar => Inv'
  BY TaskStepIsLate, InvStep, DeleteKeepsInv DEF TaskInv

\* A step of Inventory deletes no reservation.
LEMMA NextKeepsRows ==
  ASSUME TypeOK, [Next]_vars, NEW r \in Reservations, resStatus[r] # "none"
  PROVE  resStatus'[r] # "none" /\ resType'[r] = resType[r]
  BY DEF Next, vars, TypeOK, resVars, CreateReservation, WriteHold,
     CancelReservation, WriteCancel, SweepExpired, WriteExpiry,
     PurchaseConfirmed, WriteSale, PurchaseDeclined, WriteDecline,
     PurchaseDuplicate, WriteCollision, IssueRefund, WriteRefund, PauseSales,
     ResumeSales, AdminSaveTicketType, Lapse

-----------------------------------------------------------------------------
(* The lock discipline.                                                    *)

\* While a purchase is open nobody changes its reservation or takes its key.
LEMMA LockedRowsKept ==
  ASSUME TaskInv, TaskNext, NEW v \in Workers, Open(v), Open(v)'
  PROVE  /\ resStatus'[Res(v)] = resStatus[Res(v)]
         /\ resType'[Res(v)] = resType[Res(v)]
         /\ ordStatus'[Key(v)] = ordStatus[Key(v)]
  <1> DEFINE R == Res(v)
             K == Key(v)
             Goal == /\ resStatus'[R] = resStatus[R]
                     /\ resType'[R] = resType[R]
                     /\ ordStatus'[K] = ordStatus[K]
  <1>0. TypeOK
    BY DEF TaskInv, Inv
  <1>1. /\ R \in Reservations /\ K \in Keys
        /\ resStatus[R] = "active" /\ ordStatus[K] = "none"
        /\ resType[R] \in TicketTypes
    <2>1. work[v].phase # "idle"
      BY DEF Open
    <2> QED
      BY <1>0, <2>1, BusyWorker DEF TaskInv, LocksHold, TypeOK
  <1>2. \A e : Unlocked(e) => EventOf[resType[R]] # e
    BY Zenon DEF Unlocked
  <1> HIDE DEF R, K
  <1>3. CASE UNCHANGED <<resVars, ordVars>>
    BY <1>3 DEF resVars, ordVars
  <1>4. ASSUME NEW w \in Workers, Start(w)
        PROVE  Goal
    BY <1>4, StartIsNext DEF resVars, ordVars
  <1>5. ASSUME NEW w \in Workers, CommitPurchase(w)
        PROVE  Goal
    <2>1. w # v
      <3>1. SUFFICES ASSUME w = v
                     PROVE  FALSE
        OBVIOUS
      <3>2. Phase(v, "order") \/ Phase(v, "refused")
        BY <1>5, <3>1 DEF CommitPurchase
      <3>3. work'[v].phase \in {"order", "refused"}
        BY <3>2, PhaseMoves DEF TaskInv, Phases
      <3> QED
        BY <3>3 DEF Open
    <2>2. /\ Open(w) /\ Res(w) \in Reservations /\ Key(w) \in Keys
          /\ WriteSale(Res(w), Key(w)) \/ WriteDecline(Res(w), Key(w))
      BY <1>5, CommitHasLocks
    <2>3. Res(w) # R /\ Key(w) # K
      BY <2>1, <2>2 DEF R, K, TaskInv, LocksHold
    <2> QED
      BY <1>0, <1>1, <2>2, <2>3 DEF WriteSale, WriteDecline, resVars, TypeOK
  <1>6. ASSUME Elsewhere
        PROVE  Goal
    <2>1. ASSUME NEW r \in Reservations, NEW t \in TicketTypes, NEW q \in Units,
                 CreateReservation(r, t, q)
          PROVE  Goal
      BY <1>0, <1>1, <2>1 DEF CreateReservation, WriteHold, TypeOK, ordVars
    <2>2. ASSUME NEW r \in Reservations, CancelReservation(r),
                 Unlocked(EventOf[resType[r]])
          PROVE  Goal
      <3>1. r # R
        BY <1>2, <2>2
      <3> QED
        BY <1>0, <1>1, <2>2, <3>1 DEF CancelReservation, WriteCancel, TypeOK, ordVars
    <2>3. ASSUME NEW S \in SUBSET Reservations, SweepExpired(S),
                 \A r \in S : Unlocked(EventOf[resType[r]])
          PROVE  Goal
      <3>1. R \notin S
        BY <1>2, <2>3
      <3> QED
        BY <1>0, <1>1, <2>3, <3>1 DEF SweepExpired, WriteExpiry, TypeOK, ordVars
    <2>4. ASSUME NEW k \in Keys, NEW ids \in SUBSET TicketCells, IssueRefund(k, ids)
          PROVE  Goal
      <3>1. k # K
        BY <1>1, <2>4 DEF IssueRefund, MayRefund
      <3>2. /\ UNCHANGED <<resStatus, resType>>
            /\ ordStatus'[K] = ordStatus[K]
        BY <1>0, <1>1, <2>4, <3>1 DEF IssueRefund, WriteRefund, TypeOK, resVars
      <3> QED
        BY <3>2
    <2>5. ASSUME NEW e \in Events, PauseSales(e) \/ ResumeSales(e)
          PROVE  Goal
      BY <2>5 DEF PauseSales, ResumeSales, resVars, ordVars
    <2>6. ASSUME NEW r \in Reservations, Lapse(r)
          PROVE  Goal
      BY <1>3, <2>6 DEF Lapse, ordVars
    <2> HIDE DEF Goal
    <2> QED
      BY <1>6, <2>1, <2>2, <2>3, <2>4, <2>5, <2>6, Zenon DEF Elsewhere
  <1>7. ASSUME NEW e \in Events, DeleteEvent(e)
        PROVE  Goal
    <2>1. DeleteRows(e, Gone(e)) /\ Unlocked(e)
      BY <1>7 DEF DeleteEvent, Gone
    <2>2. R \notin Gone(e)
      BY <1>2, <2>1 DEF Gone
    <2> QED
      BY <1>0, <1>1, <2>1, <2>2, DeleteByRow
  <1> QED
    BY <1>3, <1>4, <1>5, <1>6, <1>7
       DEF TaskNext, WorkerStep, Submit, Take, Capture, Retry, GiveUp, Ack,
           TransientError, GiveUpUnrecorded, WorkerDies, vars, R, K

\* So the locks go on holding: Start opens a purchase only when they are free.
LEMMA StepKeepsLocks == TaskInv /\ [TaskNext]_everyVar => LocksHold'
  <1> SUFFICES ASSUME TaskInv, [TaskNext]_everyVar
               PROVE  LocksHold'
    OBVIOUS
  <1>0. LocksHold /\ WorkTyped /\ TasksKnown /\ TaskTypeOK
    BY DEF TaskInv
  <1>1. CASE UNCHANGED everyVar
    BY <1>0, <1>1 DEF everyVar, vars, resVars, ordVars, taskVars, LocksHold, Open,
       Res, Key
  <1>2. CASE TaskNext
    <2> DEFINE Opens(v) ==
           /\ Start(v) /\ ~ Open(v)
           /\ Res(v) \in Reservations
           /\ MayPurchase(Res(v), Key(v))
           /\ Unlocked(EventOf[resType[Res(v)]]) /\ KeyFree(Key(v))
           /\ UNCHANGED vars
    <2>1. ASSUME NEW v \in Workers, Open(v)'
          PROVE  /\ Res(v)' = Res(v) /\ Key(v)' = Key(v)
                 /\ Open(v) \/ Opens(v)
      <3>1. ASSUME UNCHANGED <<work, args>>
            PROVE  Res(v)' = Res(v) /\ Key(v)' = Key(v) /\ (Open(v) \/ Opens(v))
        BY <2>1, <3>1 DEF Open, Res, Key
      <3>2. ASSUME NEW i \in Tasks, NEW r \in Reservations \cup {NoRow},
                   NEW k \in Keys, Submit(i, r, k)
            PROVE  Res(v)' = Res(v) /\ Key(v)' = Key(v) /\ (Open(v) \/ Opens(v))
        <4>1. work' = work /\ Open(v) /\ work[v].phase # "idle"
          BY <2>1, <3>2 DEF Submit, Open
        <4>2. work[v].id \in Tasks /\ work[v].id # i
          BY <1>0, <3>2, <4>1 DEF TasksKnown, Submit
        <4>3. args'[work[v].id] = args[work[v].id]
          BY <1>0, <3>2, <4>2 DEF Submit, TaskTypeOK
        <4> QED
          BY <4>1, <4>3 DEF Res, Key
      <3>3. ASSUME NEW w \in Workers, UNCHANGED args,
                   work'[w].id = work[w].id \/ w # v,
                   \A u \in Workers \ {w} : work'[u] = work[u],
                   w = v => Open(v) \/ Opens(v)
            PROVE  Res(v)' = Res(v) /\ Key(v)' = Key(v) /\ (Open(v) \/ Opens(v))
        <4>1. work'[v].id = work[v].id
          BY <3>3
        <4>2. w # v => Open(v)
          BY <2>1, <3>3 DEF Open
        <4> QED
          BY <3>3, <4>1, <4>2 DEF Res, Key
      <3>4. ASSUME NEW w \in Workers, WorkerStep(w) \/ TransientError(w)
                                        \/ GiveUpUnrecorded(w) \/ WorkerDies(w)
            PROVE  Res(v)' = Res(v) /\ Key(v)' = Key(v) /\ (Open(v) \/ Opens(v))
        <4>0. /\ \A u \in Workers \ {w} : work'[u] = work[u]
              /\ UNCHANGED args
          BY <1>0, <3>4 DEF WorkerStep, Take, Start, Capture, CommitPurchase, Retry,
             GiveUp, Ack, TransientError, GiveUpUnrecorded, WorkerDies, Phase,
             WorkTyped
        <4>1. CASE w # v
          BY <3>3, <4>0, <4>1
        <4>2. ASSUME w = v, NEW ph \in {"taken", "raised", "order", "refused",
                                       "retried", "failed", "idle"},
                     work'[v].phase = ph
              PROVE  FALSE
          BY <2>1, <4>2 DEF Open
        <4>3. ASSUME w = v, NEW ph \in Phases, Phase(v, ph), Open(v) \/ Opens(v)
              PROVE  Res(v)' = Res(v) /\ Key(v)' = Key(v) /\ (Open(v) \/ Opens(v))
          BY <1>0, <3>3, <4>0, <4>3, PhaseMoves
        <4>4. CASE w = v /\ Start(v)
          <5>1. PICK ph \in {"raised", "order", "refused", "create_order"} :
                   /\ Phase(v, ph)
                   /\ ph = "create_order" =>
                         /\ Exists(Res(v)) /\ MayPurchase(Res(v), Key(v))
                         /\ KeyFree(Key(v)) /\ UNCHANGED vars
            BY <4>4 DEF Start
          <5>2. ph \in Phases /\ work'[v].phase = ph
            BY <1>0, <5>1, PhaseMoves DEF Phases
          <5>3. ph = "create_order"
            BY <4>2, <4>4, <5>1, <5>2
          <5>4. Opens(v)
            <6>1. work[v].phase = "taken"
              BY <4>4 DEF Start
            <6>2. Exists(Res(v)) => Unlocked(EventOf[resType[Res(v)]])
              BY <4>4 DEF Start
            <6>3. Res(v) \in Reservations
              BY <1>0, <5>1, <5>3, <6>1, BusyWorker
            <6> QED
              BY <4>4, <5>1, <5>3, <6>1, <6>2, <6>3 DEF Open
          <5> QED
            BY <4>3, <4>4, <5>1, <5>2, <5>4
        <4>5. CASE w = v /\ \E ok \in BOOLEAN : Capture(v, ok)
          <5>1. Open(v) /\ (Phase(v, "captured") \/ Phase(v, "declined"))
            BY <4>5 DEF Capture, Open
          <5> QED
            BY <4>3, <4>5, <5>1 DEF Phases
        <4>6. CASE w = v /\ (CommitPurchase(v) \/ Retry(v) \/ GiveUp(v)
                              \/ TransientError(v) \/ GiveUpUnrecorded(v))
          <5>1. \E ph \in {"order", "refused", "retried", "failed", "raised"} :
                   Phase(v, ph)
            BY <4>6 DEF CommitPurchase, Retry, GiveUp, TransientError,
               GiveUpUnrecorded
          <5>2. \E ph \in {"order", "refused", "retried", "failed", "raised"} :
                   work'[v].phase = ph
            BY <1>0, <5>1, PhaseMoves DEF Phases
          <5> QED
            BY <4>2, <4>6, <5>2
        <4>7. CASE w = v /\ ((\E m \in queue : Take(v, m)) \/ Ack(v) \/ WorkerDies(v))
          <5>1. work'[v].phase \in {"taken", "idle"}
            BY <1>0, <4>7 DEF Take, Ack, WorkerDies, Idle, WorkTyped
          <5> QED
            BY <4>2, <4>7, <5>1
        <4> QED
          BY <3>4, <4>1, <4>4, <4>5, <4>6, <4>7 DEF WorkerStep
      <3> QED
        BY <1>2, <3>1, <3>2, <3>4 DEF TaskNext, Elsewhere, DeleteEvent, taskVars
    <2>2. \A v \in Workers : Open(v)' =>
             /\ Res(v)' = Res(v) /\ Key(v)' = Key(v)
             /\ Open(v) \/ Opens(v)
      BY <2>1
    <2>3. ASSUME NEW v \in Workers, Open(v)'
          PROVE  /\ Res(v) \in Reservations
                 /\ resStatus'[Res(v)] = "active"
                 /\ resType'[Res(v)] = resType[Res(v)]
                 /\ ordStatus'[Key(v)] = "none"
      <3>1. CASE Open(v)
        BY <1>0, <1>2, <2>3, <3>1, LockedRowsKept DEF LocksHold
      <3>2. CASE Opens(v)
        BY <3>2 DEF MayPurchase, vars, resVars, ordVars
      <3> QED
        BY <2>2, <2>3, <3>1, <3>2
    <2>4. ASSUME NEW v \in Workers, NEW w \in Workers, Open(v)', Open(w)', v # w
          PROVE  /\ Key(v) # Key(w)
                 /\ EventOf[resType[Res(v)]] # EventOf[resType[Res(w)]]
      <3>1. CASE Open(v) /\ Open(w)
        BY <1>0, <2>4, <3>1 DEF LocksHold
      <3>2. CASE Open(v) /\ Opens(w)
        BY <2>4, <3>2, Zenon DEF Unlocked, KeyFree
      <3>3. CASE Opens(v) /\ Open(w)
        BY <2>4, <3>3, Zenon DEF Unlocked, KeyFree
      <3>4. CASE Opens(v) /\ Opens(w)
        <4>1. work'[v] # work[v] /\ work'[w] # work[w]
          BY <2>4, <3>4 DEF Open
        <4>2. work'[w] = work[w]
          BY <1>0, <2>4, <3>4 DEF Start, Phase, WorkTyped
        <4> QED
          BY <4>1, <4>2
      <3> QED
        BY <2>2, <2>4, <3>1, <3>2, <3>3, <3>4
    <2> HIDE DEF Opens
    <2> QED
      BY <2>2, <2>3, <2>4 DEF LocksHold
  <1> QED
    BY <1>1, <1>2

-----------------------------------------------------------------------------
(* Types, and what messages, workers and dead letters refer to.            *)

\* Every step keeps the types of the queues and of what the workers do.
LEMMA StepKeepsTypes == TaskInv /\ [TaskNext]_everyVar => TaskTypeOK' /\ WorkTyped'
  <1> SUFFICES ASSUME TaskInv, [TaskNext]_everyVar
               PROVE  TaskTypeOK' /\ WorkTyped'
    OBVIOUS
  <1> DEFINE Rest ==
         /\ args' \in [Tasks -> ((Reservations \cup {NoRow}) \X Keys) \cup {NoTask}]
         /\ queue' \subseteq Tasks \X (0 .. MaxRetries)
         /\ result' \in [Tasks -> {"pending", "order", "refused", "failed"}]
         /\ failedTask' \subseteq Tasks
         /\ charges' \in [Keys -> Nat]
         /\ deleted' \subseteq Events \cup Reservations
         /\ orphaned' \in [Keys -> Nat]
         /\ faults' \in 0 .. MaxFaults
         /\ WorkTyped'
  <1> USE TaskAssumption
  <1>0. TaskTypeOK /\ WorkTyped /\ TasksKnown
    BY DEF TaskInv
  <1>1. TypeOK'
    BY StepKeepsInv DEF Inv
  <1>2. ASSUME UNCHANGED taskVars
        PROVE  Rest
    BY <1>0, <1>2 DEF taskVars, deleteVars, TaskTypeOK, WorkTyped
  <1>3. ASSUME NEW i \in Tasks, NEW r \in Reservations \cup {NoRow},
               NEW k \in Keys, Submit(i, r, k)
        PROVE  Rest
    BY <1>0, <1>3 DEF Submit, TaskTypeOK, WorkTyped, deleteVars
  <1>4. ASSUME NEW w \in Workers, NEW m \in queue, Take(w, m)
        PROVE  Rest
    BY <1>0, <1>4 DEF Take, TaskTypeOK, WorkTyped, deleteVars, Phases
  <1>5. ASSUME NEW w \in Workers, Start(w) \/ CommitPurchase(w)
        PROVE  Rest
    <2>1. PICK ph \in Phases : Phase(w, ph)
      BY <1>5 DEF Start, CommitPurchase, Phases
    <2>2. WorkTyped'
      BY <1>0, <2>1, PhaseMoves
    <2>3. UNCHANGED <<args, queue, result, failedTask, charges, deleteVars, faults>>
      BY <1>5 DEF Start, CommitPurchase
    <2> QED
      BY <1>0, <2>2, <2>3 DEF TaskTypeOK, deleteVars
  <1>6. ASSUME NEW w \in Workers, NEW ok \in BOOLEAN, Capture(w, ok)
        PROVE  Rest
    <2>1. PICK ph \in Phases : Phase(w, ph)
      BY <1>6 DEF Capture, Phases
    <2>2. WorkTyped'
      BY <1>0, <2>1, PhaseMoves
    <2>3. /\ UNCHANGED <<args, queue, result, failedTask, deleteVars, faults>>
          /\ charges' = [charges EXCEPT ![Key(w)] = @ + 1] \/ charges' = charges
      BY <1>6 DEF Capture
    <2>4. charges' \in [Keys -> Nat]
      BY <1>0, <2>3 DEF TaskTypeOK
    <2> QED
      BY <1>0, <2>2, <2>3, <2>4 DEF TaskTypeOK, deleteVars
  <1>7. ASSUME NEW w \in Workers, Retry(w) \/ GiveUp(w) \/ GiveUpUnrecorded(w)
        PROVE  Rest
    <2>1. PICK ph \in Phases : Phase(w, ph)
      BY <1>7 DEF Retry, GiveUp, GiveUpUnrecorded, Phases
    <2>2. WorkTyped'
      BY <1>0, <2>1, PhaseMoves
    <2>3. work[w].id \in Tasks /\ work[w].retries \in 0 .. MaxRetries
      BY <1>0, <1>7, BusyWorker DEF Retry, GiveUp, GiveUpUnrecorded
    <2>4. /\ UNCHANGED <<args, result, charges, deleteVars>>
          /\ \/ /\ queue' = queue \cup {<<work[w].id, work[w].retries + 1>>}
                /\ work[w].retries < MaxRetries
             \/ queue' = queue
          /\ failedTask' \subseteq failedTask \cup {work[w].id}
          /\ faults' = faults \/ (faults < MaxFaults /\ faults' = faults + 1)
      BY <1>7 DEF Retry, GiveUp, GiveUpUnrecorded
    <2>5. work[w].retries < MaxRetries => work[w].retries + 1 \in 0 .. MaxRetries
      BY <2>3
    <2>6. /\ queue' \subseteq Tasks \X (0 .. MaxRetries)
          /\ failedTask' \subseteq Tasks
          /\ faults' \in 0 .. MaxFaults
      BY <1>0, <2>3, <2>4, <2>5 DEF TaskTypeOK
    <2> QED
      BY <1>0, <2>2, <2>4, <2>6 DEF TaskTypeOK, deleteVars
  <1>8. ASSUME NEW w \in Workers, TransientError(w)
        PROVE  Rest
    <2>1. Phase(w, "raised")
      BY <1>8 DEF TransientError
    <2>2. WorkTyped'
      BY <1>0, <2>1, PhaseMoves DEF Phases
    <2>3. /\ UNCHANGED <<args, queue, result, failedTask, charges, deleteVars>>
          /\ faults < MaxFaults /\ faults' = faults + 1
      BY <1>8 DEF TransientError
    <2> QED
      BY <1>0, <2>2, <2>3 DEF TaskTypeOK, deleteVars
  <1>9. ASSUME NEW w \in Workers, Ack(w)
        PROVE  Rest
    <2>1. work[w].id \in Tasks
      BY <1>0, <1>9, BusyWorker DEF Ack
    <2>2. /\ UNCHANGED <<args, queue, failedTask, charges, deleteVars, faults>>
          /\ result' \in [Tasks -> {"pending", "order", "refused", "failed"}]
      BY <1>0, <1>9, <2>1 DEF Ack, TaskTypeOK
    <2>3. WorkTyped'
      BY <1>0, <1>9 DEF Ack, WorkTyped, Idle, Phases
    <2> QED
      BY <1>0, <2>2, <2>3 DEF TaskTypeOK, deleteVars
  <1>10. ASSUME NEW w \in Workers, WorkerDies(w)
         PROVE  Rest
    <2>1. work[w].phase # "idle"
      BY <1>0, <1>10 DEF WorkerDies, TasksKnown
    <2>2. work[w].id \in Tasks /\ work[w].retries \in 0 .. MaxRetries
      BY <1>0, <2>1, BusyWorker
    <2>3. /\ UNCHANGED <<args, result, failedTask, charges, deleteVars>>
          /\ queue' = queue \cup {<<work[w].id, work[w].retries>>}
          /\ faults < MaxFaults /\ faults' = faults + 1
      BY <1>10 DEF WorkerDies
    <2>4. WorkTyped'
      BY <1>0, <1>10 DEF WorkerDies, WorkTyped, Idle, Phases
    <2>5. queue' \subseteq Tasks \X (0 .. MaxRetries) /\ faults' \in 0 .. MaxFaults
      BY <1>0, <2>2, <2>3 DEF TaskTypeOK
    <2> QED
      BY <1>0, <2>3, <2>4, <2>5 DEF TaskTypeOK, deleteVars
  <1>11. ASSUME NEW e \in Events, DeleteEvent(e)
         PROVE  Rest
    <2>1. /\ UNCHANGED <<args, queue, work, result, failedTask, charges, faults>>
          /\ deleted' \subseteq deleted \cup {e} \cup Reservations
      BY <1>11 DEF DeleteEvent
    <2>2. orphaned' \in [Keys -> Nat]
      <3> DEFINE K == {k \in Keys : ordRes[k] \in Gone(e)}
      <3>1. orphaned' = [k \in Keys |-> IF k \in K /\ Paid(k)
                                        THEN orphaned[k] + 1 ELSE orphaned[k]]
        BY <1>11 DEF DeleteEvent, DeleteRows, Gone
      <3> HIDE DEF K
      <3> QED
        BY <1>0, <3>1 DEF TaskTypeOK
    <2> QED
      BY <1>0, <2>1, <2>2 DEF TaskTypeOK, WorkTyped
  <1>12. Rest
    <2>1. CASE UNCHANGED everyVar
      BY <1>2, <2>1 DEF everyVar
    <2>2. CASE Elsewhere
      BY <1>2, <2>2 DEF Elsewhere
    <2> HIDE DEF Rest
    <2> QED
      BY <1>3, <1>4, <1>5, <1>6, <1>7, <1>8, <1>9, <1>10, <1>11, <2>1, <2>2
         DEF TaskNext, WorkerStep
  <1> QED
    BY <1>1, <1>12 DEF TaskTypeOK

\* The arguments of a task do not change once it is submitted; what was
\* deleted stays deleted; faults do not go away.
LEMMA ArgumentsFixed ==
  ASSUME TaskInv, [TaskNext]_everyVar
  PROVE  /\ \A i \in Tasks : args[i] # NoTask => args'[i] = args[i]
         /\ deleted \subseteq deleted'
         /\ faults' \in Nat /\ faults <= faults'
  <1>0. TaskTypeOK
    BY DEF TaskInv
  <1>1. \/ UNCHANGED args
        \/ \E i \in Tasks : \E x :
             args[i] = NoTask /\ args' = [args EXCEPT ![i] = x]
    BY DEF TaskNext, WorkerStep, Submit, Take, Start, Capture, CommitPurchase, Retry,
       GiveUp, Ack, TransientError, GiveUpUnrecorded, WorkerDies, Elsewhere,
       DeleteEvent, everyVar, taskVars
  <1>2. deleted \subseteq deleted'
    BY DEF TaskNext, WorkerStep, Submit, Take, Start, Capture, CommitPurchase, Retry,
       GiveUp, Ack, TransientError, GiveUpUnrecorded, WorkerDies, Elsewhere,
       DeleteEvent, everyVar, taskVars, deleteVars
  <1>3. faults' = faults \/ faults' = faults + 1
    BY DEF TaskNext, WorkerStep, Submit, Take, Start, Capture, CommitPurchase, Retry,
       GiveUp, Ack, TransientError, GiveUpUnrecorded, WorkerDies, Elsewhere,
       DeleteEvent, everyVar, taskVars
  <1> QED
    BY <1>0, <1>1, <1>2, <1>3 DEF TaskTypeOK

\* A reservation that exists goes on existing or is deleted with its event.
LEMMA RowsKeptOrDeleted ==
  ASSUME TaskInv, [TaskNext]_everyVar, NEW r \in Reservations, Exists(r)
  PROVE  Exists(r)' \/ r \in deleted'
  <1>0. Inv /\ TypeOK /\ r # NoRow /\ resStatus[r] # "none"
    BY DEF TaskInv, Inv, Exists
  <1>1. ASSUME [Next]_vars
        PROVE  Exists(r)'
    BY <1>0, <1>1, NextKeepsRows DEF Exists
  <1>2. CASE UNCHANGED vars
    BY <1>1, <1>2
  <1>3. ASSUME NEW w \in Workers, Start(w)
        PROVE  Exists(r)'
    BY <1>1, <1>3, StartIsNext
  <1>4. ASSUME NEW w \in Workers, CommitPurchase(w)
        PROVE  Exists(r)'
    BY <1>0, <1>4, CommitHasLocks
       DEF WriteSale, WriteDecline, resVars, TypeOK, Exists
  <1>5. CASE Elsewhere
    BY <1>1, <1>5, ElsewhereIsNext
  <1>6. ASSUME NEW e \in Events, DeleteEvent(e)
        PROVE  Exists(r)' \/ r \in deleted'
    <2>1. DeleteRows(e, Gone(e)) /\ Gone(e) \subseteq deleted'
      BY <1>6 DEF DeleteEvent, Gone
    <2> QED
      BY <1>0, <2>1, DeleteByRow DEF Exists
  <1> QED
    BY <1>2, <1>3, <1>4, <1>5, <1>6
       DEF TaskNext, WorkerStep, Submit, Take, Capture, Retry, GiveUp, Ack,
           TransientError, GiveUpUnrecorded, WorkerDies, everyVar

\* Whatever refers to a task goes on referring to a task that was submitted.
LEMMA StepKeepsTasks == TaskInv /\ [TaskNext]_everyVar => TasksKnown'
  <1> SUFFICES ASSUME TaskInv, [TaskNext]_everyVar
               PROVE  TasksKnown'
    OBVIOUS
  <1> USE TaskAssumption, ConstantsAssumption
  <1> DEFINE KnownAfter(i) == i \in Tasks /\ args'[i] # NoTask
             Messages == \A m \in queue' : args'[m[1]] # NoTask
             Busy == \A w \in Workers :
                        IF work'[w].phase = "idle" THEN work'[w] = Idle
                        ELSE work'[w].id \in Tasks /\ args'[work'[w].id] # NoTask
             Dead == \A i \in failedTask' : args'[i] # NoTask
  <1>0. TaskTypeOK /\ WorkTyped /\ TasksKnown
    BY DEF TaskInv
  <1>1. /\ \A m \in queue : m[1] \in Tasks /\ KnownAfter(m[1])
        /\ \A i \in failedTask : KnownAfter(i)
        /\ \A w \in Workers : IF work[w].phase = "idle" THEN work[w] = Idle
                              ELSE KnownAfter(work[w].id)
    <2>1. \A i \in Tasks : args[i] # NoTask => KnownAfter(i)
      BY ArgumentsFixed
    <2> HIDE DEF KnownAfter
    <2> QED
      BY <1>0, <2>1 DEF TasksKnown, TaskTypeOK
  <1>2. \A i \in Tasks : args'[i] # NoTask => Exists(args[i][1])' \/ Excused(i)'
    <2> DEFINE There(r) == r # NoRow /\ resStatus'[r] # "none"
    <2> SUFFICES ASSUME NEW i \in Tasks, args'[i] # NoTask
                 PROVE  There(args'[i][1]) \/ args'[i][1] \in deleted' \cup {NoRow}
      BY DEF Excused, Exists
    <2>1. CASE args[i] # NoTask
      <3>1. args'[i] = args[i] /\ deleted \subseteq deleted'
        BY <2>1, ArgumentsFixed
      <3>2. Exists(args[i][1]) \/ args[i][1] \in deleted \cup {NoRow}
        BY <1>0, <2>1 DEF TasksKnown, Excused
      <3>3. args[i][1] \in Reservations \cup {NoRow}
        BY <1>0, <2>1 DEF TaskTypeOK
      <3>4. \A r \in Reservations : Exists(r) => There(r) \/ r \in deleted'
        BY RowsKeptOrDeleted DEF Exists
      <3> HIDE DEF There
      <3> QED
        BY <3>1, <3>2, <3>3, <3>4
    <2>2. CASE args[i] = NoTask
      <3>1. PICK j \in Tasks, r \in Reservations \cup {NoRow}, k \in Keys : Submit(j, r, k)
        BY <2>2 DEF TaskNext, WorkerStep, Submit, Take, Start, Capture,
           CommitPurchase, Retry, GiveUp, Ack, TransientError, GiveUpUnrecorded,
           WorkerDies, Elsewhere, DeleteEvent, everyVar, taskVars
      <3>2. args'[i] = <<r, k>> /\ (Exists(r) \/ r \in deleted \cup {NoRow})
        BY <1>0, <2>2, <3>1 DEF Submit, TaskTypeOK
      <3>3. resStatus' = resStatus /\ deleted' = deleted
        BY <3>1 DEF Submit, vars, resVars, deleteVars
      <3> QED
        BY <3>2, <3>3 DEF Exists
    <2> QED
      BY <2>1, <2>2
  <1> HIDE DEF KnownAfter
  <1>3. \A i \in Tasks : KnownAfter(i) => args'[i] # NoTask
    BY DEF KnownAfter
  <1>4. ASSUME UNCHANGED <<queue, work, failedTask>>
        PROVE  Messages /\ Busy /\ Dead
    BY <1>1, <1>4 DEF KnownAfter
  <1>5. ASSUME NEW w \in Workers, work[w].phase # "idle",
               queue' \subseteq queue \cup ({work[w].id} \X Nat),
               failedTask' \subseteq failedTask \cup {work[w].id}
        PROVE  Messages /\ Dead /\ KnownAfter(work[w].id)
    BY <1>1, <1>5 DEF KnownAfter
  <1>6. ASSUME NEW w \in Workers, NEW ph \in Phases \ {"idle"}, Phase(w, ph),
               KnownAfter(work[w].id)
        PROVE  Busy
    BY <1>0, <1>1, <1>6, PhaseMoves DEF KnownAfter
  <1>7. ASSUME NEW w \in Workers, work' = [work EXCEPT ![w] = Idle]
        PROVE  Busy
    BY <1>0, <1>1, <1>7 DEF KnownAfter, WorkTyped, Idle
  <1>8. ASSUME NEW i \in Tasks, NEW r \in Reservations \cup {NoRow},
               NEW k \in Keys, Submit(i, r, k)
        PROVE  Messages /\ Busy /\ Dead
    <2>1. args'[i] = <<r, k>> /\ <<r, k>> # NoTask
      BY <1>0, <1>8 DEF Submit, TaskTypeOK
    <2>2. /\ queue' = queue \cup {<<i, 0>>}
          /\ UNCHANGED <<work, failedTask>>
      BY <1>8 DEF Submit
    <2> QED
      BY <1>1, <2>1, <2>2 DEF KnownAfter
  <1>9. ASSUME NEW w \in Workers, NEW m \in queue, Take(w, m)
        PROVE  Messages /\ Busy /\ Dead
    <2>1. /\ queue' \subseteq queue /\ failedTask' = failedTask
          /\ work' = [work EXCEPT ![w] = [id |-> m[1], retries |-> m[2],
                                          phase |-> "taken"]]
      BY <1>9 DEF Take
    <2>2. /\ work'[w].id = m[1] /\ work'[w].phase = "taken"
          /\ \A v \in Workers \ {w} : work'[v] = work[v]
      BY <1>0, <2>1 DEF WorkTyped
    <2> QED
      BY <1>1, <2>1, <2>2 DEF KnownAfter
  <1>10. ASSUME NEW w \in Workers,
                Start(w) \/ (\E ok \in BOOLEAN : Capture(w, ok)) \/ CommitPurchase(w)
                \/ Retry(w) \/ GiveUp(w) \/ TransientError(w) \/ GiveUpUnrecorded(w)
         PROVE  Messages /\ Busy /\ Dead
    <2>1. work[w].phase # "idle"
      BY <1>10 DEF Start, Capture, CommitPurchase, Retry, GiveUp, TransientError,
         GiveUpUnrecorded, Open
    <2>2. \E ph \in Phases \ {"idle"} : Phase(w, ph)
      BY <1>10 DEF Start, Capture, CommitPurchase, Retry, GiveUp, TransientError,
         GiveUpUnrecorded, Phases
    <2>3. work[w].retries + 1 \in Nat
      BY <1>0 DEF WorkTyped
    <2>4. /\ queue' \subseteq queue \cup ({work[w].id} \X Nat)
          /\ failedTask' \subseteq failedTask \cup {work[w].id}
      BY <1>10, <2>3 DEF Start, Capture, CommitPurchase, Retry, GiveUp,
         TransientError, GiveUpUnrecorded
    <2> QED
      BY <1>5, <1>6, <2>1, <2>2, <2>4
  <1>11. ASSUME NEW w \in Workers, Ack(w) \/ WorkerDies(w)
         PROVE  Messages /\ Busy /\ Dead
    <2>1. work[w].phase # "idle"
      BY <1>0, <1>11 DEF Ack, WorkerDies, TasksKnown
    <2>2. work[w].retries \in Nat
      BY <1>0 DEF WorkTyped
    <2>3. /\ queue' \subseteq queue \cup ({work[w].id} \X Nat)
          /\ failedTask' = failedTask
          /\ work' = [work EXCEPT ![w] = Idle]
      BY <1>11, <2>2 DEF Ack, WorkerDies
    <2> QED
      BY <1>5, <1>7, <2>1, <2>3
  <1>12. Messages /\ Busy /\ Dead
    <2>1. CASE UNCHANGED everyVar
      BY <1>4, <2>1 DEF everyVar, taskVars
    <2>2. CASE Elsewhere \/ \E e \in Events : DeleteEvent(e)
      BY <1>4, <2>2 DEF Elsewhere, DeleteEvent, taskVars
    <2> HIDE DEF Messages, Busy, Dead
    <2> QED
      BY <1>8, <1>9, <1>10, <1>11, <2>1, <2>2 DEF TaskNext, WorkerStep
  <1> QED
    BY <1>2, <1>12 DEF TasksKnown

-----------------------------------------------------------------------------
(* Charges.                                                                *)

\* What the provider should have captured for key k.
Due(k) == (IF Paid(k) THEN 1 ELSE 0) + Cardinality(InFlight(k)) + orphaned[k]

\* There are finitely many workers, so those that have captured can be counted.
LEMMA InFlightFinite == \A k : IsFiniteSet(InFlight(k)) /\ Cardinality(InFlight(k)) \in Nat
  <1>1. \A k : InFlight(k) \subseteq Workers
    BY DEF InFlight
  <1> QED
    BY <1>1, TaskAssumption, FS_Subset, FS_CardinalityType

\* When w enters or leaves the captures in flight, their number moves by one.
LEMMA InFlightMoves ==
  ASSUME NEW k, NEW w \in Workers
  PROVE  /\ w \notin InFlight(k) /\ InFlight(k)' = InFlight(k) \cup {w}
               => Cardinality(InFlight(k)') = Cardinality(InFlight(k)) + 1
         /\ w \in InFlight(k) /\ InFlight(k)' = InFlight(k) \ {w}
               => Cardinality(InFlight(k)') = Cardinality(InFlight(k)) - 1
         /\ InFlight(k)' = InFlight(k)
               => Cardinality(InFlight(k)') = Cardinality(InFlight(k))
  <1> DEFINE F == InFlight(k)
             G == InFlight(k)'
  <1>1. IsFiniteSet(F)
    BY InFlightFinite
  <1> HIDE DEF F, G
  <1>2. w \notin F => Cardinality(F \cup {w}) = Cardinality(F) + 1
    BY <1>1, FS_AddElement
  <1>3. w \in F => Cardinality(F \ {w}) = Cardinality(F) - 1
    BY <1>1, FS_RemoveElement
  <1> QED
    BY <1>2, <1>3, Zenon DEF F, G

\* How a worker that moves changes the captures in flight.
LEMMA InFlightAfter ==
  ASSUME WorkTyped, NEW w \in Workers, NEW k,
         \A v \in Workers \ {w} : work'[v] = work[v],
         \A v \in Workers : work[v].phase = "captured"
                              => args'[work[v].id] = args[work[v].id],
         work'[w].phase = "captured" => Key(w)' = Key(w)
  PROVE  InFlight(k)' = IF work'[w].phase = "captured" /\ Key(w) = k
                        THEN InFlight(k) \cup {w} ELSE InFlight(k) \ {w}
  BY DEF InFlight, Key

\* Only a capture, a commit, a fault and a deletion touch the charge balance of
\* a key; each moves both sides of it together.
LEMMA StepKeepsCharges == TaskInv /\ [TaskNext]_everyVar => ChargesExplained'
  <1> SUFFICES ASSUME TaskInv, [TaskNext]_everyVar, NEW k \in Keys
               PROVE  Due(k)' <= charges'[k] /\ charges'[k] <= Due(k)' + faults'
    BY DEF ChargesExplained, Due
  <1> DEFINE n == Cardinality(InFlight(k))
             m == Cardinality(InFlight(k)')
             p == IF Paid(k) THEN 1 ELSE 0
             q == IF Paid(k)' THEN 1 ELSE 0
             Goal == Due(k)' <= charges'[k] /\ charges'[k] <= Due(k)' + faults'
  <1>0. /\ TaskTypeOK /\ TypeOK /\ WorkTyped /\ TasksKnown /\ LocksHold
        /\ TaskTypeOK' /\ WorkTyped'
    BY StepKeepsTypes DEF TaskInv, Inv
  <1>1. /\ n \in Nat /\ m \in Nat /\ p \in Nat /\ q \in Nat
        /\ charges[k] \in Nat /\ charges'[k] \in Nat
        /\ orphaned[k] \in Nat /\ orphaned'[k] \in Nat
        /\ faults \in Nat /\ faults' \in Nat /\ faults <= faults'
    <2>1. n \in Nat /\ m \in Nat
      <3>1. n \in Nat
        BY InFlightFinite
      <3>2. InFlight(k)' \subseteq Workers
        BY DEF InFlight
      <3>3. m \in Nat
        BY <3>2, TaskAssumption, FS_Subset, FS_CardinalityType
      <3> QED
        BY <3>1, <3>3
    <2> QED
      BY <1>0, <2>1, ArgumentsFixed DEF TaskTypeOK
  <1>2. /\ Due(k) = p + n + orphaned[k]
        /\ Due(k)' = q + m + orphaned'[k]
        /\ Due(k) <= charges[k] /\ charges[k] <= Due(k) + faults
    BY DEF Due, ChargesExplained, TaskInv
  <1>3. /\ Paid(k) <=> ordStatus[k] \notin {"none", "failed"}
        /\ Paid(k)' <=> ordStatus'[k] \notin {"none", "failed"}
    BY DEF Paid
  <1> HIDE DEF n, m
  \* Nothing about the key changes but, perhaps, the status of its paid order.
  <1>4. ASSUME Paid(k)' <=> Paid(k), m = n, charges'[k] = charges[k],
               orphaned'[k] = orphaned[k]
        PROVE  Goal
    BY <1>1, <1>2, <1>4
  \* A capture is cut off by a fault, or was none of this key.
  <1>5. ASSUME Paid(k)' <=> Paid(k), m = n \/ m = n - 1, faults' = faults + 1,
               charges'[k] = charges[k], orphaned'[k] = orphaned[k]
        PROVE  Goal
    BY <1>1, <1>2, <1>5
  <1> HIDE DEF p, q
  <1>6. ASSUME UNCHANGED <<work, args>>
        PROVE  m = n
    <2>1. InFlight(k)' = InFlight(k)
      BY <1>6 DEF InFlight, Key
    <2> QED
      BY <2>1 DEF m, n
  <1>7. CASE UNCHANGED everyVar
    BY <1>4, <1>6, <1>7, <1>3 DEF everyVar, taskVars, deleteVars, vars, ordVars
  <1>8. ASSUME NEW i \in Tasks, NEW r \in Reservations \cup {NoRow},
               NEW j \in Keys, Submit(i, r, j)
        PROVE  Goal
    <2>1. \A v \in Workers : work[v].phase = "captured" => Key(v)' = Key(v)
      <3> SUFFICES ASSUME NEW v \in Workers, work[v].phase = "captured"
                   PROVE  Key(v)' = Key(v)
        OBVIOUS
      <3>1. work[v].id \in Tasks /\ args[work[v].id] # NoTask
        BY <1>0 DEF TasksKnown
      <3>2. work' = work /\ args'[work[v].id] = args[work[v].id]
        BY <1>8, <3>1, ArgumentsFixed DEF Submit
      <3> QED
        BY <3>2 DEF Key
    <2>2. work' = work
      BY <1>8 DEF Submit
    <2>3. InFlight(k)' = InFlight(k)
      BY <2>1, <2>2 DEF InFlight
    <2>4. m = n
      BY <2>3 DEF m, n
    <2> QED
      BY <1>3, <1>4, <1>8, <2>4 DEF Submit, vars, ordVars, deleteVars
  <1>9. CASE Elsewhere
    <2>1. UNCHANGED <<work, args, charges, orphaned>>
      BY <1>9 DEF Elsewhere, taskVars, deleteVars
    <2>2. Paid(k)' <=> Paid(k)
      BY <1>0, <1>3, <1>9
         DEF Elsewhere, CreateReservation, WriteHold, CancelReservation, WriteCancel,
             SweepExpired, WriteExpiry, IssueRefund, MayRefund, WriteRefund,
             PauseSales, ResumeSales, Lapse, ordVars, TypeOK
    <2> QED
      BY <1>4, <1>6, <2>1, <2>2
  <1>10. ASSUME NEW e \in Events, DeleteEvent(e)
         PROVE  Goal
    <2>1. UNCHANGED <<work, args, charges, faults>>
      BY <1>10 DEF DeleteEvent
    <2>2. DeleteRows(e, Gone(e))
      BY <1>10 DEF DeleteEvent, Gone
    <2>3. /\ IF k \in GoneKeys(e) THEN ordStatus'[k] = "none"
             ELSE ordStatus'[k] = ordStatus[k]
          /\ orphaned'[k] = IF k \in GoneKeys(e) /\ Paid(k)
                            THEN orphaned[k] + 1 ELSE orphaned[k]
      <3> DEFINE K == GoneKeys(e)
      <3>1. orphaned' = [j \in Keys |-> IF j \in K /\ Paid(j)
                                        THEN orphaned[j] + 1 ELSE orphaned[j]]
        BY <2>2 DEF DeleteRows, GoneKeys
      <3> HIDE DEF K
      <3>2. IF k \in K THEN ordStatus'[k] = "none" ELSE ordStatus'[k] = ordStatus[k]
        BY <1>0, <2>2, DeleteByRow DEF K
      <3> QED
        BY <3>1, <3>2 DEF K
    <2>4. m = n
      BY <1>6, <2>1
    <2> QED
      BY <1>1, <1>2, <1>3, <2>1, <2>3, <2>4 DEF p, q
  <1>11. ASSUME NEW w \in Workers, NEW ph \in Phases \ {"captured"},
                work[w].phase # "captured", Phase(w, ph), UNCHANGED args
         PROVE  m = n
    <2>1. InFlight(k)' = InFlight(k) \ {w}
      BY <1>0, <1>11, PhaseMoves, InFlightAfter
    <2>2. w \notin InFlight(k)
      BY <1>11 DEF InFlight
    <2> QED
      BY <2>1, <2>2 DEF m, n
  <1>12. ASSUME NEW w \in Workers,
                (\E x \in queue : Take(w, x)) \/ Ack(w)
         PROVE  m = n
    <2>1. /\ work[w].phase # "captured" /\ work'[w].phase # "captured"
          /\ \A v \in Workers \ {w} : work'[v] = work[v]
          /\ UNCHANGED args
      BY <1>0, <1>12 DEF Take, Ack, Idle, WorkTyped
    <2>2. InFlight(k)' = InFlight(k)
      BY <1>0, <2>1 DEF InFlight, Key
    <2> QED
      BY <2>2 DEF m, n
  <1>13. ASSUME NEW w \in Workers,
                (\E x \in queue : Take(w, x)) \/ Ack(w) \/ Start(w)
                \/ Retry(w) \/ GiveUp(w) \/ GiveUpUnrecorded(w)
         PROVE  Goal
    <2>1. m = n
      <3>1. CASE (\E x \in queue : Take(w, x)) \/ Ack(w)
        BY <1>12, <3>1
      <3>2. CASE Start(w) \/ Retry(w) \/ GiveUp(w) \/ GiveUpUnrecorded(w)
        <4>1. /\ work[w].phase # "captured" /\ UNCHANGED args
              /\ \E ph \in Phases \ {"captured"} : Phase(w, ph)
          BY <3>2 DEF Start, Retry, GiveUp, GiveUpUnrecorded, Phases
        <4> QED
          BY <1>11, <4>1
      <3> QED
        BY <1>13, <3>1, <3>2
    <2>2. UNCHANGED <<charges, orphaned, ordVars>>
      <3>1. Start(w) => UNCHANGED ordVars
        BY StartIsNext
      <3> QED
        BY <1>13, <3>1 DEF Take, Ack, Start, Retry, GiveUp, GiveUpUnrecorded, vars,
           deleteVars
    <2> QED
      BY <1>3, <1>4, <2>1, <2>2 DEF ordVars
  <1>14. ASSUME NEW w \in Workers, NEW ok \in BOOLEAN, Capture(w, ok)
         PROVE  Goal
    <2>0. /\ work[w].phase = "create_order"
          /\ UNCHANGED <<args, faults, orphaned, ordVars>>
          /\ \/ Phase(w, "captured") /\ charges' = [charges EXCEPT ![Key(w)] = @ + 1]
             \/ Phase(w, "declined") /\ charges' = charges
      BY <1>14 DEF Capture, vars, deleteVars
    <2>1. w \notin InFlight(k)
      BY <2>0 DEF InFlight
    <2>2. Paid(k)' <=> Paid(k)
      BY <1>3, <2>0 DEF ordVars
    <2>3. CASE Phase(w, "declined") /\ charges' = charges
      <3>1. m = n
        BY <1>11, <2>0, <2>3 DEF Phases
      <3> QED
        BY <1>4, <2>0, <2>2, <2>3, <3>1
    <2>4. CASE Phase(w, "captured") /\ charges' = [charges EXCEPT ![Key(w)] = @ + 1]
      <3>1. /\ work'[w].phase = "captured" /\ work'[w].id = work[w].id
            /\ \A v \in Workers \ {w} : work'[v] = work[v]
        BY <1>0, <2>4, PhaseMoves DEF Phases
      <3>2. Key(w)' = Key(w)
        BY <2>0, <3>1 DEF Key
      <3>3. InFlight(k)' = IF Key(w) = k THEN InFlight(k) \cup {w}
                           ELSE InFlight(k) \ {w}
        BY <1>0, <2>0, <3>1, <3>2, InFlightAfter
      <3>4. CASE Key(w) = k
        <4>1. m = n + 1
          BY <2>1, <3>3, <3>4, InFlightMoves DEF m, n
        <4>2. charges'[k] = charges[k] + 1
          BY <1>0, <2>4, <3>4 DEF TaskTypeOK
        <4>3. q = p /\ orphaned'[k] = orphaned[k] /\ faults' = faults
          BY <2>0, <2>2 DEF p, q
        <4> QED
          BY <1>1, <1>2, <4>1, <4>2, <4>3
      <3>5. CASE Key(w) # k
        <4>1. m = n
          BY <2>1, <3>3, <3>5 DEF m, n
        <4>2. charges'[k] = charges[k]
          BY <1>0, <2>4, <3>5 DEF TaskTypeOK
        <4> QED
          BY <1>4, <2>0, <2>2, <4>1, <4>2
      <3> QED
        BY <3>4, <3>5
    <2> QED
      BY <2>0, <2>3, <2>4
  <1>15. ASSUME NEW w \in Workers, CommitPurchase(w)
         PROVE  Goal
    <2>0. /\ UNCHANGED <<args, charges, orphaned, faults>>
          /\ \E ph \in {"order", "refused"} : Phase(w, ph)
      BY <1>15 DEF CommitPurchase, deleteVars
    <2>1. /\ work'[w].phase \in {"order", "refused"}
          /\ \A v \in Workers \ {w} : work'[v] = work[v]
      BY <1>0, <2>0, PhaseMoves DEF Phases
    <2>2. InFlight(k)' = InFlight(k) \ {w}
      BY <1>0, <2>0, <2>1, InFlightAfter
    <2>3. /\ Key(w) \in Keys /\ ordStatus[Key(w)] = "none"
          /\ \/ work[w].phase = "captured" /\ WriteSale(Res(w), Key(w))
             \/ work[w].phase = "declined" /\ WriteDecline(Res(w), Key(w))
      BY <1>15, CommitHasLocks
    <2>4. w \in InFlight(k) <=> work[w].phase = "captured" /\ Key(w) = k
      BY DEF InFlight
    <2>5. CASE Key(w) = k /\ work[w].phase = "captured"
      <3>1. m = n - 1
        BY <2>2, <2>4, <2>5, InFlightMoves DEF m, n
      <3>2. ~ Paid(k) /\ Paid(k)'
        BY <1>0, <1>3, <2>3, <2>5 DEF WriteSale, TypeOK
      <3>3. p = 0 /\ q = 1
        BY <3>2 DEF p, q
      <3> QED
        BY <1>1, <1>2, <2>0, <3>1, <3>3
    <2>6. CASE ~ (Key(w) = k /\ work[w].phase = "captured")
      <3>1. m = n
        BY <2>2, <2>4, <2>6 DEF m, n
      <3>2. Paid(k)' <=> Paid(k)
        BY <1>0, <1>3, <2>3, <2>6 DEF WriteSale, WriteDecline, TypeOK
      <3> QED
        BY <1>4, <2>0, <3>1, <3>2
    <2> QED
      BY <2>5, <2>6
  <1>16. ASSUME NEW w \in Workers, TransientError(w) \/ WorkerDies(w)
         PROVE  Goal
    <2>1. /\ UNCHANGED <<args, charges, orphaned, ordVars>>
          /\ faults' = faults + 1
      BY <1>16 DEF TransientError, WorkerDies, deleteVars, vars
    <2>2. /\ work'[w].phase \in {"raised", "idle"}
          /\ \A v \in Workers \ {w} : work'[v] = work[v]
      <3>1. CASE TransientError(w)
        BY <1>0, <3>1, PhaseMoves DEF TransientError, Phases
      <3>2. CASE WorkerDies(w)
        BY <1>0, <3>2 DEF WorkerDies, Idle, WorkTyped
      <3> QED
        BY <1>16, <3>1, <3>2
    <2>3. InFlight(k)' = InFlight(k) \ {w}
      BY <1>0, <2>1, <2>2, InFlightAfter
    <2>4. m = n \/ m = n - 1
      <3>1. CASE w \in InFlight(k)
        BY <2>3, <3>1, InFlightMoves DEF m, n
      <3>2. CASE w \notin InFlight(k)
        BY <2>3, <3>2 DEF m, n
      <3> QED
        BY <3>1, <3>2
    <2>5. Paid(k)' <=> Paid(k)
      BY <1>3, <2>1 DEF ordVars
    <2>6. p = q
      BY <2>5 DEF p, q
    <2> QED
      BY <1>1, <1>2, <2>1, <2>4, <2>6
  <1> HIDE DEF Goal
  <1>17. CASE TaskNext
    BY <1>8, <1>9, <1>10, <1>13, <1>14, <1>15, <1>16, <1>17, Zenon
       DEF TaskNext, WorkerStep, Goal
  <1> QED
    BY <1>7, <1>17

-----------------------------------------------------------------------------
(* Attempts and dead letters.                                              *)

\* Every step that raises a retry number, or dead-letters a task, has its fault.
LEMMA StepKeepsAttempts ==
  TaskInv /\ [TaskNext]_everyVar => AttemptsAreFaults' /\ DeadLettersAreFaults'
  <1> SUFFICES ASSUME TaskInv, [TaskNext]_everyVar
               PROVE  AttemptsAreFaults' /\ DeadLettersAreFaults'
    OBVIOUS
  <1> USE TaskAssumption
  <1> DEFINE Fine(i, x) == x <= faults' \/ args'[i][1] \in deleted' \cup {NoRow}
             Messages == \A m \in queue' : Fine(m[1], m[2])
             Busy == \A w \in Workers :
                        Fine(work'[w].id,
                             work'[w].retries + (IF work'[w].phase = "raised" THEN 1 ELSE 0))
             Dead == \A i \in failedTask' : Fine(i, MaxRetries + 1)
  <1>0. /\ TaskTypeOK /\ WorkTyped /\ TasksKnown /\ TaskTypeOK' /\ WorkTyped'
        /\ AttemptsAreFaults /\ DeadLettersAreFaults
    BY StepKeepsTypes DEF TaskInv
  <1>1. SUFFICES Messages /\ Busy /\ Dead
    <2>1. AttemptsAreFaults' <=> Messages /\ Busy
      BY DEF AttemptsAreFaults, Excused, Attempts
    <2>2. Dead => DeadLettersAreFaults'
      BY <1>0 DEF DeadLettersAreFaults, TaskTypeOK
    <2> QED
      BY <2>1, <2>2
  <1>2. faults \in Nat /\ faults' \in Nat /\ faults <= faults'
    BY <1>0, ArgumentsFixed DEF TaskTypeOK
  \* What was fine stays fine.
  <1>3. ASSUME NEW i \in Tasks, args[i] # NoTask, NEW x \in Nat,
               x <= faults \/ Excused(i)
        PROVE  Fine(i, x)
    BY <1>2, <1>3, ArgumentsFixed DEF Excused
  <1>4. \A m \in queue : Fine(m[1], m[2])
    <2> SUFFICES ASSUME NEW m \in queue
                 PROVE  Fine(m[1], m[2])
      OBVIOUS
    <2>1. m[1] \in Tasks /\ m[2] \in Nat
      BY <1>0 DEF TaskTypeOK
    <2> QED
      BY <1>0, <1>3, <2>1 DEF TasksKnown, AttemptsAreFaults
  <1>5. \A i \in failedTask : Fine(i, MaxRetries + 1)
    <2> SUFFICES ASSUME NEW i \in failedTask
                 PROVE  Fine(i, MaxRetries + 1)
      OBVIOUS
    <2>1. i \in Tasks /\ args[i] # NoTask
      BY <1>0 DEF TaskTypeOK, TasksKnown
    <2>2. MaxRetries + 1 <= faults \/ Excused(i)
      BY <1>0, <1>2 DEF DeadLettersAreFaults, Excused
    <2> QED
      BY <1>3, <2>1, <2>2
  <1>6. ASSUME NEW w \in Workers, work[w].phase # "idle"
        PROVE  /\ work[w].retries \in Nat
               /\ Fine(work[w].id, work[w].retries)
               /\ work[w].phase = "raised" => Fine(work[w].id, work[w].retries + 1)
    <2>1. /\ work[w].id \in Tasks /\ args[work[w].id] # NoTask
          /\ work[w].retries \in Nat
      BY <1>0, <1>6, BusyWorker DEF TasksKnown
    <2>2. Attempts(w) <= faults \/ Excused(work[w].id)
      BY <1>0 DEF AttemptsAreFaults
    <2>3. work[w].retries <= faults \/ Excused(work[w].id)
      BY <1>2, <2>1, <2>2 DEF Attempts
    <2>4. work[w].phase = "raised" =>
             work[w].retries + 1 <= faults \/ Excused(work[w].id)
      BY <2>2 DEF Attempts
    <2> HIDE DEF Fine
    <2> QED
      BY <1>3, <2>1, <2>3, <2>4
  <1>7. \A w \in Workers : work[w].phase = "idle" =>
           work[w].retries = 0 /\ 0 <= faults'
    BY <1>0, <1>2 DEF TasksKnown, Idle
  <1>8. ASSUME NEW w \in Workers, work'[w] = work[w]
        PROVE  Fine(work'[w].id,
                    work'[w].retries + (IF work'[w].phase = "raised" THEN 1 ELSE 0))
    <2>1. CASE work[w].phase = "idle"
      BY <1>7, <1>8, <2>1
    <2>2. CASE work[w].phase # "idle"
      <3>1. work[w].retries \in Nat
        BY <1>6, <2>2
      <3>2. work[w].phase # "raised" => work[w].retries + 0 = work[w].retries
        BY <3>1
      <3> HIDE DEF Fine
      <3> QED
        BY <1>6, <1>8, <2>2, <3>2
    <2> QED
      BY <2>1, <2>2
  <1> HIDE DEF Fine
  \* A worker that moves without raising.
  <1>9. ASSUME NEW w \in Workers, NEW ph \in Phases \ {"raised"}, Phase(w, ph),
               work[w].phase # "idle"
        PROVE  Busy
    <2>1. /\ work'[w].id = work[w].id /\ work'[w].retries = work[w].retries
          /\ work'[w].phase # "raised"
          /\ \A v \in Workers \ {w} : work'[v] = work[v]
      BY <1>0, <1>9, PhaseMoves
    <2>2. work[w].retries \in Nat /\ Fine(work[w].id, work[w].retries)
      BY <1>6, <1>9
    <2>3. work[w].retries + 0 = work[w].retries
      BY <2>2
    <2> QED
      BY <1>8, <2>1, <2>2, <2>3
  \* A worker that raises, and whose next attempt is accounted for.
  <1>10. ASSUME NEW w \in Workers, Phase(w, "raised"),
                Fine(work[w].id, work[w].retries + 1)
         PROVE  Busy
    <2>1. /\ work'[w].id = work[w].id /\ work'[w].retries = work[w].retries
          /\ work'[w].phase = "raised"
          /\ \A v \in Workers \ {w} : work'[v] = work[v]
      BY <1>0, <1>10, PhaseMoves DEF Phases
    <2> QED
      BY <1>8, <1>10, <2>1
  <1>11. ASSUME NEW w \in Workers, work' = [work EXCEPT ![w] = Idle]
         PROVE  Busy
    <2>1. /\ work'[w] = Idle
          /\ \A v \in Workers \ {w} : work'[v] = work[v]
      BY <1>0, <1>11 DEF WorkTyped
    <2>2. Fine(work'[w].id,
               work'[w].retries + (IF work'[w].phase = "raised" THEN 1 ELSE 0))
      BY <1>2, <2>1 DEF Idle, Fine
    <2> QED
      BY <1>8, <2>1, <2>2
  <1>12. ASSUME UNCHANGED <<queue, failedTask, work>>
         PROVE  Messages /\ Busy /\ Dead
    BY <1>4, <1>5, <1>8, <1>12
  <1>13. ASSUME NEW i \in Tasks, NEW r \in Reservations \cup {NoRow},
                NEW k \in Keys, Submit(i, r, k)
         PROVE  Messages /\ Busy /\ Dead
    <2>1. /\ queue' = queue \cup {<<i, 0>>}
          /\ UNCHANGED <<work, failedTask>>
      BY <1>13 DEF Submit
    <2>2. Fine(i, 0)
      BY <1>2 DEF Fine
    <2> QED
      BY <1>4, <1>5, <1>8, <2>1, <2>2
  <1>14. ASSUME NEW w \in Workers, NEW m \in queue, Take(w, m)
         PROVE  Messages /\ Busy /\ Dead
    <2>1. /\ queue' \subseteq queue /\ failedTask' = failedTask
          /\ work' = [work EXCEPT ![w] = [id |-> m[1], retries |-> m[2],
                                          phase |-> "taken"]]
      BY <1>14 DEF Take
    <2>2. /\ work'[w].id = m[1] /\ work'[w].retries = m[2]
          /\ work'[w].phase = "taken"
          /\ \A v \in Workers \ {w} : work'[v] = work[v]
      BY <1>0, <2>1 DEF WorkTyped
    <2>3. m[2] + 0 = m[2]
      BY <1>0 DEF TaskTypeOK
    <2> QED
      BY <1>4, <1>5, <1>8, <2>1, <2>2, <2>3
  <1>15. ASSUME NEW w \in Workers, Start(w)
         PROVE  Messages /\ Busy /\ Dead
    <2>1. work[w].phase = "taken" /\ UNCHANGED <<queue, failedTask>>
      BY <1>15 DEF Start
    <2>2. \/ \E ph \in Phases \ {"raised"} : Phase(w, ph)
          \/ ~ Exists(Res(w)) /\ Phase(w, "raised")
      BY <1>15 DEF Start, Phases
    <2>3. ~ Exists(Res(w)) => Fine(work[w].id, work[w].retries + 1)
      <3>1. /\ work[w].id \in Tasks /\ args[work[w].id] # NoTask
            /\ work[w].retries + 1 \in Nat
        BY <1>0, <2>1, BusyWorker DEF TasksKnown
      <3>2. Exists(Res(w)) \/ Excused(work[w].id)
        BY <1>0, <3>1 DEF TasksKnown, Res
      <3> QED
        BY <1>3, <3>1, <3>2
    <2>4. Busy
      BY <1>9, <1>10, <2>1, <2>2, <2>3
    <2> QED
      BY <1>4, <1>5, <2>1, <2>4
  <1>16. ASSUME NEW w \in Workers,
                (\E ok \in BOOLEAN : Capture(w, ok)) \/ CommitPurchase(w)
         PROVE  Messages /\ Busy /\ Dead
    <2>1. /\ work[w].phase # "idle" /\ UNCHANGED <<queue, failedTask>>
          /\ \E ph \in Phases \ {"raised"} : Phase(w, ph)
      BY <1>16 DEF Capture, CommitPurchase, Phases
    <2>2. Busy
      BY <1>9, <2>1
    <2> QED
      BY <1>4, <1>5, <2>1, <2>2
  <1>17. ASSUME NEW w \in Workers, TransientError(w)
         PROVE  Messages /\ Busy /\ Dead
    <2>1. /\ work[w].phase \notin {"idle", "raised"} /\ faults' = faults + 1
          /\ Phase(w, "raised") /\ UNCHANGED <<queue, failedTask>>
      BY <1>17 DEF TransientError, Open
    <2>2. /\ work[w].id \in Tasks /\ args[work[w].id] # NoTask
          /\ work[w].retries \in Nat
      BY <1>0, <2>1, BusyWorker DEF TasksKnown
    <2>3. work[w].retries <= faults \/ Excused(work[w].id)
      BY <1>0, <2>1, <2>2 DEF AttemptsAreFaults, Attempts
    <2>4. Fine(work[w].id, work[w].retries + 1)
      BY <1>2, <2>1, <2>2, <2>3, ArgumentsFixed DEF Fine, Excused
    <2>5. Busy
      BY <1>10, <2>1, <2>4
    <2> QED
      BY <1>4, <1>5, <2>1, <2>5
  <1>18. ASSUME NEW w \in Workers, Retry(w) \/ GiveUp(w) \/ GiveUpUnrecorded(w)
         PROVE  Messages /\ Busy /\ Dead
    <2>1. /\ work[w].phase = "raised"
          /\ \E ph \in Phases \ {"raised"} : Phase(w, ph)
      BY <1>18 DEF Retry, GiveUp, GiveUpUnrecorded, Phases
    <2>2. Busy
      BY <1>9, <2>1
    <2>3. Fine(work[w].id, work[w].retries + 1)
      BY <1>6, <2>1
    <2>4. queue' = queue \/ queue' = queue \cup {<<work[w].id, work[w].retries + 1>>}
      BY <1>18 DEF Retry, GiveUp, GiveUpUnrecorded
    <2>5. \/ failedTask' = failedTask
          \/ failedTask' = failedTask \cup {work[w].id} /\ work[w].retries = MaxRetries
      BY <1>18 DEF Retry, GiveUp, GiveUpUnrecorded
    <2> QED
      BY <1>4, <1>5, <2>2, <2>3, <2>4, <2>5
  <1>19. ASSUME NEW w \in Workers, Ack(w) \/ WorkerDies(w)
         PROVE  Messages /\ Busy /\ Dead
    <2>1. /\ work[w].phase # "idle" /\ failedTask' = failedTask
          /\ work' = [work EXCEPT ![w] = Idle]
          /\ queue' \subseteq queue \cup {<<work[w].id, work[w].retries>>}
      BY <1>0, <1>19 DEF Ack, WorkerDies, TasksKnown
    <2>2. Busy
      BY <1>11, <2>1
    <2>3. Fine(work[w].id, work[w].retries)
      BY <1>6, <2>1
    <2> QED
      BY <1>4, <1>5, <2>1, <2>2, <2>3
  <1>20. CASE UNCHANGED everyVar
    BY <1>12, <1>20 DEF everyVar, taskVars
  <1>21. CASE Elsewhere \/ \E e \in Events : DeleteEvent(e)
    BY <1>12, <1>21 DEF Elsewhere, DeleteEvent, taskVars
  <1> HIDE DEF Messages, Busy, Dead
  <1> QED
    BY <1>13, <1>14, <1>15, <1>16, <1>17, <1>18, <1>19, <1>20, <1>21
       DEF TaskNext, WorkerStep

-----------------------------------------------------------------------------
(* The theorems.                                                           *)

\* No task has been submitted.
LEMMA TaskInvInit == TaskInit => TaskInv
  <1> SUFFICES ASSUME TaskInit
               PROVE  TaskInv
    OBVIOUS
  <1> USE TaskAssumption, ConstantsAssumption DEF TaskInit
  <1>1. Inv /\ TypeOK
    BY InvInit DEF Inv
  <1>2. TaskTypeOK /\ WorkTyped /\ TasksKnown
    BY <1>1 DEF TaskTypeOK, WorkTyped, TasksKnown, Idle, Phases
  <1>3. LocksHold /\ AttemptsAreFaults /\ DeadLettersAreFaults
    BY DEF LocksHold, Open, Idle, AttemptsAreFaults, Attempts, DeadLettersAreFaults
  <1>4. ChargesExplained
    <2> SUFFICES ASSUME NEW k \in Keys
                 PROVE  Due(k) <= charges[k] /\ charges[k] <= Due(k) + faults
      BY DEF ChargesExplained, Due
    <2>1. InFlight(k) = {}
      BY DEF InFlight, Idle
    <2>2. Cardinality(InFlight(k)) = 0
      BY <2>1, FS_EmptySet, Zenon
    <2> HIDE DEF TaskInit
    <2>3. /\ ~ Paid(k) /\ orphaned[k] = 0 /\ charges[k] = 0 /\ faults = 0
      BY DEF TaskInit, Init, Paid
    <2> QED
      BY <2>2, <2>3 DEF Due
  <1> QED
    BY <1>1, <1>2, <1>3, <1>4, Zenon DEF TaskInv

\* Every step of workers, broker, other transactions and deletions keeps it.
LEMMA TaskInvStep == TaskInv /\ [TaskNext]_everyVar => TaskInv'
  BY StepKeepsInv, StepKeepsTypes, StepKeepsTasks, StepKeepsLocks,
     StepKeepsCharges, StepKeepsAttempts, Zenon DEF TaskInv

\* The inductive invariant of PurchaseTask holds of every reachable state.
THEOREM TaskInvariance == TaskSpec => []TaskInv
  BY TaskInvInit, TaskInvStep, PTL DEF TaskSpec

\* Messages, workers, results, charges and deletions keep their types.
THEOREM TasksTyped == TaskSpec => []TaskTypeOK
  <1>1. TaskInv => TaskTypeOK
    BY DEF TaskInv
  <1> QED
    BY <1>1, TaskInvariance, PTL

\* Whatever the number of workers, duplicates and redeliveries: what the
\* provider captured for a key is what is due for its paid order, for the
\* capture in flight and for deleted orders, and at most one more per fault.
THEOREM ChargesBalance == TaskSpec => []ChargesExplained
  <1>1. TaskInv => ChargesExplained
    BY DEF TaskInv
  <1> QED
    BY <1>1, TaskInvariance, PTL

\* A task is dead-lettered only after a fault per attempt, unless there is no
\* reservation for it.
THEOREM OnlyFaultsDeadLetter == TaskSpec => []DeadLettersAreFaults
  <1>1. TaskInv => DeadLettersAreFaults
    BY DEF TaskInv
  <1> QED
    BY <1>1, TaskInvariance, PTL

\* No step answers a request with "refused" while its key has a paid order.
THEOREM PaidStaysAccepted == TaskSpec => PaidIsNotRefused
  <1> DEFINE A == \A w \in Workers :
                     work[w].phase # "refused" /\ work'[w].phase = "refused"
                        => ~ Paid(Key(w))
  <1>1. TaskInv /\ [TaskNext]_everyVar => [A]_everyVar
    <2> SUFFICES ASSUME TaskInv, TaskNext, NEW w \in Workers,
                        work[w].phase # "refused", work'[w].phase = "refused"
                 PROVE  ordStatus[Key(w)] = "none"
      BY DEF Paid
    <2>1. WorkTyped
      BY DEF TaskInv
    <2>2. ASSUME NEW v \in Workers, NEW ph \in Phases, Phase(v, ph)
          PROVE  v = w /\ ph = "refused"
      BY <2>1, <2>2, PhaseMoves
    <2>3. ASSUME NEW v \in Workers, NEW x, x.phase # "refused",
                 work' = [work EXCEPT ![v] = x]
          PROVE  FALSE
      BY <2>1, <2>3 DEF WorkTyped
    <2>4. ASSUME NEW v \in Workers, Start(v)
          PROVE  ordStatus[Key(w)] = "none"
      <3>1. \E ph \in {"raised", "order", "create_order"} : Phase(v, ph)
            \/ (Phase(v, "refused") /\ ordStatus[Key(v)] = "none")
        BY <2>4 DEF Start
      <3> QED
        BY <2>2, <3>1 DEF Phases
    <2>5. ASSUME NEW v \in Workers, CommitPurchase(v)
          PROVE  ordStatus[Key(w)] = "none"
      <3>1. \E ph \in {"order", "refused"} : Phase(v, ph)
        BY <2>5 DEF CommitPurchase
      <3>2. v = w
        BY <2>2, <3>1 DEF Phases
      <3> QED
        BY <2>5, <3>2, CommitHasLocks
    <2>6. ASSUME NEW v \in Workers,
                 (\E ok \in BOOLEAN : Capture(v, ok)) \/ Retry(v) \/ GiveUp(v)
                 \/ TransientError(v) \/ GiveUpUnrecorded(v)
          PROVE  FALSE
      <3>1. \E ph \in {"captured", "declined", "retried", "failed", "raised"} : Phase(v, ph)
        BY <2>6 DEF Capture, Retry, GiveUp, TransientError, GiveUpUnrecorded
      <3> QED
        BY <2>2, <3>1 DEF Phases
    <2>7. ASSUME NEW v \in Workers,
                 (\E m \in queue : Take(v, m)) \/ Ack(v) \/ WorkerDies(v)
          PROVE  FALSE
      BY <2>3, <2>7 DEF Take, Ack, WorkerDies, Idle
    <2>8. work' # work
      OBVIOUS
    <2> QED
      BY <2>4, <2>5, <2>6, <2>7, <2>8
         DEF TaskNext, WorkerStep, Submit, Elsewhere, taskVars, DeleteEvent
  <1> QED
    BY <1>1, TaskInvariance, PTL DEF TaskSpec, PaidIsNotRefused

\* A commit after a capture is never refused by a CHECK constraint, although
\* the clock, the other workers and deletions went on since the checks.
THEOREM OpenCapturesSettle == TaskSpec => []CaptureCanSettle
  <1>1. TaskInv => CaptureCanSettle
    BY InvSettles DEF TaskInv
  <1> QED
    BY <1>1, TaskInvariance, PTL

\* The counters go on agreeing with the rows when sales are split at the
\* capture and whole events are deleted in between.
THEOREM ZeroDriftThroughTasks == TaskSpec => []CountersMatchRows
  <1>1. TaskInv => CountersMatchRows
    BY DEF TaskInv, Inv
  <1> QED
    BY <1>1, TaskInvariance, PTL

\* The rest of the system sees of a purchase one transaction, that of its
\* commit: every step of the workers, the broker and the clock changes the
\* database as a transaction of Inventory does, if later than it was checked.
THEOREM TasksAreTransactions ==
    TaskSpec => [][LateNext \/ \E e \in Events : DeleteRows(e, Gone(e))]_vars
  <1>1. TaskInv /\ [TaskNext]_everyVar
           => [LateNext \/ \E e \in Events : DeleteRows(e, Gone(e))]_vars
    BY TaskStepIsLate
  <1> QED
    BY <1>1, TaskInvariance, PTL DEF TaskSpec

\* Nor is anything oversold.
THEOREM ZeroOversellThroughTasks == TaskSpec => []NoOversell
  <1>1. TaskInv => NoOversell
    BY InvNoOversell DEF TaskInv
  <1> QED
    BY <1>1, TaskInvariance, PTL

\* Nor is the record of a refund refused after it was paid out, while purchases
\* are open and events deleted.
THEOREM RefundsSettleThroughTasks == TaskSpec => []RefundCanSettle
  <1>1. TaskInv => RefundCanSettle
    BY InvRefundsSettle DEF TaskInv
  <1> QED
    BY <1>1, TaskInvariance, PTL

\* Duplicate tasks, redelivered messages and retries sell a reservation once,
\* and an event that is deleted takes both with it.
THEOREM OnePaidOrderThroughTasks == TaskSpec => []SoldOnce
  <1>1. TaskInit => SoldOnce
    BY SoldOnceInit DEF TaskInit
  <1>2. TaskInv /\ SoldOnce /\ [TaskNext]_everyVar => SoldOnce'
    BY TaskStepIsLate, StepKeepsSoldOnce, DeleteKeepsSoldOnce DEF TaskInv
  <1> QED
    BY <1>1, <1>2, TaskInvariance, PTL DEF TaskSpec

\* An order that a task commits late, while others are refunded or deleted, has
\* the tickets its status says.
THEOREM StatusTellsTicketsThroughTasks == TaskSpec => []OrderMatchesTickets
  <1>1. TaskInit => OrderMatchesTickets
    BY MatchInit DEF TaskInit
  <1>2. TaskInv /\ OrderMatchesTickets /\ [TaskNext]_everyVar => OrderMatchesTickets'
    BY TaskStepIsLate, StepKeepsMatch, DeleteKeepsMatch DEF TaskInv
  <1> QED
    BY <1>1, <1>2, TaskInvariance, PTL DEF TaskSpec

\* A ticket is paid back once, whatever is sold or deleted meanwhile.
THEOREM RefundsPayOnceThroughTasks == TaskSpec => []RefundedOnce
  <1>1. TaskInv => RefundedOnce
    BY DEF TaskInv, Inv
  <1> QED
    BY <1>1, TaskInvariance, PTL
=============================================================================
