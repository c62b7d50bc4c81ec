--------------------------- MODULE PurchaseTask ---------------------------
(***************************************************************************)
(* The asynchronous purchase: PurchaseView puts a process_purchase_task on *)
(* the broker, a Celery worker takes it, runs process_purchase in one      *)
(* database transaction with the payment provider's capture in the middle  *)
(* of it, and acknowledges the message when the task function has ended    *)
(* (CELERY_TASK_ACKS_LATE).  An unexpected exception is retried max_retries*)
(* times and then handed to handle_task_failure, which writes a FailedTask *)
(* row.  A worker that dies leaves its message unacknowledged: the database*)
(* rolls its transaction back and the broker delivers the message again.   *)
(*                                                                         *)
(* The database is Inventory's; RowLocks shows that its transactions are   *)
(* atomic, so what is split here is only what the row locks do not cover:  *)
(* the capture, the commit and the acknowledgement of one task.            *)
(***************************************************************************)
EXTENDS Inventory

CONSTANTS
    Tasks,        \* pool of Celery task ids
    Workers,      \* Celery worker processes
    MaxRetries,   \* max_retries of process_purchase_task
    MaxFaults,    \* bound on worker deaths, transient errors, lost DLQ rows
    NoTask        \* a task id that is not used yet; an idle worker

ASSUME TaskAssumption ==
    /\ IsFiniteSet(Workers)
    /\ NoTask \notin Tasks \cup ((Reservations \cup {NoRow}) \X Keys)
    /\ MaxRetries \in Nat
    /\ MaxFaults \in Nat

VARIABLES
    args,       \* reservation_id and idempotency_key of each task
    queue,      \* messages waiting: task id and its retry number
    work,       \* the message each worker runs, and how far it is
    result,     \* what the result backend says of each task
    failedTask, \* task ids with a FailedTask row (the DLQ)
    charges,    \* captures the provider made, by idempotency key
    deleted,    \* events and reservations whose rows were deleted
    orphaned,   \* captures whose paid order was deleted, by idempotency key
    faults      \* faults so far

deleteVars == <<deleted, orphaned>>
taskVars == <<args, queue, work, result, failedTask, charges, deleteVars, faults>>
everyVar == <<vars, taskVars>>

Idle == [id |-> NoTask, retries |-> 0, phase |-> "idle"]

\* A worker between its SELECT ... FOR UPDATE and its COMMIT.
Open(w) == work[w].phase \in {"create_order", "captured", "declined"}

\* The reservation and the key of the task that worker w runs.
Res(w) == args[work[w].id][1]
Key(w) == args[work[w].id][2]

\* process_purchase has locked the reservation, its ticket type and its event:
\* whoever needs a row of the event waits for it to end.
Unlocked(e) == \A w \in Workers : Open(w) => EventOf[resType[Res(w)]] # e

\* An INSERT of an Order waits for an open one with its idempotency key.
KeyFree(k) == \A w \in Workers : Open(w) => Key(w) # k

\* There is a row for the id: NoRow stands for one that never had one.
Exists(r) == r # NoRow /\ resStatus[r] # "none"

Paid(k) == ordStatus[k] \notin {"none", "failed"}

Phase(w, ph) == work' = [work EXCEPT ![w].phase = ph]

-----------------------------------------------------------------------------
TaskInit ==
    /\ Init
    /\ args = [i \in Tasks |-> NoTask]
    /\ queue = {}
    /\ work = [w \in Workers |-> Idle]
    /\ result = [i \in Tasks |-> "pending"]
    /\ failedTask = {}
    /\ charges = [k \in Keys |-> 0]
    /\ deleted = {}
    /\ orphaned = [k \in Keys |-> 0]
    /\ faults = 0

\* PurchaseView.post: a key that has an Order is answered with it; otherwise
\* the task is queued, whatever else is queued for the key.  The view does
\* not look the reservation up.
Submit(i, r, k) ==
    /\ args[i] = NoTask
    /\ Exists(r) \/ r \in deleted \cup {NoRow}
    /\ ordStatus[k] = "none"
    /\ args' = [args EXCEPT ![i] = <<r, k>>]
    /\ queue' = queue \cup {<<i, 0>>}
    /\ UNCHANGED <<vars, work, result, failedTask, charges, deleteVars, faults>>

\* A worker reserves a message (prefetch multiplier 1: one at a time).
Take(w, m) ==
    /\ work[w] = Idle
    /\ m \in queue
    /\ queue' = queue \ {m}
    /\ work' = [work EXCEPT ![w] = [id |-> m[1], retries |-> m[2],
                                    phase |-> "taken"]]
    /\ UNCHANGED <<vars, args, result, failedTask, charges, deleteVars, faults>>

\* Faulty variant: the reservation is validated before the key is looked up.
StartValidatesFirst(w) ==
    LET r == Res(w)
        k == Key(w)
    IN
    /\ work[w].phase = "taken"
    /\ Exists(r) => Unlocked(EventOf[resType[r]])
    /\ \/ /\ ~ Exists(r)
          /\ Phase(w, "raised") /\ UNCHANGED vars
       \/ /\ Exists(r) /\ resStatus[r] # "active"
          /\ Phase(w, "refused") /\ UNCHANGED vars
       \/ /\ Exists(r) /\ resStatus[r] = "active"
          /\ PurchaseDuplicate(r, k)
          /\ Phase(w, "order")
       \/ /\ Exists(r) /\ MayPurchase(r, k) /\ KeyFree(k)
          /\ Phase(w, "create_order") /\ UNCHANGED vars
    /\ UNCHANGED <<args, queue, result, failedTask, charges, deleteVars, faults>>

\* Faulty variant: a domain outcome is taken for a transient error.
StartRaisesDomain(w) ==
    LET r == Res(w)
        k == Key(w)
    IN
    /\ work[w].phase = "taken"
    /\ Exists(r) => Unlocked(EventOf[resType[r]])
    /\ \/ /\ Exists(r) /\ PurchaseDuplicate(r, k)
          /\ Phase(w, "order")
       \/ /\ ~ Exists(r)
          /\ Phase(w, "raised") /\ UNCHANGED vars
       \/ /\ Exists(r) /\ ordStatus[k] = "none" /\ ~ MayPurchase(r, k)
          /\ Phase(w, "raised") /\ UNCHANGED vars
       \/ /\ Exists(r) /\ MayPurchase(r, k) /\ KeyFree(k)
          /\ Phase(w, "create_order") /\ UNCHANGED vars
    /\ UNCHANGED <<args, queue, result, failedTask, charges, deleteVars, faults>>

\* process_purchase up to the Order it creates: the reservation does not
\* exist, or it waits for its rows, and then the key has an Order, or a check
\* refuses the purchase, or it goes on to the capture.
Start(w) ==
    LET r == Res(w)
        k == Key(w)
    IN
    /\ work[w].phase = "taken"
    /\ Exists(r) => Unlocked(EventOf[resType[r]])
    /\ \/ /\ ~ Exists(r)
          /\ Phase(w, "raised") /\ UNCHANGED vars
       \/ /\ Exists(r) /\ PurchaseDuplicate(r, k)
          /\ Phase(w, "order")
       \/ /\ Exists(r) /\ ordStatus[k] = "none" /\ ~ MayPurchase(r, k)
          /\ Phase(w, "refused") /\ UNCHANGED vars
       \/ /\ Exists(r) /\ MayPurchase(r, k) /\ KeyFree(k)
          /\ Phase(w, "create_order") /\ UNCHANGED vars
    /\ UNCHANGED <<args, queue, result, failedTask, charges, deleteVars, faults>>

\* provider.capture, inside the transaction.  The key is passed on, and the
\* provider does not look at it: every successful call is a charge.
Capture(w, ok) ==
    /\ work[w].phase = "create_order"
    /\ Phase(w, IF ok THEN "captured" ELSE "declined")
    /\ charges' = IF ok THEN [charges EXCEPT ![Key(w)] = @ + 1] ELSE charges
    /\ UNCHANGED <<vars, args, queue, result, failedTask, deleteVars, faults>>

\* Faulty variant: a declined payment is confirmed like any other.
CommitPurchaseAlways(w) ==
    /\ work[w].phase \in {"captured", "declined"}
    /\ WriteSale(Res(w), Key(w))
    /\ Phase(w, "order")
    /\ UNCHANGED <<args, queue, result, failedTask, charges, deleteVars, faults>>

\* The transaction commits the sale, or the failed Order.
CommitPurchase(w) ==
    /\ \/ /\ work[w].phase = "captured"
          /\ WriteSale(Res(w), Key(w))
          /\ Phase(w, "order")
       \/ /\ work[w].phase = "declined"
          /\ WriteDecline(Res(w), Key(w))
          /\ Phase(w, "refused")
    /\ UNCHANGED <<args, queue, result, failedTask, charges, deleteVars, faults>>

\* An error that is no domain outcome (deadlock victim, lost connection,
\* provider exception) before the commit: rolled back, and caught by
\* process_purchase_task.
TransientError(w) ==
    /\ work[w].phase = "taken" \/ Open(w)
    /\ faults < MaxFaults
    /\ faults' = faults + 1
    /\ Phase(w, "raised")
    /\ UNCHANGED <<vars, args, queue, result, failedTask, charges, deleteVars>>

\* Faulty variant: one retry too many.
RetryOnceMore(w) ==
    /\ work[w].phase = "raised"
    /\ work[w].retries <= MaxRetries
    /\ queue' = queue \cup {<<work[w].id, work[w].retries + 1>>}
    /\ Phase(w, "retried")
    /\ UNCHANGED <<vars, args, result, failedTask, charges, deleteVars, faults>>

\* self.retry publishes the next attempt ...
Retry(w) ==
    /\ work[w].phase = "raised"
    /\ work[w].retries < MaxRetries
    /\ queue' = queue \cup {<<work[w].id, work[w].retries + 1>>}
    /\ Phase(w, "retried")
    /\ UNCHANGED <<vars, args, result, failedTask, charges, deleteVars, faults>>

\* ... or gives up: task_failure fires and handle_task_failure writes the
\* FailedTask row (task_id is unique).
GiveUp(w) ==
    /\ work[w].phase = "raised"
    /\ work[w].retries = MaxRetries
    /\ failedTask' = failedTask \cup {work[w].id}
    /\ Phase(w, "failed")
    /\ UNCHANGED <<vars, args, queue, result, charges, deleteVars, faults>>

\* handle_task_failure cannot write the row: it logs the error and goes on.
GiveUpUnrecorded(w) ==
    /\ work[w].phase = "raised"
    /\ work[w].retries = MaxRetries
    /\ faults < MaxFaults
    /\ faults' = faults + 1
    /\ Phase(w, "failed")
    /\ UNCHANGED <<vars, args, queue, result, failedTask, charges, deleteVars>>

\* The task function has ended: its result is stored, its message is
\* acknowledged.  A retry leaves the result pending.
Ack(w) ==
    /\ work[w].phase \in {"order", "refused", "failed", "retried"}
    /\ result' = IF work[w].phase = "retried" THEN result
                 ELSE [result EXCEPT ![work[w].id] = work[w].phase]
    /\ work' = [work EXCEPT ![w] = Idle]
    /\ UNCHANGED <<vars, args, queue, failedTask, charges, deleteVars, faults>>

\* Faulty variant: the message was acknowledged when it was taken.
WorkerDiesAckedEarly(w) ==
    /\ work[w] # Idle
    /\ faults < MaxFaults
    /\ faults' = faults + 1
    /\ work' = [work EXCEPT ![w] = Idle]
    /\ UNCHANGED <<vars, args, queue, result, failedTask, charges, deleteVars>>

\* The worker dies; the broker delivers its message again.
WorkerDies(w) ==
    /\ work[w] # Idle
    /\ faults < MaxFaults
    /\ faults' = faults + 1
    /\ queue' = queue \cup {<<work[w].id, work[w].retries>>}
    /\ work' = [work EXCEPT ![w] = Idle]
    /\ UNCHANGED <<vars, args, result, failedTask, charges, deleteVars>>

\* The rest of the system goes on; a transaction on a row of an event waits for
\* the purchase that has locked it, the clock does not.
Elsewhere ==
    /\ \/ \E r \in Reservations \ deleted, t \in TicketTypes, q \in Units :
             CreateReservation(r, t, q) /\ Unlocked(EventOf[t])
       \/ \E r \in Reservations :
             CancelReservation(r) /\ Unlocked(EventOf[resType[r]])
       \/ \E S \in SUBSET Reservations :
             SweepExpired(S) /\ \A r \in S : Unlocked(EventOf[resType[r]])
       \/ \E k \in Keys, ids \in SUBSET TicketCells :
             IssueRefund(k, ids) /\ Unlocked(EventOf[OrderType(k)])
       \/ \E e \in Events \ deleted : PauseSales(e) /\ Unlocked(e)
       \/ \E e \in Events \ deleted : ResumeSales(e) /\ Unlocked(e)
       \/ \E r \in Reservations : Lapse(r)
    /\ UNCHANGED taskVars

\* The ticket types of event e, its reservations gone, and their orders,
\* tickets and refunds are deleted; the audit log is not.
DeleteRows(e, gone) ==
    LET keys == {k \in Keys : ordRes[k] \in gone}
        kept == {x \in TicketCells : x[1] \notin keys}
    IN
    /\ onSale' = [t \in TicketTypes |-> onSale[t] /\ EventOf[t] # e]
    /\ sold' = [t \in TicketTypes |-> IF EventOf[t] = e THEN 0 ELSE sold[t]]
    /\ held' = [t \in TicketTypes |-> IF EventOf[t] = e THEN 0 ELSE held[t]]
    /\ resStatus' = [r \in Reservations |-> IF r \in gone THEN "none" ELSE resStatus[r]]
    /\ resType' = [r \in Reservations |-> IF r \in gone THEN NoRow ELSE resType[r]]
    /\ resQty' = [r \in Reservations |-> IF r \in gone THEN 0 ELSE resQty[r]]
    /\ lapsed' = lapsed \ gone
    /\ ordStatus' = [k \in Keys |-> IF k \in keys THEN "none" ELSE ordStatus[k]]
    /\ ordRes' = [k \in Keys |-> IF k \in keys THEN NoRow ELSE ordRes[k]]
    /\ activeTickets' = activeTickets \cap kept
    /\ refundedTickets' = refundedTickets \cap kept
    /\ refunds' = [x \in TicketCells |-> IF x \in kept THEN refunds[x] ELSE 0]
    /\ orphaned' = [k \in Keys |-> IF k \in keys /\ Paid(k) THEN orphaned[k] + 1
                                   ELSE orphaned[k]]
    /\ paused' = [f \in Events |-> paused[f] /\ f # e]
    /\ UNCHANGED <<capacity, audit>>

\* EventViewSet.destroy, or the admin site: the deletion cascades, and what was
\* captured for the orders stays captured.  It waits for the rows of the event.
DeleteEvent(e) ==
    LET gone == {r \in Reservations : Exists(r) /\ EventOf[resType[r]] = e} IN
    /\ e \notin deleted
    /\ Unlocked(e)
    /\ deleted' = deleted \cup {e} \cup gone
    /\ DeleteRows(e, gone)
    /\ UNCHANGED <<args, queue, work, result, failedTask, charges, faults>>

WorkerStep(w) ==
    \/ \E m \in queue : Take(w, m)
    \/ Start(w)
    \/ \E ok \in BOOLEAN : Capture(w, ok)
    \/ CommitPurchase(w)
    \/ Retry(w)
    \/ GiveUp(w)
    \/ Ack(w)

TaskNext ==
    \/ \E i \in Tasks, r \in Reservations \cup {NoRow}, k \in Keys : Submit(i, r, k)
    \/ \E w \in Workers : WorkerStep(w)
    \/ \E w \in Workers : TransientError(w)
    \/ \E w \in Workers : GiveUpUnrecorded(w)
    \/ \E w \in Workers : WorkerDies(w)
    \/ Elsewhere
    \/ \E e \in Events : DeleteEvent(e)

TaskSpec == TaskInit /\ [][TaskNext]_everyVar

\* Workers keep running.
FairTaskSpec == TaskSpec /\ \A w \in Workers : WF_everyVar(WorkerStep(w))

-----------------------------------------------------------------------------
TaskTypeOK ==
    /\ TypeOK
    /\ args \in [Tasks -> ((Reservations \cup {NoRow}) \X Keys) \cup {NoTask}]
    /\ queue \subseteq Tasks \X (0 .. MaxRetries)
    /\ result \in [Tasks -> {"pending", "order", "refused", "failed"}]
    /\ failedTask \subseteq Tasks
    /\ charges \in [Keys -> Nat]
    /\ deleted \subseteq Events \cup Reservations
    /\ orphaned \in [Keys -> Nat]
    /\ faults \in 0 .. MaxFaults

\* Captures of key k whose transaction has not ended.
InFlight(k) ==
    {w \in Workers : work[w].phase = "captured" /\ Key(w) = k}

\* The unique idempotency_key prevents duplicate charges: a key is never
\* captured twice.
NoDuplicateCharge == \A k \in Keys : charges[k] <= 1

\* Nobody is charged twice or for nothing, and nothing is sold unpaid, however
\* the duplicates of a request interleave: a key has one capture when its
\* order is paid and none when it is not, one for each order it had that was
\* deleted with its event, and every capture beyond that was cut off from its
\* commit by a fault of its own.  A deletion never does that.
ChargesExplained ==
    \A k \in Keys :
        LET due == (IF Paid(k) THEN 1 ELSE 0) + Cardinality(InFlight(k)) + orphaned[k]
        IN  due <= charges[k] /\ charges[k] <= due + faults

\* A purchase lands in the DLQ only after max_retries + 1 attempts failed for
\* reasons other than the domain: one on a reservation that exists reaches it
\* only through that many faults, unless its event is deleted meanwhile.
DeadLettersAreFaults ==
    \A i \in failedTask :
        faults > MaxRetries \/ args[i][1] \in deleted \cup {NoRow}

\* A task that was given up is in the DLQ.
DeadLettersRecorded ==
    \A i \in Tasks : result[i] = "failed" => i \in failedTask

\* A purchase that went through is not refused when its message, or another
\* request with its key, comes again: the attempt finds the order before it
\* looks at the reservation, which is no longer active by then.
PaidIsNotRefused ==
    [][\A w \in Workers :
          work[w].phase # "refused" /\ work'[w].phase = "refused"
             => ~ Paid(Key(w))]_everyVar

\* Every accepted purchase request is answered.
RequestsAnswered ==
    \A i \in Tasks : args[i] # NoTask ~> result[i] # "pending"
=============================================================================
