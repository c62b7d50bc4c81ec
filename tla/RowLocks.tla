----------------------------- MODULE RowLocks -----------------------------
(***************************************************************************)
(* The transactions of the ticket shop as PostgreSQL interleaves them      *)
(* (READ COMMITTED): every call runs in a process of its own, takes the    *)
(* row locks of its SELECT ... FOR UPDATE one at a time, in the order of   *)
(* the joined tables, reads and checks what it locked, calls the payment   *)
(* provider while it holds the locks, and writes at its COMMIT what        *)
(* Inventory says it writes, from the values it READ.  Locks are released  *)
(* after the commit is visible.  A call may fail at any point before it    *)
(* commits and is then rolled back.                                        *)
(*                                                                         *)
(* select_related makes Django lock the joined rows too: create_reservation*)
(* locks TicketType and Event, cancel_reservation Reservation and          *)
(* TicketType, process_purchase Reservation, User, TicketType and Event.   *)
(* The foreign keys are checked at COMMIT (DEFERRABLE INITIALLY DEFERRED), *)
(* so a new Reservation waits there for whoever has locked its user.       *)
(***************************************************************************)
EXTENDS Inventory, Sequences

CONSTANTS
    Procs,        \* web requests and Celery tasks that can be open at once
    Users,        \* User rows
    Ops,          \* the operations this instance calls
    MayFail,      \* whether open calls may fail in this instance
    Free,         \* no process holds the lock
    MaxCalls,     \* bound on the calls made, the sweep's not counted
    Unlimited     \* MaxCalls = Unlimited: calls never stop

ASSUME LocksAssumption ==
    /\ Ops \subseteq {"create", "cancel", "purchase", "refund", "sweep"}
    /\ MayFail \in BOOLEAN
    /\ Free \notin Procs
    /\ NoRow \notin Keys
    /\ MaxCalls \in Nat \cup {Unlimited}

VARIABLES
    lock,      \* holder of each row lock
    pc,        \* where each process is in its call
    local,     \* the call's arguments and what it has read so far
    todo,      \* rows the SELECT ... FOR UPDATE still has to lock, in order
    resUser,   \* Reservation.user
    calls      \* calls made so far

lockVars == <<lock, pc, local, todo, resUser, calls>>
allVars  == <<vars, lockVars>>

-----------------------------------------------------------------------------
Rows ==
    ({"type"} \X TicketTypes) \cup ({"event"} \X Events)
    \cup ({"res"} \X Reservations) \cup ({"user"} \X Users)
    \cup ({"order"} \X Keys)

\* The local variables of a call: arguments (an argument is chosen by the
\* step that first uses it) and values read from the database.
NoCall == [op |-> "none", type |-> NoRow, res |-> NoRow, key |-> NoRow,
           user |-> NoRow, qty |-> 0, held |-> 0, rows |-> {},
           paid |-> FALSE]

\* Faulty variants of the four below: no row lock, the event not locked, the
\* ticket type locked before the reservation.
CreateRowsUnlocked(t)     == <<>>
CancelRowsSwapped(r)      == << <<"type", resType[r]>>, <<"res", r>> >>
PurchaseRowsButEvent(r)   == << <<"res", r>>, <<"user", resUser[r]>>,
                                <<"type", resType[r]>> >>
RefundRowsUnlocked(k)     == <<>>

\* The rows locked by the SELECT ... FOR UPDATE of each call, in join order.
CreateRows(t)   == << <<"type", t>>, <<"event", EventOf[t]>> >>
CancelRows(r)   == << <<"res", r>>, <<"type", resType[r]>> >>
PurchaseRows(r) == << <<"res", r>>, <<"user", resUser[r]>>,
                      <<"type", resType[r]>>, <<"event", EventOf[resType[r]]>> >>
RefundRows(k)   == << <<"order", k>> >>

At(p, op, where) == local[p].op = op /\ pc[p] = where

\* The row a process needs for its next step besides those it holds: the next
\* of its SELECT; the key of its Order, while another transaction's insert of
\* it is uncommitted; the user its Reservation references; or the TicketType
\* its UPDATE changes.
NextRow(p) ==
    CASE pc[p] = "locking" -> {Head(todo[p])}
      [] At(p, "purchase", "insert") /\ ordStatus[local[p].key] = "none" ->
            {<<"order", local[p].key>>}
      [] At(p, "create", "write") -> {<<"user", local[p].user>>}
      [] At(p, "refund", "write") -> {<<"type", OrderType(local[p].key)>>}
      [] OTHER -> {}

Blockers(p) == {lock[row] : row \in NextRow(p)} \ {Free, p}

\* Processes that wait for one another, with no proper part that does: the
\* cycle PostgreSQL's deadlock detector looks for.
Stuck(S) == S # {} /\ \A p \in S : Blockers(p) # {} /\ Blockers(p) \subseteq S
WaitCycle(S) == Stuck(S) /\ \A T \in SUBSET S : Stuck(T) => T = S

-----------------------------------------------------------------------------
LocksInit ==
    /\ Init
    /\ lock = [row \in Rows |-> Free]
    /\ pc = [p \in Procs |-> "idle"]
    /\ local = [p \in Procs |-> NoCall]
    /\ todo = [p \in Procs |-> <<>>]
    /\ resUser = [r \in Reservations |-> NoRow]
    /\ calls = 0

\* A request arrives, or a worker takes a task.
Begin(p, c, rows) ==
    /\ c.op \in Ops
    /\ pc[p] = "idle"
    /\ IF MaxCalls = Unlimited \/ c.op = "sweep"
       THEN UNCHANGED calls
       ELSE calls < MaxCalls /\ calls' = calls + 1
    /\ local' = [local EXCEPT ![p] = c]
    /\ todo' = [todo EXCEPT ![p] = rows]
    /\ pc' = [pc EXCEPT ![p] = IF rows = <<>> THEN "check" ELSE "locking"]
    /\ UNCHANGED <<vars, lock, resUser>>

\* Bound: a create_reservation starts only while the pool has an id for it.
IdsLeft ==
    Cardinality({q \in Procs : local[q].op = "create"})
        < Cardinality({r \in Reservations : resStatus[r] = "none"})

BeginCreate(p, t) ==
    /\ IdsLeft
    /\ Begin(p, [NoCall EXCEPT !.op = "create", !.type = t], CreateRows(t))
BeginCancel(p, r) ==
    /\ resStatus[r] # "none"
    /\ Begin(p, [NoCall EXCEPT !.op = "cancel", !.res = r], CancelRows(r))
BeginPurchase(p, r) ==
    /\ resStatus[r] # "none"
    /\ Begin(p, [NoCall EXCEPT !.op = "purchase", !.res = r], PurchaseRows(r))
BeginRefund(p, k) ==
    /\ ordStatus[k] # "none"
    /\ Begin(p, [NoCall EXCEPT !.op = "refund", !.key = k], RefundRows(k))
BeginSweep(p) ==
    Begin(p, [NoCall EXCEPT !.op = "sweep"], <<>>)

\* The SELECT locks the next row.
Acquire(p) ==
    /\ pc[p] = "locking"
    /\ lock[Head(todo[p])] = Free
    /\ lock' = [lock EXCEPT ![Head(todo[p])] = p]
    /\ todo' = [todo EXCEPT ![p] = Tail(@)]
    /\ pc' = [pc EXCEPT ![p] = IF Len(todo[p]) = 1 THEN "check" ELSE "locking"]
    /\ UNCHANGED <<vars, local, resUser, calls>>

\* The transaction is over: its locks go and the process is free.
Leave(p) ==
    /\ lock' = [row \in Rows |-> IF lock[row] = p THEN Free ELSE lock[row]]
    /\ pc' = [pc EXCEPT ![p] = "idle"]
    /\ local' = [local EXCEPT ![p] = NoCall]
    /\ todo' = [todo EXCEPT ![p] = <<>>]
    /\ UNCHANGED <<vars, resUser, calls>>

\* The call goes on, with what it has read.
Proceed(p, where, loc) ==
    /\ pc' = [pc EXCEPT ![p] = where]
    /\ local' = [local EXCEPT ![p] = loc]
    /\ UNCHANGED <<vars, todo, resUser, calls>>

\* The writes of p's transaction are committed and visible; its locks are
\* released by a step of its own.
Commit(p) ==
    /\ pc' = [pc EXCEPT ![p] = "committed"]
    /\ UNCHANGED <<lock, local, todo, calls>>

Release(p) == pc[p] = "committed" /\ Leave(p)

-----------------------------------------------------------------------------
\* create_reservation for user u and quantity q: the checks, on the locked
\* rows; it raises or goes on with the value of held it read.
CreateCheck(p, u, q) ==
    LET t == local[p].type IN
    /\ At(p, "create", "check")
    /\ IF onSale[t] /\ ~ paused[EventOf[t]] /\ Available(t) >= q
       THEN /\ Proceed(p, "write", [local[p] EXCEPT !.user = u, !.qty = q,
                                                    !.held = held[t]])
            /\ UNCHANGED lock
       ELSE Leave(p)

\* The writes; COMMIT checks the foreign key to the user, which waits for a
\* transaction that locked the user.
CreateWrite(p, r) ==
    LET c == local[p] IN
    /\ At(p, "create", "write")
    /\ Blockers(p) = {}
    /\ resStatus[r] = "none"
    /\ WriteHold(r, c.type, c.qty, c.held)
    /\ resUser' = [resUser EXCEPT ![r] = c.user]
    /\ Commit(p)

\* cancel_reservation.
CancelCheck(p) ==
    /\ At(p, "cancel", "check")
    /\ IF resStatus[local[p].res] = "active"
       THEN Proceed(p, "write", local[p]) /\ UNCHANGED lock
       ELSE Leave(p)

CancelWrite(p) ==
    /\ At(p, "cancel", "write")
    /\ WriteCancel(local[p].res)
    /\ Commit(p) /\ UNCHANGED resUser

\* Faulty variant: a duplicate polls until the order it found is confirmed.
PurchaseCheckAwaitsSale(p, k) ==
    LET r == local[p].res IN
    /\ At(p, "purchase", "check")
    /\ IF ordStatus[k] = "failed"
       THEN UNCHANGED allVars
       ELSE IF ordStatus[k] # "none"
       THEN WriteCollision(k) /\ Commit(p) /\ UNCHANGED resUser
       ELSE IF MayPurchase(r, k)
       THEN Proceed(p, "insert", [local[p] EXCEPT !.key = k]) /\ UNCHANGED lock
       ELSE Leave(p)

\* process_purchase with idempotency key k: the checks on the locked rows.
PurchaseCheck(p, k) ==
    LET r == local[p].res IN
    /\ At(p, "purchase", "check")
    /\ IF ordStatus[k] # "none"
       THEN WriteCollision(k) /\ Commit(p) /\ UNCHANGED resUser
       ELSE IF MayPurchase(r, k)
       THEN Proceed(p, "insert", [local[p] EXCEPT !.key = k]) /\ UNCHANGED lock
       ELSE Leave(p)

\* The eager insert of the Order.  An uncommitted insert of the same key by
\* another transaction makes it wait; a committed one is an IntegrityError,
\* and the call hands out the winner's Order.
PurchaseInsert(p) ==
    LET k == local[p].key IN
    /\ At(p, "purchase", "insert")
    /\ Blockers(p) = {}
    /\ IF ordStatus[k] = "none"
       THEN /\ Proceed(p, "capture", local[p])
            /\ lock' = [lock EXCEPT ![<<"order", k>>] = p]
       ELSE WriteCollision(k) /\ Commit(p) /\ UNCHANGED resUser

\* The provider answers.
PurchaseCapture(p, ok) ==
    /\ At(p, "purchase", "capture")
    /\ Proceed(p, "write", [local[p] EXCEPT !.paid = ok]) /\ UNCHANGED lock

PurchaseWrite(p) ==
    LET c == local[p] IN
    /\ At(p, "purchase", "write")
    /\ IF c.paid THEN WriteSale(c.res, c.key) ELSE WriteDecline(c.res, c.key)
    /\ Commit(p) /\ UNCHANGED resUser

\* issue_refund for the tickets ids: reads the locked Order and its tickets,
\* and calls the provider.
RefundCheck(p, ids) ==
    LET k == local[p].key IN
    /\ At(p, "refund", "check")
    /\ IF MayRefund(k, ids)
       THEN /\ Proceed(p, "write", [local[p] EXCEPT !.rows = RefundTargets(k, ids)])
            /\ UNCHANGED lock
       ELSE Leave(p)

RefundWrite(p) ==
    /\ At(p, "refund", "write")
    /\ Blockers(p) = {}
    /\ WriteRefund(local[p].key, local[p].rows)
    /\ Commit(p) /\ UNCHANGED resUser

\* Faulty variant: the comparison with expires_at is the wrong way round.
SweepUnlockedNotLapsed ==
    {r \in ActiveReservations \ lapsed : lock[<<"res", r>>] = Free}

\* sweep_expired_reservations: SKIP LOCKED passes over a reservation that is
\* locked and over one whose ticket type is; a reservation it locked before
\* it met the locked type stays locked.
SweepUnlocked ==
    {r \in lapsed : lock[<<"res", r>>] = Free}
SweepSelected ==
    {r \in SweepUnlocked : lock[<<"type", resType[r]>>] = Free}

SweepCheck(p) ==
    LET rows == ({"res"} \X SweepUnlocked)
                   \cup {<<"type", resType[r]>> : r \in SweepSelected}
    IN
    /\ At(p, "sweep", "check")
    /\ IF SweepSelected # {}
       THEN /\ Proceed(p, "write", [local[p] EXCEPT !.rows = SweepSelected])
            /\ lock' = [row \in Rows |-> IF row \in rows THEN p ELSE lock[row]]
       ELSE Leave(p)

SweepWrite(p) ==
    /\ At(p, "sweep", "write")
    /\ WriteExpiry(local[p].rows)
    /\ Commit(p) /\ UNCHANGED resUser

-----------------------------------------------------------------------------
\* The call fails before its COMMIT (lost connection, killed worker, refused
\* constraint, failed refund): PostgreSQL rolls it back.
Rollback(p) ==
    /\ MayFail
    /\ pc[p] \notin {"idle", "committed"}
    /\ Leave(p)

\* PostgreSQL breaks a wait cycle by failing one of its members.
DeadlockVictim(p) ==
    /\ \E S \in SUBSET Procs : p \in S /\ WaitCycle(S)
    /\ Leave(p)

\* The admin actions update the Event row, which waits for its lock.
PauseUnlocked(e) ==
    /\ lock[<<"event", e>>] = Free
    /\ PauseSales(e) \/ ResumeSales(e)
    /\ UNCHANGED lockVars

Clock(r) == Lapse(r) /\ UNCHANGED lockVars

\* One step of an open call, other than its failure.
Step(p) ==
    \/ Acquire(p)
    \/ \E u \in Users, q \in Units : CreateCheck(p, u, q)
    \/ \E r \in Reservations : CreateWrite(p, r)
    \/ CancelCheck(p)
    \/ CancelWrite(p)
    \/ \E k \in Keys : PurchaseCheck(p, k)
    \/ PurchaseInsert(p)
    \/ \E ok \in BOOLEAN : PurchaseCapture(p, ok)
    \/ PurchaseWrite(p)
    \/ \E ids \in SUBSET TicketCells : RefundCheck(p, ids)
    \/ RefundWrite(p)
    \/ SweepCheck(p)
    \/ SweepWrite(p)
    \/ Release(p)

LocksNext ==
    \/ \E p \in Procs, t \in TicketTypes : BeginCreate(p, t)
    \/ \E p \in Procs, r \in Reservations : BeginCancel(p, r)
    \/ \E p \in Procs, r \in Reservations : BeginPurchase(p, r)
    \/ \E p \in Procs, k \in Keys : BeginRefund(p, k)
    \/ \E p \in Procs : BeginSweep(p)
    \/ \E p \in Procs : Step(p)
    \/ \E p \in Procs : Rollback(p)
    \/ \E p \in Procs : DeadlockVictim(p)
    \/ \E e \in Events : PauseUnlocked(e)
    \/ \E r \in Reservations : Clock(r)

LocksSpec == LocksInit /\ [][LocksNext]_allVars

\* An open call goes on, PostgreSQL hands a released lock to a waiter and
\* breaks wait cycles.  Celery Beat queues the sweep every 60 seconds, a
\* worker that keeps coming free takes it, and the sweep does not fail every
\* time it is about to select or to commit.
Fairness ==
    /\ \A p \in Procs : WF_allVars(Step(p))
    /\ \A p \in Procs : SF_allVars(Acquire(p))
    /\ \A p \in Procs : SF_allVars(SweepCheck(p)) /\ SF_allVars(SweepWrite(p))
    /\ WF_allVars(\E p \in Procs : DeadlockVictim(p))
    /\ SF_allVars(\E p \in Procs : BeginSweep(p))

FairSpec == LocksSpec /\ Fairness

-----------------------------------------------------------------------------
\* Reservations whose purchase has passed the expiry check and is not over.
PastExpiryCheck ==
    {local[p].res : p \in {q \in Procs :
        local[q].op = "purchase" /\ local[q].key # NoRow}}

\* Concurrent transactions behave as if each ran alone, at its COMMIT: the
\* locked steps implement Inventory's atomic transactions.  process_purchase
\* looks at the clock once; a reservation that lapses while its purchase goes
\* on counts as lapsed only when the purchase is over.
Atomic == INSTANCE Inventory WITH lapsed <- lapsed \ PastExpiryCheck
Linearizable == Atomic!Spec

LocksTypeOK ==
    /\ TypeOK
    /\ lock \in [Rows -> Procs \cup {Free}]
    /\ \A p \in Procs :
          /\ pc[p] \in {"idle", "locking", "check", "insert", "capture",
                        "write", "committed"}
          /\ pc[p] = "locking" <=> todo[p] # <<>>
          /\ pc[p] = "idle" <=> local[p] = NoCall
    /\ resUser \in [Reservations -> Users \cup {NoRow}]

\* The only wait cycles are those of a new reservation and a purchase of one
\* user: the reservation holds its ticket type and event and waits for the
\* user's row, which the purchase has locked before it asks for the ticket
\* type or the event.
OnlyCreateMeetsPurchase ==
    \A S \in SUBSET Procs : WaitCycle(S) =>
        \E p, q \in S :
            /\ At(p, "create", "write")
            /\ At(q, "purchase", "locking")
            /\ resUser[local[q].res] = local[p].user

\* No sale is confirmed, and no hold placed, in an event whose sales are
\* paused: pause_sales waits for the calls that have locked the event, and
\* whoever locks it later sees the switch.
PauseStopsSales ==
    [][\A r \in Reservations :
          resStatus'[r] # resStatus[r] /\ resStatus'[r] \in {"active", "confirmed"}
             => ~ paused[EventOf[resType'[r]]]]_allVars

\* Every call ends, whatever it waits for.
CallsEnd == \A p \in Procs : pc[p] # "idle" ~> pc[p] = "idle"

\* The units of a reservation nobody buys come back on sale.
HoldsReleased == \A r \in Reservations : r \in lapsed ~> r \notin lapsed
=============================================================================
