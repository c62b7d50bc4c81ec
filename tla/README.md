# Verification of the ticket shop

TLA+ models of this repository's ticket shop (a Django application on PostgreSQL
with Celery workers), checked with TLC and, for the core, proved with TLAPS.
Paths below are relative to the repository's root.

## 1. The system

A customer reserves tickets (`POST /reservations`): the units move from
*available* to `TicketType.held` for `hold_duration_minutes`. A purchase request
is queued, a Celery worker captures the payment and moves the units from `held`
to `sold`, issuing one `Ticket` row per unit. A hold that is not bought is
cancelled by its owner or expired by a periodic sweep. A refund takes tickets
back and lowers `sold`. A nightly job compares the counters with the rows.

### Components

| Component | State | Operations | Hard behaviour | What makes it correct |
|---|---|---|---|---|
| Reservation service, `orders/services/reservation_service.py` | `TicketType.held`, `Reservation` | create, cancel | read-modify-write under a row lock; the last units; double cancel | no lost update, no oversell, each hold released once |
| Purchase service, `orders/services/purchase_service.py` | `Order`, `Ticket`, counters | process_purchase | duplicate keys, expiry while it runs, capture inside the transaction, decline | one paid order per reservation, charges match sales |
| Refund service, `orders/services/refund_service.py` | `Refund`, `Ticket`, `sold` | issue_refund | overlapping partial refunds, provider call before COMMIT | a ticket is paid back once, order status follows the tickets |
| Expiry sweep, `orders/tasks.py` | `Reservation`, `held` | sweep_expired_reservations | SKIP LOCKED, race with a purchase | a lapsed hold is released, once |
| Purchase task and DLQ, `orders/tasks.py`, `core/signals.py` | broker queue, results, `FailedTask` | delay, retry, redelivery, task_failure | late acknowledgement, worker death, retries | requests are answered, only faults become dead letters |
| Order API, `orders/views.py` | none | reserve, cancel, purchase, refund | check before enqueue | duplicates are harmless |
| Catalogue and kill switch, `events/` | `Event.sales_paused`, `TicketType` | pause, resume, admin edits, event CRUD | pause while a purchase runs; whole-row saves; deletion cascades to paid orders | a paused event sells nothing; damage of a stale save stays local |
| Payment providers, `payments/providers.py` | the provider's | capture, refund | ignores the idempotency key; is not rolled back | captures and refunds match the rows, up to one per fault |
| Audit log, `core/models.py` | `AuditLog` | record | written by every transaction | replays to the state of the holds |
| Reconciliation, alerting, `core/` | counters with `--fix` | run_reconciliation | reads without a lock, writes what they said, ends at an alert it cannot mail | an undisturbed audit is right; drift has a cause |
| Reports and metrics, `core/views.py`, `orders/exporters.py` | none | CSV, KPI queries | two queries, refunds between them | net revenue is money that is there |
| Users, settings, serializers, scripts | users | log in, register, configure | | |

### How they interact

The web process calls the reservation, cancellation and refund services
directly; purchases go through the broker (Redis) to a worker, which calls
`process_purchase`. All of them meet in PostgreSQL, through row locks taken by
`SELECT ... FOR UPDATE` (READ COMMITTED). `select_related` makes Django lock the
joined rows too, which is easily overlooked:

    create_reservation   TicketType, Event           then, at COMMIT, User (foreign key)
    cancel_reservation   Reservation, TicketType
    process_purchase     Reservation, User, TicketType, Event   then the Order's key
    issue_refund         Order                       then TicketType (UPDATE)
    sweep                Reservation, TicketType     SKIP LOCKED

Django declares foreign keys DEFERRABLE INITIALLY DEFERRED, so they are checked,
and the referenced rows locked, at COMMIT.

The hazards this gives rise to are listed, each at its line and with the
properties that watch it, under `hazards` in `PROJECT.json`.

## 2. The modules

    Inventory ---- RowLocks        (refines Inventory)
        |--------- PurchaseTask
        |--------- StaleWrites
        |--------- InventoryProofs ---- AuditProofs
        |                 |               |------------ LocksProofs (with RowLocks)
        |                 |               '------------ TaskProofs  (with PurchaseTask)
        |                 '------------ StaleProofs  (with StaleWrites)
    Ledger ------- Reports
        |--------- LedgerProofs ---- ReportsProofs (with Reports)
        '--------- Accounts        (what Ledger refines)

The `MC...` modules give the constants of the top ones values for TLC.

### Inventory: the transactions, each in one step

State: one variable per column that matters (`capacity`, `sold`, `held`,
`onSale`, `paused`, `resStatus`, `resType`, `resQty`, `ordStatus`, `ordRes`), the
tickets as two sets of pairs <<key, i>>, the number of Refund rows per ticket,
the audit log as a set of <<action, id>>, and `lapsed`, the active reservations
whose `expires_at` has passed. One action per transaction that commits:
`CreateReservation`, `CancelReservation`, `SweepExpired`, `PurchaseConfirmed`,
`PurchaseDeclined`, `PurchaseDuplicate`, `IssueRefund`, `PauseSales`,
`ResumeSales`, `AdminSaveTicketType`, and the clock, `Lapse`. Each is split into
its checks (`MayPurchase`, `MayRefund`, the guards) and its writes (`Write...`),
so that RowLocks and PurchaseTask can put steps of other processes in between. A
call that raises inside `transaction.atomic()` changes nothing and is a
stuttering step; so is the expiry branch of `process_purchase`, which assigns
`expired` and then raises. The CHECK constraints of `TicketType` are a guard of
every write to it, as the database refuses the statement.

Abstracted: identifiers come from pools, an Order is identified by its unique
key, and of money only whether a ticket type is free is left (`FreeTypes`: its
refund is refused by `chk_refund_positive`); amounts are in Ledger. The admin's
form is saved in one step here, and in two in StaleWrites.

### RowLocks: the same transactions, interleaved

Each process runs one call: `Begin...`, one `Acquire` per row, a check, for a
purchase the insert of its Order and the capture, then the writes at the COMMIT
(`Commit`) from the values read before, and `Release`. `lock` says who holds each
row. Between these steps every other process may move. A call may fail before its
COMMIT (`Rollback`), PostgreSQL fails a member of a wait cycle
(`DeadlockVictim`), the clock runs (`Clock`), the kill switch waits for the event's
row (`PauseUnlocked`). The writes of a transaction become visible in one step,
which is what READ COMMITTED shows to transactions that lock what they read.

The arguments of a call other than the row it locks first are chosen at the step
that first uses them (user and quantity at `CreateCheck`, key at
`PurchaseCheck`, ticket list at `RefundCheck`), which gives the same behaviours
with fewer states. The two ways the sweep can meet a locked row are both there:
it skips a locked reservation, and it skips a reservation whose ticket type is
locked but keeps the reservation's lock until it ends.

RowLocks EXTENDS Inventory and also instantiates it with a refinement mapping:
`Atomic == INSTANCE Inventory WITH lapsed <- lapsed \ PastExpiryCheck`.
`process_purchase` looks at the clock once; a reservation that lapses after that
is sold all the same, so in the abstract behaviour it lapses after the sale.

### PurchaseTask: the message, the charge and the acknowledgement

RowLocks shows the database transactions to be atomic, so PurchaseTask uses
Inventory's writes and splits only what row locks do not protect. State: the
arguments of each task, the queued messages with their retry number, what each
worker does, the result of each task, the DLQ, the provider's captures per key,
what was deleted. Actions: `Submit` (PurchaseView, which does not look the
reservation up: `NoRow` stands for an id that never had a row), `Take`, `Start`,
`Capture`, `CommitPurchase`, `TransientError`, `Retry`, `GiveUp`,
`GiveUpUnrecorded`, `Ack`, `WorkerDies`; `Elsewhere`, the other transactions; and
`DeleteEvent`, `EventViewSet.destroy` with its cascade over ticket types,
reservations, orders, tickets and refunds, purchases of which may be queued. The
queue is a set: a message is one attempt of one task, and messages may be taken
in any order. Open purchases lock the rows of their event, as a granularity: two
purchases of different events run side by side, a step that needs a row of an
event waits for the open purchase of it (`Unlocked`), an insert for the open one
of its key (`KeyFree`).

### Ledger, Accounts, Reports: the money

Ledger has the amounts in cents: the totals `process_purchase` computes from the
prices it read, the amount `issue_refund` computes back from the totals by
integer division, the columns' range and `chk_refund_positive`, price changes by
the admin, and what the provider captured and paid back. A call is two steps,
the provider's answer and the COMMIT, because the provider is not undone when the
transaction is. Tickets are counted here; that the counting agrees with the
rows is Inventory's business. Accounts says what is promised about an order's
money in two actions, sell once and give back, and Ledger implements it.

Reports adds the readers: the daily sales report, which is put together from two
queries (`ReportOrders`, `ReportRefunds`) any transaction may come between, and
the `revenue_per_event_cents` metric.

### StaleWrites: the writers that take no lock

The admin pages of TicketType, Event, Reservation, Order and Ticket and the event
update of the API load a row (`Load`) and later save all of it (`Save...`), the
columns nobody meant to change as they were when it was loaded;
`run_reconciliation` reads the ticket types, counts tickets and reservations with
a query each, reports, alerts and, with `--fix`, writes the counts (`AuditStarts`,
`CountSold`, `CountHeld`, `Report`, `Fix`), and ends early when an alert cannot be
mailed or the database refuses the counts (`AuditDies`). In between, Inventory's
transactions commit. History variables record what an unlocked write did when
its values were overtaken: the ticket types it set `adrift`, the rows it
`reopened`, the events it `unpaused`. The properties say that these account for
everything that is wrong anywhere.

### The proof modules

InventoryProofs, AuditProofs, LocksProofs, TaskProofs, StaleProofs, LedgerProofs
and ReportsProofs: section 5.

## 3. The runs

| Run | Instance | Shows |
|---|---|---|
| `inventory` | 2 ticket types (one free) of one event, 2 reservations of 1-2 units, 2 keys, capacity 0-2 | all of Inventory's properties |
| `rowlocks` | 2 processes, 2 types in 2 events, 2 reservations, 1 key, 2 users | `Linearizable`: the interleaved steps implement Inventory. `PauseStopsSales` |
| `rowlocks_refunds` | 2 processes, orders of up to 2 tickets | `RefundedOnce` with concurrent refunds |
| `rowlocks_deadlock` | 3 processes, 2 types of one event, 2 users | `OnlyCreateMeetsPurchase`: the one lock-order conflict |
| `rowlocks_progress` | 2 processes, 3 calls and any number of sweeps, fair | `CallsEnd`, `HoldsReleased` |
| `rowlocks_starved` | 2 processes, unlimited calls, fair | violated: `HoldsReleased` |
| `purchase_task` | 2 tasks, 2 workers, 1 key, 2 faults, 1 retry, 1 deletion, fair | charges, dead letters, answers |
| `purchase_charge` | as above, 3 retries, 1 fault | violated: `NoDuplicateCharge` |
| `purchase_unrecorded` | as above | violated: `DeadLettersRecorded` |
| `reports` | 1 ticket type, 3 price lists, 2 keys, up to 2 tickets, columns up to 7 cents, 1 fault per key | Ledger's properties, the refinement of Accounts, the report and the metric |
| `stale_writes` | 1 ticket type, 2 reservations of 1-2 units, 2 keys, capacity 0-2, one overtaken write | drift, wrong statuses and lost pauses come from the write that caused them; an undisturbed audit is right |
| `stale_resync` | as above | violated: `AtomicResync` |

**The bounds.** Two reservations of one type compete for the last unit, and with
quantity 2 a release of one unit differs from a release of one reservation. Two
keys give a reservation two orders; one key gives two requests one order. Lock
conflicts involve two calls, so two processes suffice for `rowlocks`; wait cycles
can be longer, so `rowlocks_deadlock` has three, and two users because the cycle
depends on whether they are the same. `rowlocks` has two users and two events because
a purchase locks both: only purchases that share neither can race to insert an
Order of one key. Capacity starts anywhere up to
`MaxCapacity` and the admin may change it. `MaxFaults` bounds worker deaths,
transient errors and lost DLQ rows; 2 faults with `MaxRetries` = 1 reach the DLQ
by retries alone (with the code's 3 retries it takes 4 faults, which the same
actions reach one round later). A deleted event and a deleted reservation are not
created again, as their identifiers are UUIDs. `MaxCalls` bounds calls where
liveness is checked, the sweep's not counted, and is `Unlimited` in the safety
runs. `IdsLeft` only starts a create call when the pool has an id left for it.

In `reports` the columns hold at most `MaxInt` = 7 cents and the price lists are
chosen around that: free (the refund row needs a positive amount), three cents
for two tickets (its sum fits), four cents (the totals fit their columns, their
sum does not fit a Refund row, and the refund is refused after the provider has
paid). `MaxPaidBack` stops the provider paying the same tickets back for ever.
In `stale_writes` one unlocked write may be overtaken (`MaxOvertaken`), and any
number of others happen around it; two would mostly undo each other. One operator
works at a time: no page is open while the command runs. An audit that only
reports and that another transaction disturbs is not followed to its end, since
nothing is claimed of it and it writes nothing.

The runs switch the deadlock check off: a shop whose identifiers are used up
stops (and with `MaxCalls`, so does RowLocks); that calls do not block one another
for ever is `CallsEnd`. Symmetry is used in safety runs only.

**Fairness.** RowLocks: an open call goes on (`Step`, weak); PostgreSQL grants a
released lock to a waiter in the end (`Acquire`, strong: its lock queue is fair);
the deadlock detector acts; Celery Beat queues the sweep every 60 s and a worker
takes it, and it does not fail every single time (strong, on its begin and its
two steps). No fairness is assumed of requests, of the clock, of failures. PurchaseTask:
workers keep running (weak fairness of each one's next step). In
`rowlocks_starved` the same fairness holds and yet the sweep may find a lapsed
reservation locked every time it looks, because SKIP LOCKED does not queue.
Ledger, Reports and StaleWrites have safety properties only.

## 4. What the checks show

*Properties that hold.* The counters agree with the rows and the capacity is
never exceeded, also through the audit log's eyes (`AuditReplays`); the update
after a capture is never refused (`CaptureCanSettle`), nor the one after a refund
was paid back (`RefundCanSettle`); order status follows the
tickets; a reservation is sold to one order; ended rows stay ended. Under
interleaving the row locks, taken as they are, make every transaction atomic;
a pause is respected by purchases already under way. Wait cycles exist, and only
between `create_reservation` and `process_purchase` of the same user: the new
reservation holds ticket type and event, and at COMMIT waits for the user's row,
which the purchase has locked for no purpose of its own. PostgreSQL resolves it
by failing one of the two.

Money: refunds are fair to the cent although the code divides, because the totals
are multiples of the quantity (`RefundsProRata`); rows and provider agree while
nothing fails between them (`BooksMatchProvider`); every failure there costs at
most one charge (`LossBounded`); the report shows no money that is not there,
whatever comes between its queries (`NetMatchesProvider`, `NetNeverNegative`).
A free order can never be refunded, and so never gets to `refunded`; an order
whose refund does not fit the integer column is paid back by the provider and
stays unrefunded in the database. Both are excluded in the properties by name
(`Charge(k) > 0`, `Charge(k) <= MaxInt`). Deleting an event leaves what was
captured for its orders with the provider (`orphaned` in `ChargesExplained`), and
the purchases still queued for it end in the DLQ.

Unlocked writes: a save of a stale page or an overtaken `--fix` does cause drift,
bring back an ended reservation or lift a pause. What holds is that nothing else
does (`DriftExplained`, `DamageContained`, `KillSwitchExplained`), that one quiet
`--fix` repairs the counters, and that a quiet audit is right about every ticket
type it got to (`QuietAuditIsRight`).

*Disagreements between the code and what is said of it* (`findings`):

- `README.md:43` says the unique key prevents duplicate charges. It prevents
  duplicate orders. The capture is inside the transaction, so a worker's death
  or a rollback between capture and COMMIT loses the order and its key, and the
  next attempt captures again. What does hold is `ChargesExplained`: captures
  exceed paid orders by at most one per fault.
- `core/views.py:155` says the expiry lag is bounded by the sweep's interval. The
  sweep skips what is locked, so it is not.
- `core/signals.py:11` says failures are persisted to the DLQ. The handler
  swallows its own errors.
- `README.md:265` calls `run_reconciliation --fix` an atomic resynchronization.
  Only its UPDATE is in a transaction; the counts it writes were taken before,
  without a lock (`core/management/commands/run_reconciliation.py:62`), so it can
  leave the drift it removes, or make some.

## 5. What is proved

All theorems are for any number of ticket types, events, reservations, keys,
units, processes, calls, workers, tasks, retries, faults and overtaken writes,
and for any prices.
They assume of the constants what the `ASSUME`s of the modules say: the pools
are finite, `NoRow` is no row, `EventOf` is a function, `NoTask` is no task,
`Free` is no process. Every invariant and every action property that a passing
run checks is a theorem, and so are both refinements.

| Module | Theorem | States |
|---|---|---|
| InventoryProofs | `TypeCorrect` | `TypeOK`, with the references between rows |
| | `Invariance` | the inductive invariant `Inv` |
| | `ZeroDrift` | `CountersMatchRows` |
| | `ZeroOversell` | `NoOversell` |
| | `CapturesSettle` | `CaptureCanSettle` |
| | `RefundsSettle` | `RefundCanSettle` |
| | `RefundsPayOnce` | `RefundedOnce` |
| | `EndedStaysEnded` | the action property `NoResurrection` |
| | `OnePaidOrder` | `SoldOnce` |
| AuditProofs | `StatusTellsTickets` | `OrderMatchesTickets` |
| | `LogReplays` | `AuditReplays` |
| LocksProofs | `LocksTyped` | `LocksTypeOK` |
| | `LocksInvariance` | the locking discipline `LocksInv` |
| | `LocksImplementAtomic` | the refinement `Linearizable` |
| | `ZeroDriftUnderLocks` | `CountersMatchRows`, with transactions interleaved |
| | `ZeroOversellUnderLocks` | `NoOversell`, likewise |
| | `CapturesSettleUnderLocks`, `RefundsSettleUnderLocks` | `CaptureCanSettle`, `RefundCanSettle` |
| | `ConcurrentRefundsPayOnce` | `RefundedOnce`, with refunds overlapping |
| | `OnePaidOrderUnderLocks` | `SoldOnce`, with purchases overlapping |
| | `StatusTellsTicketsUnderLocks` | `OrderMatchesTickets` |
| | `LogReplaysUnderLocks` | `AuditReplays` |
| | `EndedStaysEndedUnderLocks` | `[][RowsStayEnded]_vars`, the action of `NoResurrection` |
| | `PauseIsRespected` | the action property `PauseStopsSales` |
| | `DeadlocksAreCreateMeetsPurchase` | `OnlyCreateMeetsPurchase` |
| StaleProofs | `StaleTyped` | `StaleTypeOK` |
| | `StaleInvariance` | the inductive invariant `StaleInv` |
| | `DriftHasACause` | `DriftExplained` |
| | `DamageStaysPut` | `DamageContained` |
| | `QuietAuditsAreRight` | `QuietAuditIsRight` |
| | `KillSwitchHolds` | the action property `KillSwitchExplained` |
| LedgerProofs | `LedgerTypeCorrect` | `LedgerTypeOK` |
| | `RefundsAreFair` | `RefundsProRata` |
| | `RefundedIsPaidBack` | `RefundedMeansPaidBack` |
| | `BooksAgree` | `BooksMatchProvider` |
| | `LossIsBounded` | `LossBounded` |
| | `LedgerImplementsAccounts` | the refinement `ImplementsAccounts` |
| ReportsProofs | `ReportsOnlyRead` | `LedgerSpec`: what is proved of Ledger holds in Reports |
| | `NoRowShowsALoss` | `NetNeverNegative` |
| | `RevenueIsEnough` | `RevenueCoversTicketsOut` |
| | `NetIsTheProviders` | the action property `NetMatchesProvider` |
| TaskProofs | `TasksTyped` | `TaskTypeOK` |
| | `ChargesBalance` | `ChargesExplained` |
| | `OnlyFaultsDeadLetter` | `DeadLettersAreFaults` |
| | `PaidStaysAccepted` | the action property `PaidIsNotRefused` |
| | `OpenCapturesSettle` | `CaptureCanSettle`, with the capture and the COMMIT apart |
| | `TasksAreTransactions` | `[][LateNext \/ a deletion]_vars`: each step is at most one transaction |
| | `ZeroDriftThroughTasks` | `CountersMatchRows`, with split sales and deletions |
| | `ZeroOversellThroughTasks`, `RefundsSettleThroughTasks` | `NoOversell`, `RefundCanSettle` |
| | `OnePaidOrderThroughTasks` | `SoldOnce`, with duplicates, redelivery and retries |
| | `StatusTellsTicketsThroughTasks` | `OrderMatchesTickets` |
| | `RefundsPayOnceThroughTasks` | `RefundedOnce` |

**Inventory.** `held` is compared with a sum over reservations, written as the
cardinality of the set of units they take (`UnitsOf`), so that sums are set
cardinalities: releasing reservations takes their units away (`UnitsRemoved`),
one reservation has as many as its quantity (`UnitsOfOne`), adding a new one adds
its quantity (`PairsAdded`). `CountersMatchRows` is not inductive by itself: a sale
adds as many tickets as it takes from `held` only if its key had none before, and
a new reservation's type may not be that of an order already there. `Inv` therefore adds
`TicketsBelong` (tickets belong to orders that were paid, and are not both out
and refunded), the references in `TypeOK`, and `CountersWithinCapacity`, what the
CHECK constraint says. There is one lemma per transaction that moves a counter,
and `RestKeepsCounters` for the others; they speak of one ticket type (`Agrees`),
as do `PaidBackOnce` of one ticket and `SoldOnceOf` of one reservation, so that
they still serve where other rows are damaged. `NoOversell`, `CaptureCanSettle` and `RefundCanSettle` follow from
`Inv` without induction (the tickets a refund takes are among the tickets that
are out, which `sold` counts); `SoldOnce` is inductive relative to it.

**Purchases that commit late.** The step lemmas of Inventory are not proved for
`Next` but for `LateNext`, in which a purchase may commit although its hold has
lapsed or its event was paused since it looked: it asks only that the
reservation is still active and the key unused. That is what an open purchase can
rely on in RowLocks and in PurchaseTask, where checks and COMMIT are steps apart,
so a lemma about `LateNext` serves three modules. `NextIsLate` gives it back
for Inventory; `LocksStepIsLate` and `TaskStepIsLate` show that a step of a call or
of a worker is one of `LateNext`, or changes no row, or, in PurchaseTask, deletes
an event. `Inv`, `SoldOnce`, `OrderMatchesTickets`, `AuditReplays` and
`RowsStayEnded` are then inherited; `DeleteKeepsInv`, `DeleteKeepsSoldOnce` and
`DeleteKeepsMatch` add the deletion. Two are not claimed of PurchaseTask because
a deletion breaks them, as it should: the log outlives the rows it is about, and
the rows do not stay.

**Audit.** `OrderMatchesTickets` is inductive once `TicketsBelong` is known, and
is proved order by order (`TicketsMatch`). `AuditReplays` counts the sales of a
reservation in the log; it follows from what each kind of entry says of its row
(`AuditTellsStatus`, inductive by itself) and from `SoldOnce`.

**RowLocks.** `LocksInv` is the discipline of two-phase locking, said of this
code: each call holds, or has still to lock, the rows of its SELECT (`Holds`);
what it has checked and read of them is still so when it writes (`Reads`).
`Linearizable` alone says nothing about values read earlier, so it is not
inductive without it. The step of a process never disturbs the discipline of
another, because whoever writes a row holds it (`RowsKept`, `Frame`); the three
writes of rows that are not locked by a SELECT are the insert of the Order, the
sale counter of a refund and the new reservation, and each waits (`Blockers`) or
touches a row nobody can have locked. From the discipline the COMMIT of each call
is the transaction of Inventory with the values it read (`CreateWriteIsCreate`,
`CancelWriteMoves`, `PurchaseWriteFacts`, `RefundWriteMoves`, `SweepWriteMoves`),
hence a step of `LateNext`; `Inv` is kept and, under the mapping, `StepMaps`:
reads and locks map to stutters, the end of a purchase whose reservation has lapsed meanwhile to
`Lapse`. A purchase past its checks holds its reservation (`PastHolds`), which is
why the sweep never takes one of `PastExpiryCheck`.

For wait cycles, `QueueInv` adds that SELECT ... FOR UPDATE locks the tables in
one order, reservation, user, ticket type, event (`Ascending`), and which calls
a lock can belong to (`Rightful`). In a set of processes that all wait for one
another, whoever holds a row another member wants either waits for a row that
ranks higher, or is at a write that leaves the order; following the ranks up
(`StuckFacts`) only a reservation at its COMMIT is left, and the user it needs is
held by a purchase that is still locking. The argument needs no bound on the
number of processes and does not use that the cycle is minimal.

**StaleWrites.** Inventory's `Inv` is lost as soon as one stale page is saved. Its
parts are about one row each, however, and are preserved row by row; `StaleInv`
says them of the rows that no stale save has put into `adrift` or `reopened`, next
to what stays true everywhere: the references of `TypeOK` and `TicketsBelong`.
For a save to keep those, a page that was loaded long ago must still say something
(`PageTells`): its row exists, and whether an order failed never changes, so that
a stale status neither makes a paid order of a failed one nor the reverse. A stale
save is harmless to all rows but its own (`SavedReservation`, `SavedOrder`,
`SavedTicket`). For `run_reconciliation`, `QuietAuditSoFar` says of a run that
nothing has disturbed what it has read and reported up to now, ticket type by
ticket type; a `--fix` changes the counters of the type it reports, and so what is
said of that one only (`ReportIsRight`, `AuditedUntouched`). That is also why
`--fix` repairs: the counts of an undisturbed run are those of the rows when it
writes them (`FixAgrees`). `PausesStand` gives the kill switch.

**Ledger.** The heart of `LedgerInv` is that the totals of an order are whole
multiples of its quantity (`RowIsPriced`), so that the divisions in
`issue_refund` are exact (`DivExact`) and every refund is a whole number of
`UnitCharge`s: `refunded` is `UnitCharge` times the tickets taken back. The rest
says what the provider did: what it captured is the charge, plus what failures
lost, and what it paid back lies between the Refund rows and those plus one
charge per failure. The products are handled by a few lemmas about
multiplication (`MulMono`, `Distributes`, `MulSplit`), so that no leaf needs more
than linear arithmetic over named products. For the refinement, a commit of a sale
maps to `Sell`, a commit of a refund to `GiveBack`, everything else to a stutter.

**Reports.** A report reads and writes nothing, so `LedgerInv` holds of the rows
whatever is read when (`ReportsOnlyRead`). `ReportsInv` says what the first query
is worth when the second is made: the orders it listed are still sold and cost
what they cost (`ListIsStillTrue`; `SalesAreKept` has it from the refinement,
since an account that is sold stays sold at its price). So for each order listed
the refunds lie between nothing and the charge, and for an order without failed
calls they are what was paid back; `RefundsAreRead` and `NetIsTheProviders` add that up.
`RevenueIsEnough` compares order by order what is still out with the total, which is
the price of all its tickets (`PricesAreKept`).

The sums are folds (`MapThenSumSet`): the CHOOSE of a table with an entry for
every subset of the set. That the table exists, that any two agree where both are
defined, and with it the equation `SumOfPick`, is proved from the definition.
Induction is not taken from the library's theorem with an operator parameter, but
from the strict subsets of a finite set being well-founded, with a set in the
place of the predicate (`SubsetInduction`). `SumOfTakeOut`, `SumOfMonotonic`,
`SumOfPart` and `SumOfSame` are then the usual facts: the order of summation does
not matter, smaller terms give a smaller sum, zeros can be left out. They assume
a finite set, which is what `ReportsAssumption` says of the keys: a table has
finitely many rows.

**PurchaseTask.** A purchase is open between its checks and its COMMIT while
other workers, other transactions and deletions go on. `LocksHold` says what the
row locks are worth: the reservation of an open purchase is still active, its key
has no committed order, and no other open purchase is of its event or has its key.
It is inductive because a step that needs a row of the event waits
(`LockedRowsKept`). With it the COMMIT is a step of `LateNext`
(`CommitHasLocks`); deletion keeps `Inv` too (`DeleteKeepsInv`).
`ChargesExplained` is a balance: a capture puts one worker into `InFlight`, a
commit takes it out and makes the order paid, a deletion moves a paid order to
`orphaned`, and a fault is what a lost capture is charged to. That only faults
fill the DLQ follows from counting attempts (`AttemptsAreFaults`).

*Only model-checked.* The liveness properties (`CallsEnd`, `HoldsReleased`,
`RequestsAnswered`), as the prover handles neither fairness nor ENABLED; and the
four disagreements of section 4, which are counterexamples.

## 6. What is not modelled

Users and authentication, permissions (who may cancel or refund is a choice of
the caller here), validation, throttling, response bodies. The metrics that only
count rows, the attendee list and the audit export, which list them. Migrations,
demo data and the load script. `FailedTask` resolution and ticket check-in are
flags nothing reads but a report. Creating events and ticket types: an instance
starts with them, and before the first reservation nothing depends on when they
came. A status an operator picks on purpose in the admin site can be anything;
nothing is to be shown about it, so the pages in StaleWrites save it as it was
shown. The Paymob provider is a stub.

StaleWrites takes the admin pages and the command one at a time; two operators
who overwrite each other are not in it.

## 7. Plan

1. *(done)* Inventory, its runs and proofs; RowLocks with the refinement to
   Inventory; PurchaseTask.
2. *(done)* StaleWrites: stale saves and `run_reconciliation`, query by query.
3. *(done)* Ledger, Accounts, Reports: amounts, the provider's refunds before the
   COMMIT, the sales report.
4. *(done)* Event deletion with its cascades, over queued purchases.
5. *(done)* Proofs: AuditProofs, LedgerProofs with its refinement, TaskProofs.
6. *(done)* LocksProofs: the lock discipline of RowLocks as an inductive
   invariant, and from it the refinement, the kill switch and the wait cycles,
   for any number of processes.
7. *(done)* StaleProofs: what the unlocked writers can damage, and what they
   cannot.
8. *(done)* `LateNext`, and with it Inventory's invariants in RowLocks and
   PurchaseTask; ReportsProofs: sums over any finite set of orders.
9. Left: two operators at once in StaleWrites; what of Reports' sums survives
   the deletion of an event.

| Specification | Abstract counterpart |
|---|---|
| RowLocks | Inventory (checked and proved) |
| Ledger | Accounts (checked and proved) |
