---------------------------- MODULE StaleWrites ----------------------------
(***************************************************************************)
(* The writers that take no lock, next to Inventory's transactions, which  *)
(* do.  The admin site and the event API load a row and later save all of  *)
(* it, so that a save writes back columns as they were when it was loaded. *)
(* run_reconciliation reads the counters, counts the rows with a query each*)
(* and, with --fix, writes the counts over the counters.  In between any   *)
(* other transaction may commit.                                           *)
(*                                                                         *)
(* Inventory's AdminSaveTicketType is the save nothing came in between of. *)
(* The fields an operator means to change are total_capacity of a ticket   *)
(* type (its status is Inventory's) and expires_at of a reservation; a form*)
(* posts the others as the page showed them.  One operator is at work: no  *)
(* page is open while the command runs.                                    *)
(***************************************************************************)
EXTENDS Inventory

CONSTANT MaxOvertaken   \* bound on the writes of values that had changed since

ASSUME StaleAssumption == MaxOvertaken \in Nat

VARIABLES
    page,       \* the row an operator or an API request has loaded
    recon,      \* the run of run_reconciliation that goes on, or ended
    overtaken,  \* writes of values that had changed since they were read
    adrift,     \* ticket types an unlocked write has set adrift
    reopened,   \* reservations, tickets and keys of orders so overwritten
    pausedBy,   \* events that pause_sales paused and resume_sales did not resume
    unpaused    \* those of which a save has overwritten sales_paused

historyVars == <<overtaken, adrift, reopened, pausedBy, unpaused>>
staleVars   == <<vars, page, recon, historyVars>>

NoPage  == [kind |-> "none"]
NoAudit == [phase |-> "idle", quiet |-> TRUE]

\* Whatever else commits disturbs a run that is going to write.  One that only
\* reports changes nothing and is not followed any further.
Disturb ==
    recon' = IF recon.phase \in {"next", "sold", "held"} /\ recon.fix
             THEN [recon EXCEPT !.quiet = FALSE]
             ELSE NoAudit

-----------------------------------------------------------------------------
StaleInit ==
    /\ Init
    /\ page = NoPage
    /\ recon = NoAudit
    /\ overtaken = 0
    /\ adrift = {}
    /\ reopened = {}
    /\ pausedBy = {}
    /\ unpaused = {}

\* The transactions that lock what they write, and the clock.
Transaction ==
    /\ \/ \E r \in Reservations, t \in TicketTypes, q \in Units :
             CreateReservation(r, t, q)
       \/ \E r \in Reservations : CancelReservation(r)
       \/ \E S \in SUBSET Reservations : SweepExpired(S)
       \/ \E r \in Reservations, k \in Keys : PurchaseConfirmed(r, k)
       \/ \E r \in Reservations, k \in Keys : PurchaseDeclined(r, k)
       \/ \E k \in Keys : \E ids \in SUBSET ActiveTicketsOf(k) : IssueRefund(k, ids)
       \/ \E r \in Reservations : Lapse(r)
    /\ Disturb
    /\ UNCHANGED <<page, historyVars>>

Pause(e) ==
    /\ PauseSales(e)
    /\ pausedBy' = pausedBy \cup {e}
    /\ unpaused' = unpaused \ {e}
    /\ Disturb
    /\ UNCHANGED <<page, overtaken, adrift, reopened>>

Resume(e) ==
    /\ ResumeSales(e)
    /\ pausedBy' = pausedBy \ {e}
    /\ unpaused' = unpaused \ {e}
    /\ Disturb
    /\ UNCHANGED <<page, overtaken, adrift, reopened>>

\* The row as it is now.
TicketTypeRow(t)  == [kind |-> "ticket_type", row |-> t,
                      sold |-> sold[t], held |-> held[t]]
EventRow(e)       == [kind |-> "event", row |-> e, paused |-> paused[e]]
ReservationRow(r) == [kind |-> "reservation", row |-> r, status |-> resStatus[r]]
OrderRow(k)       == [kind |-> "order", row |-> k, status |-> ordStatus[k]]
TicketRow(x)      == [kind |-> "ticket", row |-> x, out |-> x \in activeTickets]

Rows ==
    {TicketTypeRow(t) : t \in TicketTypes}
    \cup {EventRow(e) : e \in Events}
    \cup {ReservationRow(r) : r \in {s \in Reservations : resStatus[s] # "none"}}
    \cup {OrderRow(k) : k \in {j \in Keys : ordStatus[j] # "none"}}
    \cup {TicketRow(x) : x \in activeTickets \cup refundedTickets}

\* An operator opens a page of the admin site, or an API request loads its
\* event: nothing is locked.
Load(p) ==
    /\ page = NoPage /\ recon.phase \in {"idle", "done"}
    /\ p \in Rows
    /\ page' = p
    /\ UNCHANGED <<vars, recon, historyVars>>

\* The page is left, or its save is refused by a CHECK constraint.
Leave ==
    /\ page # NoPage
    /\ page' = NoPage
    /\ UNCHANGED <<vars, recon, historyVars>>

\* An unlocked write is made, and is counted if it was overtaken.
Overtaken(changed) ==
    /\ changed => overtaken < MaxOvertaken
    /\ overtaken' = IF changed THEN overtaken + 1 ELSE overtaken

\* The page is saved, its row having changed since it was loaded or not.
Saved(changed) ==
    /\ page' = NoPage
    /\ Overtaken(changed)
    /\ Disturb

\* TicketTypeAdmin: sold and held are not on the form, the others are.
SaveTicketType(c) ==
    LET t == page.row IN
    /\ page.kind = "ticket_type"
    /\ CheckConstraints(page.sold, page.held, c)
    /\ sold' = [sold EXCEPT ![t] = page.sold]
    /\ held' = [held EXCEPT ![t] = page.held]
    /\ capacity' = [capacity EXCEPT ![t] = c]
    /\ Saved(page # TicketTypeRow(t))
    /\ adrift' = IF page = TicketTypeRow(t) THEN adrift ELSE adrift \cup {t}
    /\ UNCHANGED <<onSale, paused, resVars, ordVars, audit, reopened, pausedBy,
                   unpaused>>

\* EventViewSet.update, whose serializer does not know sales_paused, and the
\* form of EventAdmin, which posts it as it was shown.
SaveEvent ==
    LET e == page.row IN
    /\ page.kind = "event"
    /\ paused' = [paused EXCEPT ![e] = page.paused]
    /\ Saved(page # EventRow(e))
    /\ unpaused' = IF page = EventRow(e) THEN unpaused ELSE unpaused \cup {e}
    /\ UNCHANGED <<capacity, sold, held, onSale, resVars, ordVars, audit, adrift,
                   reopened, pausedBy>>

\* ReservationAdmin: every column is on the form; expires_at is changed to a
\* time that has passed or not, status is as it was shown.
SaveReservation(past) ==
    LET r == page.row IN
    /\ page.kind = "reservation"
    /\ resStatus' = [resStatus EXCEPT ![r] = page.status]
    /\ lapsed' = IF past /\ page.status = "active" THEN lapsed \cup {r}
                 ELSE lapsed \ {r}
    /\ Saved(page # ReservationRow(r))
    /\ IF page = ReservationRow(r) THEN UNCHANGED <<adrift, reopened>>
       ELSE /\ adrift' = adrift \cup {resType[r]}
            /\ reopened' = reopened \cup {r}
    /\ UNCHANGED <<typeVars, resType, resQty, ordVars, audit, pausedBy, unpaused>>

\* OrderAdmin, with the status as it was shown.
SaveOrder ==
    LET k == page.row IN
    /\ page.kind = "order"
    /\ ordStatus' = [ordStatus EXCEPT ![k] = page.status]
    /\ Saved(page # OrderRow(k))
    /\ reopened' = IF page = OrderRow(k) THEN reopened ELSE reopened \cup {k}
    /\ UNCHANGED <<typeVars, resVars, ordRes, activeTickets, refundedTickets,
                   refunds, audit, adrift, pausedBy, unpaused>>

\* TicketAdmin, with the status as it was shown.
SaveTicket ==
    LET x == page.row IN
    /\ page.kind = "ticket"
    /\ activeTickets' = IF page.out THEN activeTickets \cup {x}
                        ELSE activeTickets \ {x}
    /\ refundedTickets' = IF page.out THEN refundedTickets \ {x}
                          ELSE refundedTickets \cup {x}
    /\ Saved(page # TicketRow(x))
    /\ IF page = TicketRow(x) THEN UNCHANGED <<adrift, reopened>>
       ELSE /\ adrift' = adrift \cup {OrderType(x[1])}
            /\ reopened' = reopened \cup {x, x[1]}
    /\ UNCHANGED <<typeVars, resVars, ordStatus, ordRes, refunds, audit, pausedBy,
                   unpaused>>

-----------------------------------------------------------------------------
\* run_reconciliation starts, for all events or one of them: one query reads
\* the ticket types.
AuditStarts(scope, fix) ==
    /\ page = NoPage /\ recon.phase \in {"idle", "done"}
    /\ recon' = [phase |-> "next", quiet |-> TRUE, fix |-> fix, scope |-> scope,
                 todo |-> scope, row |-> [t \in scope |-> TicketTypeRow(t)],
                 limit |-> [t \in scope |-> capacity[t]],
                 type |-> NoRow, sold |-> 0, held |-> 0,
                 drifted |-> {}, oversold |-> {}]
    /\ UNCHANGED <<vars, page, historyVars>>

\* compute_actual_counts: the tickets of the next ticket type ...
CountSold(t) ==
    /\ recon.phase = "next"
    /\ t \in recon.todo
    /\ recon' = [recon EXCEPT !.phase = "sold", !.todo = @ \ {t}, !.type = t,
                              !.sold = ActualSold(t)]
    /\ UNCHANGED <<vars, page, historyVars>>

\* Faulty variant: reservations are counted instead of their quantities.
CountHeldRows ==
    /\ recon.phase = "sold"
    /\ recon' = [recon EXCEPT
           !.phase = "held",
           !.held = Cardinality({r \in ActiveReservations : resType[r] = recon.type})]
    /\ UNCHANGED <<vars, page, historyVars>>

\* ... and then the SUM(quantity) of its active reservations.
CountHeld ==
    /\ recon.phase = "sold"
    /\ recon' = [recon EXCEPT !.phase = "held", !.held = ActualHeld(recon.type)]
    /\ UNCHANGED <<vars, page, historyVars>>

\* What the command makes of the counts.
FoundOversell == recon.sold + recon.held > recon.limit[recon.type]
FoundDrift ==
    LET row == recon.row[recon.type] IN
    recon.sold # row.sold \/ recon.held # row.held

\* The ticket type is reported: an oversell by an alert, drift in the log.
Reported ==
    [recon EXCEPT
        !.phase = IF recon.todo = {} THEN "done" ELSE "next",
        !.oversold = IF FoundOversell THEN @ \cup {recon.type} ELSE @,
        !.drifted = IF FoundDrift THEN @ \cup {recon.type} ELSE @,
        !.type = NoRow, !.sold = 0, !.held = 0]

Report ==
    /\ recon.phase = "held"
    /\ ~ (FoundDrift /\ recon.fix)
    /\ recon' = Reported
    /\ UNCHANGED <<vars, page, historyVars>>

\* Faulty variant: only the sold counter is written.
FixSoldOnly ==
    LET t == recon.type IN
    /\ recon.phase = "held"
    /\ FoundDrift /\ recon.fix
    /\ CheckConstraints(recon.sold, held[t], capacity[t])
    /\ sold' = [sold EXCEPT ![t] = recon.sold]
    /\ recon' = Reported
    /\ adrift' = IF recon.quiet THEN adrift \ {t} ELSE adrift \cup {t}
    /\ Overtaken(~ recon.quiet)
    /\ UNCHANGED <<capacity, held, onSale, paused, resVars, ordVars, audit, page,
                   reopened, pausedBy, unpaused>>

\* --fix writes the counts over the counters.
Fix ==
    LET t == recon.type IN
    /\ recon.phase = "held"
    /\ FoundDrift /\ recon.fix
    /\ CheckConstraints(recon.sold, recon.held, capacity[t])
    /\ sold' = [sold EXCEPT ![t] = recon.sold]
    /\ held' = [held EXCEPT ![t] = recon.held]
    /\ recon' = Reported
    /\ adrift' = IF recon.quiet THEN adrift \ {t} ELSE adrift \cup {t}
    /\ Overtaken(~ recon.quiet)
    /\ UNCHANGED <<capacity, onSale, paused, resVars, ordVars, audit, page,
                   reopened, pausedBy, unpaused>>

\* The command ends with an exception, and the ticket types that are left are
\* not looked at: the alert cannot be mailed, or the database refuses the
\* counts, as it does those of a ticket type that is oversold.
AuditDies ==
    /\ recon.phase = "held"
    /\ \/ FoundOversell
       \/ /\ FoundDrift /\ recon.fix
          /\ ~ CheckConstraints(recon.sold, recon.held, capacity[recon.type])
    /\ recon' = NoAudit
    /\ UNCHANGED <<vars, page, historyVars>>

Scopes == {TicketTypes} \cup {{t \in TicketTypes : EventOf[t] = e} : e \in Events}

StaleNext ==
    \/ Transaction
    \/ \E e \in Events : Pause(e)
    \/ \E e \in Events : Resume(e)
    \/ \E p \in Rows : Load(p)
    \/ Leave
    \/ \E c \in 0 .. MaxCapacity : SaveTicketType(c)
    \/ SaveEvent
    \/ \E past \in BOOLEAN : SaveReservation(past)
    \/ SaveOrder
    \/ SaveTicket
    \/ \E scope \in Scopes, fix \in BOOLEAN : AuditStarts(scope, fix)
    \/ \E t \in TicketTypes : CountSold(t)
    \/ CountHeld
    \/ Report
    \/ Fix
    \/ AuditDies

StaleSpec == StaleInit /\ [][StaleNext]_staleVars

-----------------------------------------------------------------------------
\* The types of what this module adds.
StaleTypeOK ==
    /\ TypeOK
    /\ page.kind \in {"none", "ticket_type", "event", "reservation", "order",
                      "ticket"}
    /\ recon.phase \in {"idle", "next", "sold", "held", "done"}
    /\ recon.quiet \in BOOLEAN
    /\ overtaken \in 0 .. MaxOvertaken
    /\ adrift \subseteq TicketTypes
    /\ reopened \subseteq Reservations \cup Keys \cup TicketCells
    /\ pausedBy \subseteq Events
    /\ unpaused \subseteq Events

\* Drift has a cause.  The counters of a ticket type agree with the rows until
\* an unlocked write (a save of a row that had changed, a --fix that was
\* overtaken) sets it adrift, whatever the same writes did to other rows, and
\* they agree again, for good, once a --fix ran that nothing overtook.
DriftExplained ==
    \A t \in TicketTypes \ adrift :
        sold[t] = ActualSold(t) /\ held[t] = ActualHeld(t)

\* Damage stays where it was done: as long as no save has overwritten the
\* status of a reservation, order or ticket, the reservation is sold once,
\* the order says what became of its tickets and no ticket is paid back
\* twice, whatever was overwritten elsewhere.
DamageContained ==
    /\ \A r \in Reservations \ reopened :
          Cardinality(PaidOrdersOf(r)) = IF resStatus[r] = "confirmed" THEN 1 ELSE 0
    /\ \A k \in Keys \ reopened :
          /\ ordStatus[k] = "refunded" <=>
                ActiveTicketsOf(k) = {} /\ refundedTickets \cap TicketsOf(k) # {}
          /\ \A x \in TicketsOf(k) :
                refunds[x] = IF x \in refundedTickets THEN 1 ELSE 0

\* An audit that nothing overtook is right, about each ticket type: it has
\* alerted exactly when the rows exceed the capacity, it has reported drift
\* exactly when there was some, and with --fix there is none left.
QuietAuditIsRight ==
    recon.phase = "done" /\ recon.quiet =>
        \A t \in recon.scope :
            /\ t \in recon.oversold <=> ActualSold(t) + ActualHeld(t) > capacity[t]
            /\ (sold[t] # ActualSold(t) \/ held[t] # ActualHeld(t))
                  <=> t \in recon.drifted /\ ~ recon.fix

\* The kill switch holds: nothing is reserved or sold of an event that
\* pause_sales has paused, unless a save has overwritten the pause.
KillSwitchExplained ==
    [][LET OnSale(t) == EventOf[t] \notin pausedBy \ unpaused IN
       \A x \in audit' \ audit :
          /\ x[1] = "inventory_held" => OnSale(resType'[x[2]])
          /\ x[1] = "inventory_sold" => OnSale(resType[ordRes'[x[2]]])]_staleVars

\* --fix resynchronizes atomically: the counters it has written are what the
\* rows say.
AtomicResync ==
    [][Fix => LET t == recon.type IN
              sold'[t] = ActualSold(t)' /\ held'[t] = ActualHeld(t)']_staleVars
=============================================================================
