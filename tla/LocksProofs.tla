---------------------------- MODULE LocksProofs ----------------------------
(***************************************************************************)
(* Theorems about RowLocks, for any number of processes, rows and calls.   *)
(* The argument is the discipline of two-phase locking: a call that is past*)
(* its SELECT ... FOR UPDATE holds the rows it selected (Holds), and what  *)
(* it has read of rows it holds is still so (Reads), because whoever writes*)
(* a row holds it (RowsKept).  So what a call writes at its COMMIT is what *)
(* the atomic transaction of Inventory would write at that moment, but for *)
(* the clock and the kill switch, which a purchase reads once and does not *)
(* hold: its COMMIT is a step of LateNext.  Every invariant that LateNext  *)
(* keeps therefore holds of calls that interleave under row locks.         *)
(***************************************************************************)
EXTENDS RowLocks, AuditProofs, SequenceTheorems

Phases == {"idle", "locking", "check", "insert", "capture", "write", "committed"}

Calls == [op   : {"none", "create", "cancel", "purchase", "refund", "sweep"},
          type : TicketTypes \cup {NoRow},
          res  : Reservations \cup {NoRow},
          key  : Keys \cup {NoRow},
          user : Users \cup {NoRow},
          qty  : Nat,
          held : Nat,
          rows : (SUBSET Reservations) \cup (SUBSET TicketCells),
          paid : BOOLEAN]

LocalsTyped ==
    /\ pc \in [Procs -> Phases]
    /\ local \in [Procs -> Calls]
    /\ todo \in [Procs -> Seq(Rows)]
    /\ \A r \in Reservations : resStatus[r] # "none" => resUser[r] \in Users

\* The arguments of a call name rows that exist; only a purchase past its
\* checks has a key.
Named(p) ==
    LET c == local[p] IN
    /\ pc[p] # "idle" => c.op # "none"
    /\ c.op = "create" => c.type \in TicketTypes
    /\ c.op \in {"cancel", "purchase"} =>
          c.res \in Reservations /\ resStatus[c.res] # "none"
    /\ c.op = "refund" => c.key \in Keys
    /\ c.op = "purchase" /\ pc[p] \in {"locking", "check"} => c.key = NoRow
    /\ c.op = "sweep" =>
          \A r \in c.rows : r \in Reservations /\ resStatus[r] # "none"

\* p holds the row, or its SELECT is still to lock it.
Has(p, row) == lock[row] = p \/ \E i \in 1 .. Len(todo[p]) : todo[p][i] = row

\* The rows of each call.
Holds(p) ==
    LET c == local[p] IN
    /\ c.op = "create" =>
          Has(p, <<"type", c.type>>) /\ Has(p, <<"event", EventOf[c.type]>>)
    /\ c.op \in {"cancel", "purchase"} =>
          Has(p, <<"res", c.res>>) /\ Has(p, <<"type", resType[c.res]>>)
    /\ c.op = "purchase" => Has(p, <<"event", EventOf[resType[c.res]]>>)
    /\ c.op = "purchase" /\ pc[p] \in {"capture", "write"} =>
          lock[<<"order", c.key>>] = p
    /\ c.op = "refund" => Has(p, <<"order", c.key>>)
    /\ c.op = "sweep" =>
          \A r \in c.rows : lock[<<"res", r>>] = p /\ lock[<<"type", resType[r]>>] = p

\* What the call has checked and read is still so when it writes.
Reads(p) ==
    LET c == local[p] IN
    /\ At(p, "create", "write") =>
          /\ onSale[c.type] /\ ~ paused[EventOf[c.type]]
          /\ c.qty \in Units /\ Available(c.type) >= c.qty
          /\ c.held = held[c.type]
          /\ c.user \in Users
    /\ At(p, "cancel", "write") => resStatus[c.res] = "active"
    /\ c.op = "purchase" /\ pc[p] \in {"insert", "capture", "write"} =>
          /\ c.key \in Keys
          /\ resStatus[c.res] = "active"
          /\ ~ paused[EventOf[resType[c.res]]]
    /\ c.op = "purchase" /\ pc[p] \in {"capture", "write"} =>
          ordStatus[c.key] = "none"
    /\ At(p, "refund", "write") =>
          /\ ordStatus[c.key] \in {"confirmed", "partially_refunded"}
          /\ c.rows # {} /\ c.rows \subseteq ActiveTicketsOf(c.key)
    /\ At(p, "sweep", "write") => c.rows # {} /\ c.rows \subseteq lapsed

Disciplined(p) == Named(p) /\ Holds(p) /\ Reads(p)

LocksInv ==
    /\ Inv
    /\ LocksTypeOK
    /\ LocalsTyped
    /\ \A p \in Procs : Disciplined(p)

-----------------------------------------------------------------------------
(* What a step leaves alone.                                               *)

\* Rows that exist stay, and keep what never changes.
RowsStay ==
    /\ UNCHANGED <<capacity, onSale>>
    /\ \A r \in Reservations : resStatus[r] # "none" =>
          /\ resStatus'[r] # "none"
          /\ resType'[r] = resType[r] /\ resUser'[r] = resUser[r]
    /\ \A k \in Keys : ordStatus[k] # "none" => ordStatus'[k] # "none"

\* The rows that q holds are as they were.
RowsKept(q) ==
    /\ \A t \in TicketTypes : lock[<<"type", t>>] = q =>
          held'[t] = held[t] /\ sold'[t] = sold[t]
    /\ \A e \in Events : lock[<<"event", e>>] = q => paused'[e] = paused[e]
    /\ \A r \in Reservations : lock[<<"res", r>>] = q /\ resStatus[r] # "none" =>
          resStatus'[r] = resStatus[r] /\ (r \in lapsed => r \in lapsed')
    /\ \A k \in Keys : lock[<<"order", k>>] = q =>
          ordStatus'[k] = ordStatus[k] /\ ActiveTicketsOf(k)' = ActiveTicketsOf(k)

\* q does not move, and keeps its locks.
Idles(q) ==
    /\ pc'[q] = pc[q] /\ local'[q] = local[q] /\ todo'[q] = todo[q]
    /\ \A row \in Rows : lock[row] = q => lock'[row] = q

\* Steps of others that write no row q has locked leave q in the discipline.
LEMMA Frame ==
  ASSUME LocksInv, NEW q \in Procs, Idles(q), RowsStay, RowsKept(q)
  PROVE  Disciplined(q)'
  <1> DEFINE c == local[q]
  <1>0. /\ TypeOK /\ Named(q) /\ Holds(q) /\ Reads(q)
        /\ c \in Calls /\ pc[q] \in Phases
        /\ pc[q] = "locking" <=> todo[q] # <<>>
        /\ todo[q] \in Seq(Rows)
        /\ local'[q] = c
    BY DEF LocksInv, Disciplined, LocksTypeOK, LocalsTyped, Idles
  <1>1. \A r \in Reservations : resStatus[r] # "none" => resType[r] \in TicketTypes
    BY <1>0 DEF TypeOK
  <1>2. /\ \A t \in TicketTypes : EventOf[t] \in Events
                /\ <<"type", t>> \in Rows /\ <<"event", EventOf[t]>> \in Rows
        /\ \A r \in Reservations : <<"res", r>> \in Rows
        /\ \A k \in Keys : <<"order", k>> \in Rows
    BY ConstantsAssumption DEF Rows
  <1>3. \A row \in Rows : Has(q, row) => Has(q, row)'
    BY DEF Has, Idles
  <1>4. Named(q)'
    BY <1>0 DEF Named, Idles, RowsStay
  <1>5. Holds(q)'
    <2> DEFINE r == c.res
    <2>1. c.op = "create" =>
             Has(q, <<"type", c.type>>)' /\ Has(q, <<"event", EventOf[c.type]>>)'
      BY <1>0, <1>2, <1>3 DEF Holds, Named
    <2>2. c.op \in {"cancel", "purchase"} =>
             /\ resType'[r] = resType[r]
             /\ Has(q, <<"res", r>>)' /\ Has(q, <<"type", resType[r]>>)'
      BY <1>0, <1>1, <1>2, <1>3 DEF Holds, Named, RowsStay
    <2>3. c.op = "purchase" => Has(q, <<"event", EventOf[resType[r]]>>)'
      BY <1>0, <1>1, <1>2, <1>3 DEF Holds, Named, RowsStay
    <2>4. c.op = "purchase" /\ pc[q] \in {"capture", "write"} =>
             lock'[<<"order", c.key>>] = q
      BY <1>0, <1>2 DEF Holds, Reads, Idles
    <2>5. c.op = "refund" => Has(q, <<"order", c.key>>)'
      BY <1>0, <1>2, <1>3 DEF Holds, Named
    <2>6. c.op = "sweep" => \A x \in c.rows :
             /\ resType'[x] = resType[x]
             /\ lock'[<<"res", x>>] = q /\ lock'[<<"type", resType[x]>>] = q
      BY <1>0, <1>1, <1>2 DEF Holds, Named, Idles, RowsStay
    <2>7. pc'[q] = pc[q]
      BY DEF Idles
    <2> HIDE DEF r
    <2> QED
      BY <1>0, <2>1, <2>2, <2>3, <2>4, <2>5, <2>6, <2>7 DEF Holds, Has, r
  <1>6. pc[q] # "locking" => \A row \in Rows : Has(q, row) => lock[row] = q
    BY <1>0 DEF Has
  <1>7. Reads(q)'
    <2>1. ASSUME At(q, "create", "write")
          PROVE  /\ onSale'[c.type] /\ ~ paused'[EventOf[c.type]]
                 /\ c.qty \in Units /\ Available(c.type)' >= c.qty
                 /\ c.held = held'[c.type]
                 /\ c.user \in Users
      <3>1. /\ c.type \in TicketTypes
            /\ lock[<<"type", c.type>>] = q /\ lock[<<"event", EventOf[c.type]>>] = q
        BY <1>0, <1>2, <1>6, <2>1 DEF Named, Holds, At
      <3>2. /\ held'[c.type] = held[c.type] /\ sold'[c.type] = sold[c.type]
            /\ paused'[EventOf[c.type]] = paused[EventOf[c.type]]
            /\ UNCHANGED <<capacity, onSale>>
        BY <1>2, <3>1 DEF RowsKept, RowsStay
      <3> QED
        BY <1>0, <2>1, <3>2 DEF Reads, Available
    <2>2. ASSUME c.op \in {"cancel", "purchase"}, pc[q] \in {"insert", "capture", "write"}
          PROVE  /\ resStatus'[c.res] = resStatus[c.res]
                 /\ c.op = "purchase" =>
                       /\ resType'[c.res] = resType[c.res]
                       /\ paused'[EventOf[resType[c.res]]] = paused[EventOf[resType[c.res]]]
      <3>1. /\ c.res \in Reservations /\ resStatus[c.res] # "none"
            /\ lock[<<"res", c.res>>] = q
            /\ c.op = "purchase" => lock[<<"event", EventOf[resType[c.res]]>>] = q
        BY <1>0, <1>1, <1>2, <1>6, <2>2 DEF Named, Holds
      <3> QED
        BY <1>1, <1>2, <3>1 DEF RowsKept, RowsStay
    <2>3. ASSUME c.op = "purchase", pc[q] \in {"capture", "write"}
          PROVE  ordStatus'[c.key] = ordStatus[c.key]
      BY <1>0, <2>3 DEF Reads, Holds, RowsKept
    <2>4. ASSUME At(q, "refund", "write")
          PROVE  /\ ordStatus'[c.key] = ordStatus[c.key]
                 /\ ActiveTicketsOf(c.key)' = ActiveTicketsOf(c.key)
      BY <1>0, <1>2, <1>6, <2>4 DEF Named, Holds, RowsKept, At
    <2>5. ASSUME At(q, "sweep", "write"), c.rows \subseteq lapsed
          PROVE  c.rows \subseteq lapsed'
      BY <1>0, <2>5 DEF Named, Holds, RowsKept, At
    <2>6. \A op, where : At(q, op, where)' <=> At(q, op, where)
      BY DEF At, Idles
    <2>7. pc'[q] = pc[q]
      BY DEF Idles
    <2> QED
      BY <1>0, <2>1, <2>2, <2>3, <2>4, <2>5, <2>6, <2>7 DEF Reads, At
  <1> QED
    BY <1>4, <1>5, <1>7 DEF Disciplined

\* What the step of a process comes to: it is well typed, disturbs nobody
\* else's rows and keeps to the discipline.
Moved(p) ==
    /\ lock' \in [Rows -> Procs \cup {Free}]
    /\ pc' \in [Procs -> Phases]
    /\ local' \in [Procs -> Calls]
    /\ todo' \in [Procs -> Seq(Rows)]
    /\ resUser' \in [Reservations -> Users \cup {NoRow}]
    /\ \A r \in Reservations : resStatus'[r] # "none" => resUser'[r] \in Users
    /\ pc'[p] = "locking" <=> todo'[p] # <<>>
    /\ pc'[p] = "idle" <=> local'[p] = NoCall
    /\ RowsStay
    /\ \A q \in Procs \ {p} : Idles(q) /\ RowsKept(q)
    /\ Disciplined(p)'

\* A step of p that leaves p in the discipline leaves everybody in it.
LEMMA MovedKeeps ==
  ASSUME LocksInv, Inv', NEW p \in Procs, Moved(p)
  PROVE  LocksInv'
  <1>1. LocalsTyped'
    BY DEF LocalsTyped, Moved
  <1>2. \A q \in Procs : Disciplined(q)'
    BY Frame DEF Moved
  <1>3. LocksTypeOK'
    <2>1. TypeOK'
      BY DEF Inv
    <2>2. \A q \in Procs \ {p} : pc'[q] = pc[q] /\ local'[q] = local[q] /\ todo'[q] = todo[q]
      BY DEF Moved, Idles
    <2>3. \A q \in Procs : /\ pc'[q] = "locking" <=> todo'[q] # <<>>
                           /\ pc'[q] = "idle" <=> local'[q] = NoCall
      BY <2>2 DEF Moved, LocksInv, LocksTypeOK
    <2> QED
      BY <2>1, <2>3 DEF LocksTypeOK, Moved, Phases
  <1> QED
    BY <1>1, <1>2, <1>3 DEF LocksInv

\* A step that writes no row writes no row that is locked.
LEMMA Quiet ==
  ASSUME UNCHANGED <<vars, resUser>>
  PROVE  RowsStay /\ \A q : RowsKept(q)
  BY DEF RowsStay, RowsKept, vars, typeVars, resVars, ordVars, ActiveTicketsOf

\* What the invariant says of one process.
LEMMA ProcFacts ==
  ASSUME LocksInv, NEW p \in Procs
  PROVE  /\ TypeOK
         /\ lock \in [Rows -> Procs \cup {Free}]
         /\ pc \in [Procs -> Phases] /\ local \in [Procs -> Calls]
         /\ todo \in [Procs -> Seq(Rows)]
         /\ resUser \in [Reservations -> Users \cup {NoRow}]
         /\ \A r \in Reservations : resStatus[r] # "none" => resUser[r] \in Users
         /\ pc[p] = "locking" <=> todo[p] # <<>>
         /\ pc[p] = "idle" <=> local[p] = NoCall
         /\ Named(p) /\ Holds(p) /\ Reads(p)
         /\ pc[p] # "locking" => \A row : Has(p, row) => lock[row] = p
  <1>1. pc[p] = "locking" <=> todo[p] # <<>>
    BY DEF LocksInv, LocksTypeOK
  <1>2. pc[p] # "locking" => \A row : Has(p, row) => lock[row] = p
    BY <1>1 DEF Has
  <1> QED
    BY <1>1, <1>2 DEF LocksInv, LocksTypeOK, LocalsTyped, Disciplined

\* The end of a transaction, however it ends.
LEMMA LeaveMoves ==
  ASSUME LocksInv, NEW p \in Procs, Leave(p)
  PROVE  Moved(p)
  <1>1. RowsStay /\ \A q : RowsKept(q)
    BY Quiet DEF Leave
  <1>2. NoCall \in Calls /\ NoCall.op = "none"
    BY DEF NoCall, Calls
  <1>3. /\ local'[p] = NoCall /\ pc'[p] = "idle" /\ todo'[p] = <<>>
        /\ \A q \in Procs \ {p} : Idles(q)
    BY ProcFacts, LocksAssumption DEF Leave, Idles
  <1>4. Disciplined(p)'
    BY <1>2, <1>3 DEF Disciplined, Named, Holds, Reads, At
  <1> QED
    BY ProcFacts, LocksAssumption, <1>1, <1>2, <1>3, <1>4
       DEF Moved, Leave, Phases, vars, resVars

\* A call that goes on after its SELECT, with the locks it has.
LEMMA ProceedMoves ==
  ASSUME LocksInv, NEW p \in Procs,
         NEW where \in {"insert", "capture", "write"}, NEW loc \in Calls,
         pc[p] \notin {"idle", "locking"}, loc.op = local[p].op,
         Proceed(p, where, loc),
         lock' \in [Rows -> Procs \cup {Free}],
         \A row \in Rows : \A q \in Procs \ {p} : lock[row] = q => lock'[row] = q,
         Disciplined(p)'
  PROVE  Moved(p)
  <1>1. RowsStay /\ \A q : RowsKept(q)
    BY Quiet DEF Proceed
  <1>2. /\ local'[p] = loc /\ pc'[p] = where /\ todo'[p] = todo[p]
        /\ \A q \in Procs \ {p} : Idles(q)
    BY ProcFacts DEF Proceed, Idles
  <1>3. loc # NoCall
    BY ProcFacts DEF Named, NoCall
  <1> QED
    BY ProcFacts, <1>1, <1>2, <1>3 DEF Moved, Proceed, Phases, vars, resVars

\* A COMMIT keeps its locks; what it writes is the caller's business.
LEMMA CommitMoves ==
  ASSUME LocksInv, NEW p \in Procs, pc[p] \notin {"idle", "locking"}, Commit(p),
         RowsStay, \A q \in Procs \ {p} : RowsKept(q),
         resUser' \in [Reservations -> Users \cup {NoRow}],
         \A r \in Reservations : resStatus'[r] # "none" => resUser'[r] \in Users
  PROVE  Moved(p)
  <1>1. /\ UNCHANGED <<lock, local, todo>>
        /\ pc' \in [Procs -> Phases] /\ pc'[p] = "committed"
        /\ \A q \in Procs \ {p} : Idles(q)
    BY ProcFacts DEF Commit, Idles, Phases
  <1>2. Named(p)'
    BY ProcFacts, <1>1 DEF Named, RowsStay
  <1>3. Holds(p)'
    <2> DEFINE c == local[p]
    <2>1. Named(p) /\ Holds(p)
      BY ProcFacts
    <2>2. c.op \in {"cancel", "purchase"} => resType'[c.res] = resType[c.res]
      BY <2>1 DEF Named, RowsStay
    <2>3. c.op = "sweep" => \A r \in c.rows : resType'[r] = resType[r]
      BY <2>1 DEF Named, RowsStay
    <2>4. \A row : Has(p, row)' <=> Has(p, row)
      BY <1>1 DEF Has
    <2> QED
      BY <1>1, <2>1, <2>2, <2>3, <2>4 DEF Holds
  <1>4. Reads(p)'
    BY <1>1 DEF Reads, At
  <1> QED
    BY ProcFacts, <1>1, <1>2, <1>3, <1>4 DEF Moved, Disciplined

-----------------------------------------------------------------------------
(* The steps that write nothing.                                           *)

\* A call that begins has all its rows still to lock and has read nothing.
LEMMA BeginMoves ==
  ASSUME LocksInv, NEW p \in Procs, NEW c \in Calls, NEW rows \in Seq(Rows),
         c.op # "none", Begin(p, c, rows), Disciplined(p)'
  PROVE  Moved(p)
  <1>1. RowsStay /\ \A q : RowsKept(q)
    BY Quiet DEF Begin
  <1>2. /\ local'[p] = c /\ todo'[p] = rows
        /\ pc'[p] = IF rows = <<>> THEN "check" ELSE "locking"
        /\ \A q \in Procs \ {p} : Idles(q)
    BY ProcFacts DEF Begin, Idles
  <1>3. c # NoCall
    BY DEF NoCall
  <1> QED
    BY ProcFacts, <1>1, <1>2, <1>3 DEF Moved, Begin, Phases, vars, resVars

\* create_reservation begins.
LEMMA BeginCreateMoves ==
  ASSUME LocksInv, NEW p \in Procs, NEW t \in TicketTypes, BeginCreate(p, t)
  PROVE  Moved(p)
  <1> DEFINE c == [NoCall EXCEPT !.op = "create", !.type = t]
  <1>1. c \in Calls /\ c.op = "create" /\ c.type = t
    BY DEF NoCall, Calls
  <1>2. CreateRows(t) \in Seq(Rows) /\ CreateRows(t) # <<>>
    BY ConstantsAssumption DEF CreateRows, Rows
  <1>3. Begin(p, c, CreateRows(t))
    BY DEF BeginCreate
  <1>4. local'[p] = c /\ todo'[p] = CreateRows(t) /\ pc'[p] = "locking"
    BY <1>2, <1>3, ProcFacts DEF Begin
  <1>5. Disciplined(p)'
    BY <1>1, <1>4 DEF Disciplined, Named, Holds, Reads, At, Has, CreateRows
  <1> QED
    BY <1>1, <1>2, <1>3, <1>5, BeginMoves

\* cancel_reservation begins.
LEMMA BeginCancelMoves ==
  ASSUME LocksInv, NEW p \in Procs, NEW r \in Reservations, BeginCancel(p, r)
  PROVE  Moved(p)
  <1> DEFINE c == [NoCall EXCEPT !.op = "cancel", !.res = r]
  <1>1. c \in Calls /\ c.op = "cancel" /\ c.res = r
    BY DEF NoCall, Calls
  <1>2. CancelRows(r) \in Seq(Rows) /\ CancelRows(r) # <<>>
    BY ProcFacts DEF CancelRows, Rows, BeginCancel, TypeOK
  <1>3. Begin(p, c, CancelRows(r)) /\ resStatus[r] # "none"
    BY DEF BeginCancel
  <1>4. /\ local'[p] = c /\ todo'[p] = CancelRows(r) /\ pc'[p] = "locking"
        /\ UNCHANGED <<resStatus, resType>>
    BY <1>2, <1>3, ProcFacts DEF Begin, vars, resVars
  <1>5. Disciplined(p)'
    BY <1>1, <1>3, <1>4 DEF Disciplined, Named, Holds, Reads, At, Has, CancelRows
  <1> QED
    BY <1>1, <1>2, <1>3, <1>5, BeginMoves

\* process_purchase begins.
LEMMA BeginPurchaseMoves ==
  ASSUME LocksInv, NEW p \in Procs, NEW r \in Reservations, BeginPurchase(p, r)
  PROVE  Moved(p)
  <1> DEFINE c == [NoCall EXCEPT !.op = "purchase", !.res = r]
  <1>1. c \in Calls /\ c.op = "purchase" /\ c.res = r /\ c.key = NoRow
    BY DEF NoCall, Calls
  <1>2. PurchaseRows(r) \in Seq(Rows) /\ PurchaseRows(r) # <<>>
    BY ProcFacts, ConstantsAssumption DEF PurchaseRows, Rows, BeginPurchase, TypeOK
  <1>3. Begin(p, c, PurchaseRows(r)) /\ resStatus[r] # "none"
    BY DEF BeginPurchase
  <1>4. /\ local'[p] = c /\ todo'[p] = PurchaseRows(r) /\ pc'[p] = "locking"
        /\ UNCHANGED <<resStatus, resType>>
    BY <1>2, <1>3, ProcFacts DEF Begin, vars, resVars
  <1>5. Named(p)' /\ Reads(p)'
    BY <1>1, <1>3, <1>4 DEF Named, Reads, At
  <1>6. Holds(p)'
    <2>1. /\ Len(PurchaseRows(r)) = 4 /\ PurchaseRows(r)[1] = <<"res", r>>
          /\ PurchaseRows(r)[3] = <<"type", resType[r]>>
          /\ PurchaseRows(r)[4] = <<"event", EventOf[resType[r]]>>
      BY DEF PurchaseRows
    <2> QED
      BY <1>1, <1>4, <2>1 DEF Holds, Has
  <1> QED
    BY <1>1, <1>2, <1>3, <1>5, <1>6, BeginMoves DEF Disciplined

\* issue_refund begins.
LEMMA BeginRefundMoves ==
  ASSUME LocksInv, NEW p \in Procs, NEW k \in Keys, BeginRefund(p, k)
  PROVE  Moved(p)
  <1> DEFINE c == [NoCall EXCEPT !.op = "refund", !.key = k]
  <1>1. c \in Calls /\ c.op = "refund" /\ c.key = k
    BY DEF NoCall, Calls
  <1>2. RefundRows(k) \in Seq(Rows) /\ RefundRows(k) # <<>>
    BY DEF RefundRows, Rows
  <1>3. Begin(p, c, RefundRows(k))
    BY DEF BeginRefund
  <1>4. local'[p] = c /\ todo'[p] = RefundRows(k) /\ pc'[p] = "locking"
    BY <1>2, <1>3, ProcFacts DEF Begin
  <1>5. Disciplined(p)'
    BY <1>1, <1>4 DEF Disciplined, Named, Holds, Reads, At, Has, RefundRows
  <1> QED
    BY <1>1, <1>2, <1>3, <1>5, BeginMoves

\* sweep_expired_reservations begins.
LEMMA BeginSweepMoves ==
  ASSUME LocksInv, NEW p \in Procs, BeginSweep(p)
  PROVE  Moved(p)
  <1> DEFINE c == [NoCall EXCEPT !.op = "sweep"]
  <1>1. c \in Calls /\ c.op = "sweep" /\ c.rows = {}
    BY DEF NoCall, Calls
  <1>2. Begin(p, c, <<>>)
    BY DEF BeginSweep
  <1>3. local'[p] = c /\ pc'[p] = "check"
    BY <1>2, ProcFacts DEF Begin
  <1>4. Disciplined(p)'
    BY <1>1, <1>3 DEF Disciplined, Named, Holds, Reads, At
  <1>5. <<>> \in Seq(Rows)
    BY EmptySeq
  <1> HIDE DEF c
  <1> QED
    BY <1>1, <1>2, <1>4, <1>5, BeginMoves

\* A sequence is its head and its tail.
LEMMA HeadAndTail ==
  ASSUME NEW S, NEW s \in Seq(S), s # <<>>
  PROVE  /\ Head(s) \in S /\ Head(s) = s[1] /\ Tail(s) \in Seq(S)
         /\ Len(s) \in Nat /\ Len(s) >= 1
         /\ Len(Tail(s)) = Len(s) - 1
         /\ Tail(s) = <<>> <=> Len(s) = 1
         /\ \A i \in 1 .. Len(s) - 1 : Tail(s)[i] = s[i + 1]
  <1> DEFINE t == Tail(s)
  <1>1. Len(s) \in Nat \ {0}
    BY EmptySeq
  <1>2. /\ Head(s) \in S /\ t \in Seq(S) /\ Len(t) = Len(s) - 1
        /\ \A i \in 1 .. Len(t) : t[i] = s[i + 1]
    BY HeadTailProperties
  <1>3. Head(s) = s[1]
    OBVIOUS
  <1> HIDE DEF t
  <1>4. /\ t = <<>> => Len(t) = 0
        /\ t # <<>> => Len(t) \in Nat \ {0}
    BY <1>2, EmptySeq
  <1>5. t = <<>> <=> Len(s) = 1
    BY <1>1, <1>2, <1>4
  <1>6. \A i \in 1 .. Len(s) - 1 : t[i] = s[i + 1]
    BY <1>2
  <1> QED
    BY <1>1, <1>2, <1>3, <1>5, <1>6 DEF t

\* A row is locked: it was free, so nobody else loses it, and with the last row a
\* call holds all of its SELECT.
LEMMA AcquireMoves ==
  ASSUME LocksInv, NEW p \in Procs, Acquire(p)
  PROVE  Moved(p)
  <1> DEFINE row == Head(todo[p])
             rest == Tail(todo[p])
  <1>1. RowsStay /\ \A q : RowsKept(q)
    BY Quiet DEF Acquire
  <1>2. /\ todo[p] \in Seq(Rows) /\ todo[p] # <<>>
        /\ row \in Rows /\ row = todo[p][1] /\ rest \in Seq(Rows)
        /\ rest = <<>> <=> Len(todo[p]) = 1
        /\ \A i \in 2 .. Len(todo[p]) : i - 1 \in 1 .. Len(rest) /\ rest[i - 1] = todo[p][i]
    <2>1. todo[p] \in Seq(Rows) /\ todo[p] # <<>>
      BY ProcFacts DEF Acquire
    <2> HIDE DEF row, rest
    <2>2. /\ row \in Rows /\ row = todo[p][1] /\ rest \in Seq(Rows)
          /\ Len(todo[p]) \in Nat /\ Len(rest) = Len(todo[p]) - 1
          /\ rest = <<>> <=> Len(todo[p]) = 1
          /\ \A i \in 1 .. Len(todo[p]) - 1 : rest[i] = todo[p][i + 1]
      BY <2>1, HeadAndTail DEF row, rest
    <2>3. \A i \in 2 .. Len(todo[p]) :
             /\ i - 1 \in 1 .. Len(rest) /\ i - 1 \in 1 .. Len(todo[p]) - 1
             /\ (i - 1) + 1 = i
      BY <2>2
    <2>4. \A i \in 2 .. Len(todo[p]) : rest[i - 1] = todo[p][i]
      BY <2>2, <2>3
    <2> QED
      BY <2>1, <2>2, <2>3, <2>4
  <1>3. /\ todo'[p] = rest /\ lock'[row] = p
        /\ pc'[p] = IF rest = <<>> THEN "check" ELSE "locking"
        /\ local' = local /\ UNCHANGED <<resStatus, resType>>
        /\ \A other \in Rows : lock[other] = p => lock'[other] = p
        /\ \A other : lock[other] = p /\ other # row => lock'[other] = p
    BY ProcFacts, <1>2 DEF Acquire, vars, resVars
  <1>4. \A q \in Procs \ {p} : Idles(q)
    BY ProcFacts, <1>2, LocksAssumption DEF Acquire, Idles
  <1>5. \A other : Has(p, other) => Has(p, other)'
    <2> SUFFICES ASSUME NEW other, Has(p, other)
                 PROVE  Has(p, other)'
      OBVIOUS
    <2>1. CASE lock[other] = p
      BY <1>3, <2>1 DEF Has
    <2>2. CASE \E i \in 1 .. Len(todo[p]) : todo[p][i] = other
      <3>1. PICK i \in 1 .. Len(todo[p]) : todo[p][i] = other
        BY <2>2
      <3>2. CASE i = 1
        BY <1>2, <1>3, <3>1, <3>2 DEF Has
      <3>3. CASE i \in 2 .. Len(todo[p])
        BY <1>2, <1>3, <3>1, <3>3 DEF Has
      <3> QED
        BY <3>2, <3>3, <1>2
    <2> QED
      BY <2>1, <2>2 DEF Has
  <1>6. Disciplined(p)'
    <2>1. Named(p) /\ Holds(p) /\ pc[p] = "locking"
      BY ProcFacts DEF Acquire
    <2>2. Named(p)'
      BY <1>3, <2>1 DEF Named
    <2>3. \A other : lock[other] = p => lock'[other] = p
      BY <1>3
    <2>4. Holds(p)'
      BY <1>3, <1>5, <2>1, <2>3 DEF Holds
    <2> QED
      BY <1>3, <2>2, <2>4 DEF Disciplined, Reads, At
  <1> QED
    <2>1. lock' \in [Rows -> Procs \cup {Free}] /\ todo' \in [Procs -> Seq(Rows)]
      BY ProcFacts, <1>2 DEF Acquire
    <2>2. pc' \in [Procs -> Phases] /\ local'[p] # NoCall /\ pc'[p] # "idle"
      BY ProcFacts, <1>3 DEF Acquire, Phases
    <2>3. UNCHANGED <<resUser, resStatus, local>>
      BY DEF Acquire, vars, resVars
    <2> QED
      BY ProcFacts, <1>1, <1>3, <1>4, <1>6, <2>1, <2>2, <2>3 DEF Moved

\* create_reservation has checked what it locked.
LEMMA CreateCheckMoves ==
  ASSUME LocksInv, NEW p \in Procs, NEW u \in Users, NEW q \in Units,
         CreateCheck(p, u, q)
  PROVE  Moved(p)
  <1> DEFINE c == local[p]
             d == [c EXCEPT !.user = u, !.qty = q, !.held = held[c.type]]
  <1>0. /\ c \in Calls /\ c.op = "create" /\ pc[p] = "check" /\ c.type \in TicketTypes
        /\ TypeOK /\ Named(p) /\ Holds(p)
    BY ProcFacts DEF CreateCheck, At, Named
  <1>1. CASE Leave(p)
    BY <1>1, LeaveMoves
  <1>2. CASE /\ onSale[c.type] /\ ~ paused[EventOf[c.type]] /\ Available(c.type) >= q
             /\ Proceed(p, "write", d) /\ UNCHANGED lock
    <2>1. /\ d \in Calls /\ d.op = "create" /\ d.type = c.type /\ d.user = u
          /\ d.qty = q /\ d.held = held[c.type]
      <3>1. held[c.type] \in Nat /\ q \in Nat
        BY <1>0, ConstantsAssumption DEF TypeOK, Units
      <3> QED
        BY <1>0, <3>1 DEF Calls
    <2> HIDE DEF d
    <2>2. /\ local'[p] = d /\ pc'[p] = "write" /\ todo' = todo
          /\ UNCHANGED <<vars, lock>>
      BY <1>2, ProcFacts DEF Proceed
    <2>3. Named(p)' /\ Holds(p)'
      BY <1>0, <2>1, <2>2 DEF Named, Holds, Has
    <2>4. Reads(p)'
      BY <1>2, <2>1, <2>2 DEF Reads, At, Available, vars, typeVars
    <2> QED
      BY <1>0, <1>2, <2>1, <2>3, <2>4, ProceedMoves, ProcFacts DEF Disciplined
  <1> QED
    BY <1>1, <1>2 DEF CreateCheck

\* What cancel_reservation checks, it checks of a row it holds.
LEMMA CancelCheckMoves ==
  ASSUME LocksInv, NEW p \in Procs, CancelCheck(p)
  PROVE  Moved(p)
  <1>0. /\ local[p] \in Calls /\ local[p].op = "cancel" /\ pc[p] = "check"
        /\ Named(p) /\ Holds(p)
    BY ProcFacts DEF CancelCheck, At
  <1>1. CASE Leave(p)
    BY <1>1, LeaveMoves
  <1>2. CASE /\ resStatus[local[p].res] = "active"
             /\ Proceed(p, "write", local[p]) /\ UNCHANGED lock
    <2>2. /\ local'[p] = local[p] /\ pc'[p] = "write" /\ todo' = todo
          /\ UNCHANGED <<vars, lock>>
      BY <1>2, ProcFacts DEF Proceed
    <2>3. Named(p)' /\ Holds(p)'
      BY <1>0, <2>2 DEF Named, Holds, Has, vars, resVars
    <2>4. Reads(p)'
      BY <1>0, <1>2, <2>2 DEF Reads, At, vars, resVars
    <2> QED
      BY <1>0, <1>2, <2>3, <2>4, ProceedMoves, ProcFacts DEF Disciplined
  <1> QED
    BY <1>1, <1>2 DEF CancelCheck

\* process_purchase hands out an Order that exists.
LEMMA CollisionMoves ==
  ASSUME LocksInv, NEW p \in Procs, pc[p] \notin {"idle", "locking"}, NEW k \in Keys,
         WriteCollision(k), Commit(p), UNCHANGED resUser
  PROVE  Moved(p)
  <1>1. /\ UNCHANGED <<typeVars, resVars, ordVars, resUser>>
    BY DEF WriteCollision
  <1>2. RowsStay /\ \A q : RowsKept(q)
    BY <1>1 DEF RowsStay, RowsKept, typeVars, resVars, ordVars, ActiveTicketsOf
  <1>3. UNCHANGED <<resUser, resStatus>>
    BY <1>1 DEF resVars
  <1> QED
    BY <1>2, <1>3, CommitMoves, ProcFacts

\* What process_purchase checks of its reservation and event, it checks of rows it
\* holds, and it inserts its Order under a key nobody has.
LEMMA PurchaseCheckMoves ==
  ASSUME LocksInv, NEW p \in Procs, NEW k \in Keys, PurchaseCheck(p, k)
  PROVE  Moved(p)
  <1> DEFINE c == local[p]
             d == [c EXCEPT !.key = k]
  <1>0. /\ c \in Calls /\ c.op = "purchase" /\ pc[p] = "check"
        /\ Named(p) /\ Holds(p)
    BY ProcFacts DEF PurchaseCheck, At
  <1>1. CASE Leave(p)
    BY <1>1, LeaveMoves
  <1>2. CASE WriteCollision(k) /\ Commit(p) /\ UNCHANGED resUser
    BY <1>0, <1>2, CollisionMoves
  <1>3. CASE MayPurchase(c.res, k) /\ Proceed(p, "insert", d) /\ UNCHANGED lock
    <2>1. d \in Calls /\ d.op = "purchase" /\ d.key = k /\ d.res = c.res
      BY <1>0 DEF Calls
    <2> HIDE DEF d
    <2>2. /\ local'[p] = d /\ pc'[p] = "insert" /\ todo' = todo
          /\ UNCHANGED <<vars, lock>>
      BY <1>3, ProcFacts DEF Proceed
    <2>3. Named(p)' /\ Holds(p)'
      BY <1>0, <2>1, <2>2 DEF Named, Holds, Has, vars, resVars
    <2>4. Reads(p)'
      BY <1>3, <2>1, <2>2 DEF Reads, At, vars, resVars, typeVars, MayPurchase
    <2> QED
      BY <1>0, <1>3, <2>1, <2>3, <2>4, ProceedMoves, ProcFacts DEF Disciplined
  <1> QED
    BY <1>1, <1>2, <1>3 DEF PurchaseCheck

\* The insert of the Order locks its key, which is free.
LEMMA PurchaseInsertMoves ==
  ASSUME LocksInv, NEW p \in Procs, PurchaseInsert(p)
  PROVE  Moved(p)
  <1> DEFINE k == local[p].key
  <1>0. /\ local[p] \in Calls /\ local[p].op = "purchase" /\ pc[p] = "insert"
        /\ k \in Keys /\ <<"order", k>> \in Rows
        /\ Named(p) /\ Holds(p) /\ Reads(p)
    BY ProcFacts DEF PurchaseInsert, At, Reads, Rows
  <1>1. CASE WriteCollision(k) /\ Commit(p) /\ UNCHANGED resUser
    BY <1>0, <1>1, CollisionMoves
  <1>2. CASE /\ ordStatus[k] = "none" /\ Proceed(p, "capture", local[p])
             /\ lock' = [lock EXCEPT ![<<"order", k>>] = p]
    <2>1. lock[<<"order", k>>] \in {Free, p}
      BY <1>0, <1>2 DEF PurchaseInsert, Blockers, NextRow, At
    <2>2. /\ local'[p] = local[p] /\ pc'[p] = "capture" /\ todo' = todo
          /\ UNCHANGED vars
      BY <1>2, ProcFacts DEF Proceed
    <2>3. /\ lock' \in [Rows -> Procs \cup {Free}] /\ lock'[<<"order", k>>] = p
          /\ \A row \in Rows : row # <<"order", k>> => lock'[row] = lock[row]
          /\ \A row : lock[row] = p => lock'[row] = p
      BY <1>0, <1>2, ProcFacts
    <2>4. Named(p)' /\ Reads(p)'
      BY <1>0, <1>2, <2>2 DEF Named, Reads, At, vars, typeVars, resVars, ordVars
    <2>5. \A row : Has(p, row) => Has(p, row)'
      BY <2>2, <2>3 DEF Has
    <2>6. Holds(p)'
      BY <1>0, <2>2, <2>3, <2>5 DEF Holds, vars, resVars
    <2>7. \A row \in Rows : \A q \in Procs \ {p} : lock[row] = q => lock'[row] = q
      BY <2>1, <2>3, LocksAssumption
    <2> QED
      BY <1>0, <1>2, <2>3, <2>4, <2>6, <2>7, ProceedMoves DEF Disciplined
  <1> QED
    BY <1>1, <1>2 DEF PurchaseInsert

\* The capture writes no row.
LEMMA PurchaseCaptureMoves ==
  ASSUME LocksInv, NEW p \in Procs, NEW ok \in BOOLEAN, PurchaseCapture(p, ok)
  PROVE  Moved(p)
  <1> DEFINE c == local[p]
             d == [c EXCEPT !.paid = ok]
  <1>0. /\ c \in Calls /\ c.op = "purchase" /\ pc[p] = "capture"
        /\ Named(p) /\ Holds(p) /\ Reads(p)
        /\ Proceed(p, "write", d) /\ UNCHANGED lock
    BY ProcFacts DEF PurchaseCapture, At
  <1>1. d \in Calls /\ d.op = "purchase" /\ d.key = c.key /\ d.res = c.res
    BY <1>0 DEF Calls
  <1> HIDE DEF d
  <1>2. /\ local'[p] = d /\ pc'[p] = "write" /\ todo' = todo
        /\ UNCHANGED <<vars, lock>>
    BY <1>0, ProcFacts DEF Proceed
  <1>3. Named(p)' /\ Holds(p)'
    BY <1>0, <1>1, <1>2 DEF Named, Holds, Has, vars, resVars
  <1>4. Reads(p)'
    BY <1>0, <1>1, <1>2 DEF Reads, At, vars, resVars, typeVars, ordVars
  <1> QED
    BY <1>0, <1>1, <1>3, <1>4, ProceedMoves, ProcFacts DEF Disciplined

\* The tickets issue_refund selects are those of an order it holds.
LEMMA RefundCheckMoves ==
  ASSUME LocksInv, NEW p \in Procs, NEW ids \in SUBSET TicketCells, RefundCheck(p, ids)
  PROVE  Moved(p)
  <1> DEFINE c == local[p]
             T == RefundTargets(c.key, ids)
             d == [c EXCEPT !.rows = T]
  <1>0. /\ c \in Calls /\ c.op = "refund" /\ pc[p] = "check"
        /\ Named(p) /\ Holds(p)
    BY ProcFacts DEF RefundCheck, At
  <1>1. CASE Leave(p)
    BY <1>1, LeaveMoves
  <1>2. CASE MayRefund(c.key, ids) /\ Proceed(p, "write", d) /\ UNCHANGED lock
    <2>1. T \subseteq ActiveTicketsOf(c.key) /\ T \subseteq TicketCells
      BY DEF RefundTargets, ActiveTicketsOf, TicketsOf
    <2>2. /\ T # {} /\ ordStatus[c.key] \in {"confirmed", "partially_refunded"}
      BY <1>2 DEF MayRefund
    <2> HIDE DEF T
    <2>3. d \in Calls /\ d.op = "refund" /\ d.key = c.key /\ d.rows = T
      <3>1. T \in (SUBSET Reservations) \cup (SUBSET TicketCells)
        BY <2>1
      <3> QED
        BY <1>0, <3>1 DEF Calls
    <2> HIDE DEF d
    <2>4. /\ local'[p] = d /\ pc'[p] = "write" /\ todo' = todo
          /\ UNCHANGED <<vars, lock>>
      BY <1>2, ProcFacts DEF Proceed
    <2>5. Named(p)' /\ Holds(p)'
      BY <1>0, <2>3, <2>4 DEF Named, Holds, Has
    <2>6. Reads(p)'
      BY <2>1, <2>2, <2>3, <2>4 DEF Reads, At, vars, ordVars, ActiveTicketsOf
    <2> QED
      BY <1>0, <1>2, <2>3, <2>5, <2>6, ProceedMoves, ProcFacts DEF Disciplined
  <1> QED
    BY <1>1, <1>2 DEF RefundCheck

\* SKIP LOCKED takes rows that are free.
LEMMA SweepCheckMoves ==
  ASSUME LocksInv, NEW p \in Procs, SweepCheck(p)
  PROVE  Moved(p)
  <1> DEFINE c == local[p]
             S == SweepSelected
             d == [c EXCEPT !.rows = S]
             taken == ({"res"} \X SweepUnlocked) \cup {<<"type", resType[r]>> : r \in S}
  <1>0. /\ c \in Calls /\ c.op = "sweep" /\ pc[p] = "check"
        /\ Named(p) /\ Holds(p) /\ TypeOK
    BY ProcFacts DEF SweepCheck, At
  <1>1. CASE Leave(p)
    BY <1>1, LeaveMoves
  <1>2. CASE /\ S # {} /\ Proceed(p, "write", d)
             /\ lock' = [row \in Rows |-> IF row \in taken THEN p ELSE lock[row]]
    <2>1. /\ S \subseteq SweepUnlocked /\ S \subseteq lapsed
          /\ \A r \in S : r \in Reservations /\ resStatus[r] # "none"
                          /\ resType[r] \in TicketTypes
      BY <1>0 DEF SweepSelected, SweepUnlocked, TypeOK, ActiveReservations
    <2>2. \A row \in taken : lock[row] = Free
      <3>1. \A r \in SweepUnlocked : lock[<<"res", r>>] = Free
        BY DEF SweepUnlocked
      <3>2. \A r \in S : lock[<<"type", resType[r]>>] = Free
        BY DEF SweepSelected
      <3>3. \A row \in {"res"} \X SweepUnlocked :
               \E r \in SweepUnlocked : row = <<"res", r>>
        OBVIOUS
      <3> HIDE DEF S
      <3> QED
        BY <3>1, <3>2, <3>3
    <2>3. \A r \in S : /\ <<"res", r>> \in taken /\ <<"res", r>> \in Rows
                       /\ <<"type", resType[r]>> \in taken
                       /\ <<"type", resType[r]>> \in Rows
      BY <2>1 DEF Rows
    <2> HIDE DEF S, taken
    <2>4. d \in Calls /\ d.op = "sweep" /\ d.rows = S
      BY <1>0, <2>1 DEF Calls
    <2> HIDE DEF d
    <2>5. /\ local'[p] = d /\ pc'[p] = "write" /\ todo' = todo
          /\ UNCHANGED vars
      BY <1>2, ProcFacts DEF Proceed
    <2>6. Named(p)'
      BY <2>1, <2>4, <2>5 DEF Named, vars, resVars
    <2>7. Holds(p)'
      BY <1>2, <2>3, <2>4, <2>5 DEF Holds, vars, resVars
    <2>8. Reads(p)'
      BY <1>2, <2>1, <2>4, <2>5 DEF Reads, At, vars, resVars
    <2>9. /\ lock' \in [Rows -> Procs \cup {Free}]
          /\ \A row \in Rows : \A q \in Procs \ {p} : lock[row] = q => lock'[row] = q
      BY <1>2, <2>2, ProcFacts, LocksAssumption
    <2> QED
      BY <1>0, <1>2, <2>4, <2>6, <2>7, <2>8, <2>9, ProceedMoves DEF Disciplined
  <1> QED
    BY <1>1, <1>2 DEF SweepCheck

-----------------------------------------------------------------------------
(* The steps that write, at their COMMIT: each is the transaction of       *)
(* Inventory it is meant to be, and touches rows that p holds.             *)

\* Past its SELECT a call holds all its rows.
LEMMA Locked ==
  ASSUME LocksInv, NEW p \in Procs, pc[p] # "locking"
  PROVE  LET c == local[p] IN
         /\ c.op = "create" =>
               lock[<<"type", c.type>>] = p /\ lock[<<"event", EventOf[c.type]>>] = p
         /\ c.op \in {"cancel", "purchase"} =>
               lock[<<"res", c.res>>] = p /\ lock[<<"type", resType[c.res]>>] = p
         /\ c.op = "purchase" => lock[<<"event", EventOf[resType[c.res]]>>] = p
         /\ c.op = "purchase" /\ pc[p] \in {"capture", "write"} =>
               lock[<<"order", c.key>>] = p
         /\ c.op = "refund" => lock[<<"order", c.key>>] = p
         /\ c.op = "sweep" =>
               \A r \in c.rows : lock[<<"res", r>>] = p /\ lock[<<"type", resType[r]>>] = p
  <1>1. Holds(p) /\ \A row : Has(p, row) => lock[row] = p
    BY ProcFacts
  <1> QED
    BY <1>1 DEF Holds

\* The COMMIT of create_reservation is the atomic transaction: the counters it
\* computed from are those of the row it holds.
LEMMA CreateWriteIsCreate ==
  ASSUME LocksInv, NEW p \in Procs, NEW r \in Reservations, CreateWrite(p, r)
  PROVE  /\ CreateReservation(r, local[p].type, local[p].qty)
         /\ local[p].type \in TicketTypes /\ local[p].qty \in Units
  <1>1. /\ local[p].op = "create" /\ At(p, "create", "write")
        /\ Named(p) /\ Reads(p)
    BY ProcFacts DEF CreateWrite, At
  <1> QED
    BY <1>1 DEF CreateWrite, CreateReservation, Named, Reads

\* It writes no row another call holds.
LEMMA CreateWriteMoves ==
  ASSUME LocksInv, NEW p \in Procs, NEW r \in Reservations, CreateWrite(p, r)
  PROVE  Moved(p)
  <1> DEFINE c == local[p]
  <1>0. /\ pc[p] = "write" /\ c.op = "create" /\ c.type \in TicketTypes /\ c.user \in Users
        /\ lock[<<"type", c.type>>] = p
        /\ resStatus[r] = "none" /\ TypeOK
        /\ WriteHold(r, c.type, c.qty, c.held)
        /\ resUser' = [resUser EXCEPT ![r] = c.user]
        /\ Commit(p)
    <2>1. /\ pc[p] = "write" /\ local[p].op = "create"
          /\ Named(p) /\ Reads(p) /\ TypeOK
      BY ProcFacts DEF CreateWrite, At
    <2> QED
      BY <2>1, Locked DEF CreateWrite, At, Named, Reads
  <1>1. /\ \A t \in TicketTypes : t # c.type => held'[t] = held[t]
        /\ UNCHANGED <<capacity, onSale, sold, paused, lapsed, ordStatus, activeTickets>>
        /\ \A s \in Reservations : s # r =>
              resStatus'[s] = resStatus[s] /\ resType'[s] = resType[s]
              /\ resUser'[s] = resUser[s]
    BY <1>0, ProcFacts DEF WriteHold, TypeOK, ordVars
  <1>2. RowsStay
    BY <1>0, <1>1 DEF RowsStay
  <1>3. ASSUME NEW q \in Procs \ {p}
        PROVE  RowsKept(q)
    BY <1>0, <1>1, <1>3 DEF RowsKept, ActiveTicketsOf
  <1>4. /\ resUser' \in [Reservations -> Users \cup {NoRow}]
        /\ \A s \in Reservations : resStatus'[s] # "none" => resUser'[s] \in Users
    BY <1>0, <1>1, ProcFacts
  <1> QED
    BY <1>0, <1>2, <1>3, <1>4, CommitMoves

\* The COMMIT of cancel_reservation is the atomic transaction, and writes no row
\* another call holds.
LEMMA CancelWriteMoves ==
  ASSUME LocksInv, NEW p \in Procs, CancelWrite(p)
  PROVE  Moved(p) /\ local[p].res \in Reservations /\ CancelReservation(local[p].res)
  <1> DEFINE r == local[p].res
             t == resType[r]
  <1>0. /\ pc[p] = "write" /\ local[p].op = "cancel" /\ r \in Reservations
        /\ resStatus[r] = "active"
        /\ lock[<<"res", r>>] = p /\ lock[<<"type", t>>] = p
        /\ TypeOK /\ WriteCancel(r) /\ Commit(p) /\ UNCHANGED resUser
    <2>1. /\ pc[p] = "write" /\ local[p].op = "cancel"
          /\ Named(p) /\ Reads(p) /\ TypeOK
      BY ProcFacts DEF CancelWrite, At
    <2> QED
      BY <2>1, Locked DEF CancelWrite, At, Named, Reads
  <1>1. /\ \A u \in TicketTypes : u # t => held'[u] = held[u]
        /\ UNCHANGED <<capacity, onSale, sold, paused, ordStatus, activeTickets, resType>>
        /\ \A s \in Reservations : s # r =>
              resStatus'[s] = resStatus[s] /\ (s \in lapsed => s \in lapsed')
        /\ resStatus'[r] # "none"
    BY <1>0 DEF WriteCancel, TypeOK, ordVars
  <1>2. RowsStay
    BY <1>0, <1>1 DEF RowsStay
  <1>3. ASSUME NEW q \in Procs \ {p}
        PROVE  RowsKept(q)
    BY <1>0, <1>1, <1>3 DEF RowsKept, ActiveTicketsOf
  <1>4. /\ resUser' \in [Reservations -> Users \cup {NoRow}]
        /\ \A s \in Reservations : resStatus'[s] # "none" => resUser'[s] \in Users
    BY <1>0, <1>1, ProcFacts
  <1>5. Moved(p)
    BY <1>0, <1>2, <1>3, <1>4, CommitMoves
  <1> QED
    BY <1>0, <1>5 DEF CancelReservation

\* What process_purchase has checked is still so at its COMMIT.
LEMMA PurchaseWriteFacts ==
  ASSUME LocksInv, NEW p \in Procs, PurchaseWrite(p)
  PROVE  LET c == local[p] IN
         /\ pc[p] = "write" /\ c.op = "purchase"
         /\ c.res \in Reservations /\ c.key \in Keys
         /\ resStatus[c.res] = "active" /\ ordStatus[c.key] = "none"
         /\ ~ paused[EventOf[resType[c.res]]]
         /\ lock[<<"res", c.res>>] = p /\ lock[<<"order", c.key>>] = p
         /\ lock[<<"type", resType[c.res]>>] = p
         /\ \/ WriteSale(c.res, c.key)
            \/ WriteDecline(c.res, c.key)
         /\ Commit(p) /\ UNCHANGED resUser
  <1>1. /\ pc[p] = "write" /\ local[p].op = "purchase"
        /\ Named(p) /\ Reads(p)
    BY ProcFacts DEF PurchaseWrite, At
  <1> QED
    BY <1>1, Locked DEF PurchaseWrite, Named, Reads

\* The COMMIT of process_purchase writes no row another call holds.
LEMMA PurchaseWriteMoves ==
  ASSUME LocksInv, NEW p \in Procs, PurchaseWrite(p)
  PROVE  Moved(p)
  <1> DEFINE r == local[p].res
             k == local[p].key
             t == resType[r]
  <1>0. /\ pc[p] = "write" /\ r \in Reservations /\ k \in Keys
        /\ resStatus[r] = "active" /\ ordStatus[k] = "none"
        /\ lock[<<"res", r>>] = p /\ lock[<<"type", t>>] = p /\ lock[<<"order", k>>] = p
        /\ WriteSale(r, k) \/ WriteDecline(r, k)
        /\ Commit(p) /\ UNCHANGED resUser
        /\ TypeOK
    BY PurchaseWriteFacts, ProcFacts
  <1> HIDE DEF r, k
  <1>1. /\ \A u \in TicketTypes : u # t => held'[u] = held[u] /\ sold'[u] = sold[u]
        /\ UNCHANGED <<capacity, onSale, paused, resType>>
        /\ \A s \in Reservations : s # r =>
              resStatus'[s] = resStatus[s] /\ (s \in lapsed => s \in lapsed')
        /\ resStatus'[r] # "none"
        /\ \A j \in Keys : j # k => ordStatus'[j] = ordStatus[j]
        /\ ordStatus'[k] # "none"
    BY <1>0 DEF WriteSale, WriteDecline, TypeOK, typeVars, resVars
  <1>2. ASSUME NEW j \in Keys, j # k
        PROVE  ActiveTicketsOf(j)' = ActiveTicketsOf(j)
    <2>1. \E n : activeTickets' = activeTickets \cup ({k} \X n) \/ activeTickets' = activeTickets
      BY <1>0 DEF WriteSale, WriteDecline
    <2> QED
      BY <1>2, <2>1 DEF ActiveTicketsOf, TicketsOf
  <1>3. RowsStay
    BY <1>0, <1>1 DEF RowsStay
  <1>4. ASSUME NEW q \in Procs \ {p}
        PROVE  RowsKept(q)
    BY <1>0, <1>1, <1>2, <1>4 DEF RowsKept
  <1>5. /\ resUser' \in [Reservations -> Users \cup {NoRow}]
        /\ \A s \in Reservations : resStatus'[s] # "none" => resUser'[s] \in Users
    BY <1>0, <1>1, ProcFacts
  <1> QED
    BY <1>0, <1>3, <1>4, <1>5, CommitMoves

\* The COMMIT of issue_refund is the atomic transaction; the counter it updates
\* without a SELECT is free or its own by then.
LEMMA RefundWriteMoves ==
  ASSUME LocksInv, NEW p \in Procs, RefundWrite(p)
  PROVE  /\ Moved(p)
         /\ local[p].key \in Keys /\ local[p].rows \in SUBSET TicketCells
         /\ IssueRefund(local[p].key, local[p].rows)
  <1> DEFINE k == local[p].key
             T == local[p].rows
             t == OrderType(k)
  <1>0. /\ pc[p] = "write" /\ At(p, "refund", "write") /\ local[p].op = "refund"
        /\ Blockers(p) = {}
        /\ k \in Keys /\ ordStatus[k] \in {"confirmed", "partially_refunded"}
        /\ T # {} /\ T \subseteq ActiveTicketsOf(k)
        /\ lock[<<"order", k>>] = p
        /\ WriteRefund(k, T) /\ Commit(p) /\ UNCHANGED resUser
        /\ TypeOK
    <2>1. /\ pc[p] = "write" /\ local[p].op = "refund"
          /\ Named(p) /\ Reads(p) /\ TypeOK
      BY ProcFacts DEF RefundWrite, At
    <2> QED
      BY <2>1, Locked DEF RefundWrite, At, Named, Reads
  <1>1. lock[<<"type", t>>] \in {Free, p}
    BY <1>0 DEF Blockers, NextRow, At
  <1> HIDE DEF k, T
  <1>2. /\ t \in TicketTypes
        /\ \A u \in TicketTypes : u # t => sold'[u] = sold[u]
        /\ UNCHANGED <<capacity, onSale, held, paused, resStatus, resType, lapsed>>
        /\ \A j \in Keys : j # k => ordStatus'[j] = ordStatus[j]
        /\ ordStatus'[k] # "none"
        /\ activeTickets' = activeTickets \ T
    BY <1>0 DEF WriteRefund, TypeOK, resVars, OrderType
  <1>3. ASSUME NEW j \in Keys, j # k
        PROVE  ActiveTicketsOf(j)' = ActiveTicketsOf(j)
    BY <1>0, <1>2, <1>3 DEF ActiveTicketsOf, TicketsOf
  <1>4. RowsStay
    BY <1>0, <1>2 DEF RowsStay
  <1>5. ASSUME NEW q \in Procs \ {p}
        PROVE  RowsKept(q)
    BY <1>0, <1>1, <1>2, <1>3, <1>5, LocksAssumption DEF RowsKept
  <1>6. /\ resUser' \in [Reservations -> Users \cup {NoRow}]
        /\ \A s \in Reservations : resStatus'[s] # "none" => resUser'[s] \in Users
    BY <1>0, <1>2, ProcFacts
  <1>7. Moved(p)
    BY <1>0, <1>4, <1>5, <1>6, CommitMoves
  <1>8. RefundTargets(k, T) = T
    BY <1>0 DEF RefundTargets
  <1>9. T \subseteq TicketCells
    BY <1>0 DEF ActiveTicketsOf, TypeOK
  <1> QED
    BY <1>0, <1>7, <1>8, <1>9 DEF IssueRefund, MayRefund, k, T

\* The COMMIT of the sweep expires reservations it holds, as one transaction.
LEMMA SweepWriteMoves ==
  ASSUME LocksInv, NEW p \in Procs, SweepWrite(p)
  PROVE  /\ Moved(p)
         /\ local[p].rows \in SUBSET Reservations /\ SweepExpired(local[p].rows)
  <1> DEFINE S == local[p].rows
  <1>0. /\ pc[p] = "write" /\ local[p].op = "sweep" /\ S # {} /\ S \subseteq lapsed
        /\ \A r \in S : lock[<<"res", r>>] = p /\ lock[<<"type", resType[r]>>] = p
        /\ WriteExpiry(S) /\ Commit(p) /\ UNCHANGED resUser
        /\ TypeOK
    BY ProcFacts DEF SweepWrite, At, Reads, Holds
  <1> HIDE DEF S
  <1>1. S \subseteq Reservations
    BY <1>0 DEF TypeOK, ActiveReservations
  <1>2. ASSUME NEW t \in TicketTypes, \A r \in S : resType[r] # t
        PROVE  held'[t] = held[t]
    <2>1. UnitsOf(S, t) = {}
      BY <1>2 DEF UnitsOf
    <2>2. held'[t] = held[t] - Cardinality({}) /\ held[t] \in Nat
      BY <1>0, <2>1 DEF WriteExpiry, TypeOK
    <2> QED
      BY <2>2, FS_EmptySet
  <1>3. /\ UNCHANGED <<capacity, onSale, sold, paused, ordStatus, activeTickets, resType>>
        /\ \A s \in Reservations : s \notin S =>
              resStatus'[s] = resStatus[s] /\ (s \in lapsed => s \in lapsed')
        /\ \A s \in S : resStatus'[s] = "expired"
    BY <1>0, <1>1 DEF WriteExpiry, TypeOK, ordVars
  <1>4. RowsStay
    BY <1>0, <1>1, <1>3 DEF RowsStay
  <1>5. ASSUME NEW q \in Procs \ {p}
        PROVE  RowsKept(q)
    BY <1>0, <1>1, <1>2, <1>3, <1>5 DEF RowsKept, ActiveTicketsOf
  <1>6. /\ resUser' \in [Reservations -> Users \cup {NoRow}]
        /\ \A s \in Reservations : resStatus'[s] # "none" => resUser'[s] \in Users
    <2>1. \A s \in S : s \in Reservations /\ resStatus[s] # "none"
      BY <1>0 DEF TypeOK, ActiveReservations
    <2> QED
      BY <1>0, <1>3, <2>1, ProcFacts
  <1>7. Moved(p)
    BY <1>0, <1>4, <1>5, <1>6, CommitMoves
  <1> QED
    BY <1>0, <1>1, <1>7 DEF SweepExpired, S

-----------------------------------------------------------------------------
(* The inductive invariant.                                                *)

\* The invariant of the rows speaks of the rows only.
LEMMA QuietInv ==
  ASSUME Inv, UNCHANGED vars
  PROVE  Inv'
  BY InvStep

\* Handing out an existing Order is a transaction of Inventory.
LEMMA CollisionIsDuplicate ==
  ASSUME LocksInv, NEW p \in Procs, local[p].op = "purchase", NEW k \in Keys,
         ordStatus[k] # "none", WriteCollision(k)
  PROVE  local[p].res \in Reservations /\ PurchaseDuplicate(local[p].res, k)
  BY ProcFacts DEF Named, PurchaseDuplicate

\* A step of a call moves its process, and is a transaction that may be late, or
\* part of one that changes nothing yet.
LEMMA StepMoves ==
  ASSUME LocksInv, NEW p \in Procs, Step(p)
  PROVE  Moved(p) /\ [LateNext]_vars
  <1> DEFINE Goal == Moved(p) /\ [LateNext]_vars
  <1>q. ASSUME UNCHANGED vars PROVE [LateNext]_vars
    BY <1>q
  <1>n. ASSUME Next PROVE [LateNext]_vars
    BY <1>n, NextIsLate
  <1> HIDE DEF Goal
  <1>1. ASSUME Acquire(p) PROVE Goal
    BY <1>1, <1>q, AcquireMoves DEF Acquire, Goal
  <1>2. ASSUME NEW u \in Users, NEW q \in Units, CreateCheck(p, u, q) PROVE Goal
    <2>1. UNCHANGED vars
      BY <1>2 DEF CreateCheck, Proceed, Leave
    <2> QED
      BY <1>2, <2>1, <1>q, CreateCheckMoves DEF Goal
  <1>3. ASSUME NEW r \in Reservations, CreateWrite(p, r) PROVE Goal
    <2>1. Next
      BY <1>3, CreateWriteIsCreate DEF Next
    <2> QED
      BY <1>3, <2>1, <1>n, CreateWriteMoves DEF Goal
  <1>4. ASSUME CancelCheck(p) PROVE Goal
    <2>1. UNCHANGED vars
      BY <1>4 DEF CancelCheck, Proceed, Leave
    <2> QED
      BY <1>4, <2>1, <1>q, CancelCheckMoves DEF Goal
  <1>5. ASSUME CancelWrite(p) PROVE Goal
    <2>1. Next
      BY <1>5, CancelWriteMoves DEF Next
    <2> QED
      BY <1>5, <2>1, <1>n, CancelWriteMoves DEF Goal
  <1>6. ASSUME NEW k \in Keys, PurchaseCheck(p, k) PROVE Goal
    <2>1. UNCHANGED vars \/ Next
      <3>1. CASE ordStatus[k] # "none"
        <4>1. local[p].op = "purchase" /\ WriteCollision(k)
          BY <1>6, <3>1 DEF PurchaseCheck, At
        <4> QED
          BY <3>1, <4>1, CollisionIsDuplicate DEF Next
      <3>2. CASE ordStatus[k] = "none"
        BY <1>6, <3>2 DEF PurchaseCheck, Proceed, Leave
      <3> QED
        BY <3>1, <3>2
    <2> QED
      BY <1>6, <2>1, <1>q, <1>n, PurchaseCheckMoves DEF Goal
  <1>7. ASSUME PurchaseInsert(p) PROVE Goal
    <2>1. UNCHANGED vars \/ Next
      <3> DEFINE k == local[p].key
      <3>0. local[p].op = "purchase" /\ k \in Keys
        BY <1>7, ProcFacts DEF PurchaseInsert, At, Reads
      <3>1. CASE ordStatus[k] # "none"
        <4>1. WriteCollision(k)
          BY <1>7, <3>1 DEF PurchaseInsert
        <4> QED
          BY <3>0, <3>1, <4>1, CollisionIsDuplicate DEF Next
      <3>2. CASE ordStatus[k] = "none"
        BY <1>7, <3>2 DEF PurchaseInsert, Proceed
      <3> QED
        BY <3>1, <3>2
    <2> QED
      BY <1>7, <2>1, <1>q, <1>n, PurchaseInsertMoves DEF Goal
  <1>8. ASSUME NEW ok \in BOOLEAN, PurchaseCapture(p, ok) PROVE Goal
    <2>1. UNCHANGED vars
      BY <1>8 DEF PurchaseCapture, Proceed
    <2> QED
      BY <1>8, <2>1, <1>q, PurchaseCaptureMoves DEF Goal
  <1>9. ASSUME PurchaseWrite(p) PROVE Goal
    <2>1. \E r \in Reservations, k \in Keys :
             /\ resStatus[r] = "active" /\ ordStatus[k] = "none"
             /\ WriteSale(r, k) \/ WriteDecline(r, k)
      BY <1>9, PurchaseWriteFacts
    <2>2. LateNext
      BY <2>1 DEF LateNext, LateSale, LateDecline
    <2> QED
      BY <1>9, <2>2, PurchaseWriteMoves DEF Goal
  <1>10. ASSUME NEW ids \in SUBSET TicketCells, RefundCheck(p, ids) PROVE Goal
    <2>1. UNCHANGED vars
      BY <1>10 DEF RefundCheck, Proceed, Leave
    <2> QED
      BY <1>10, <2>1, <1>q, RefundCheckMoves DEF Goal
  <1>11. ASSUME RefundWrite(p) PROVE Goal
    <2>1. Next
      BY <1>11, RefundWriteMoves DEF Next
    <2> QED
      BY <1>11, <2>1, <1>n, RefundWriteMoves DEF Goal
  <1>12. ASSUME SweepCheck(p) PROVE Goal
    <2>1. UNCHANGED vars
      BY <1>12 DEF SweepCheck, Proceed, Leave
    <2> QED
      BY <1>12, <2>1, <1>q, SweepCheckMoves DEF Goal
  <1>13. ASSUME SweepWrite(p) PROVE Goal
    <2>1. Next
      BY <1>13, SweepWriteMoves DEF Next
    <2> QED
      BY <1>13, <2>1, <1>n, SweepWriteMoves DEF Goal
  <1>14. ASSUME Release(p) PROVE Goal
    BY <1>14, <1>q, LeaveMoves DEF Release, Leave, Goal
  <1> QED
    BY <1>1, <1>2, <1>3, <1>4, <1>5, <1>6, <1>7, <1>8, <1>9, <1>10, <1>11, <1>12,
       <1>13, <1>14 DEF Step, Goal

\* The kill switch and the clock move no process.
LEMMA OutsideKeeps ==
  ASSUME LocksInv, Next, UNCHANGED lockVars, RowsStay, \A q \in Procs : RowsKept(q),
         UNCHANGED resStatus
  PROVE  LocksInv'
  <1>1. Inv'
    BY InvStep, NextIsLate DEF LocksInv
  <1>2. \A q \in Procs : Disciplined(q)'
    BY Frame DEF Idles, lockVars
  <1>3. LocalsTyped'
    BY DEF LocksInv, LocalsTyped, lockVars
  <1>4. LocksTypeOK'
    BY <1>1 DEF LocksInv, LocksTypeOK, lockVars, Inv
  <1> QED
    BY <1>1, <1>2, <1>3, <1>4 DEF LocksInv

\* pause_sales waits for the event, so it writes no row a call has locked.
LEMMA PauseKeeps ==
  ASSUME LocksInv, NEW e \in Events, PauseUnlocked(e)
  PROVE  LocksInv'
  <1>1. /\ lock[<<"event", e>>] = Free /\ TypeOK
        /\ UNCHANGED <<capacity, onSale, sold, held, resVars, ordVars>>
        /\ \A f \in Events : f # e => paused'[f] = paused[f]
    BY DEF PauseUnlocked, PauseSales, ResumeSales, LocksInv, Inv, TypeOK
  <1>2. Next /\ UNCHANGED lockVars
    BY DEF PauseUnlocked, Next
  <1>3. RowsStay
    BY <1>1, <1>2 DEF RowsStay, resVars, ordVars, lockVars
  <1>4. \A q \in Procs : RowsKept(q)
    BY <1>1, LocksAssumption DEF RowsKept, resVars, ordVars, ActiveTicketsOf
  <1> QED
    BY <1>1, <1>2, <1>3, <1>4, OutsideKeeps DEF resVars

\* Time passes: no call relies on a reservation not having lapsed.
LEMMA ClockKeeps ==
  ASSUME LocksInv, NEW r \in Reservations, Clock(r)
  PROVE  LocksInv'
  <1>1. /\ UNCHANGED <<typeVars, resStatus, resType, resQty, ordVars>>
        /\ lapsed' = lapsed \cup {r}
    BY DEF Clock, Lapse
  <1>2. Next /\ UNCHANGED lockVars
    BY DEF Clock, Next
  <1>3. RowsStay
    BY <1>1, <1>2 DEF RowsStay, typeVars, ordVars, lockVars
  <1>4. \A q \in Procs : RowsKept(q)
    BY <1>1 DEF RowsKept, typeVars, ordVars, ActiveTicketsOf
  <1> QED
    BY <1>1, <1>2, <1>3, <1>4, OutsideKeeps

\* Nobody has locked anything.
LEMMA LocksInvInit == LocksInit => LocksInv
  <1> SUFFICES ASSUME LocksInit
               PROVE  LocksInv
    OBVIOUS
  <1>1. Inv
    BY InvInit DEF LocksInit
  <1>2. NoCall \in Calls /\ NoCall.op = "none"
    BY DEF NoCall, Calls
  <1>3. \A r \in Reservations : resStatus[r] = "none"
    BY DEF LocksInit, Init
  <1>4. LocalsTyped
    BY <1>2, <1>3, EmptySeq DEF LocksInit, LocalsTyped, Phases
  <1>5. LocksTypeOK
    BY <1>1 DEF LocksInit, LocksTypeOK, Inv
  <1>6. \A p \in Procs : Disciplined(p)
    BY <1>2 DEF LocksInit, Disciplined, Named, Holds, Reads, At
  <1> QED
    BY <1>1, <1>4, <1>5, <1>6 DEF LocksInv

\* Every step keeps the discipline and the invariant of the rows.
LEMMA LocksInvStep == LocksInv /\ [LocksNext]_allVars => LocksInv'
  <1> SUFFICES ASSUME LocksInv, [LocksNext]_allVars
               PROVE  LocksInv'
    OBVIOUS
  <1>0. Inv
    BY DEF LocksInv
  <1>1. ASSUME NEW p \in Procs, Moved(p), UNCHANGED vars
        PROVE  LocksInv'
    BY <1>0, <1>1, QuietInv, MovedKeeps
  <1>2. ASSUME NEW p \in Procs, NEW t \in TicketTypes, BeginCreate(p, t)
        PROVE  LocksInv'
    BY <1>1, <1>2, BeginCreateMoves DEF BeginCreate, Begin
  <1>3. ASSUME NEW p \in Procs, NEW r \in Reservations, BeginCancel(p, r)
        PROVE  LocksInv'
    BY <1>1, <1>3, BeginCancelMoves DEF BeginCancel, Begin
  <1>4. ASSUME NEW p \in Procs, NEW r \in Reservations, BeginPurchase(p, r)
        PROVE  LocksInv'
    BY <1>1, <1>4, BeginPurchaseMoves DEF BeginPurchase, Begin
  <1>5. ASSUME NEW p \in Procs, NEW k \in Keys, BeginRefund(p, k)
        PROVE  LocksInv'
    BY <1>1, <1>5, BeginRefundMoves DEF BeginRefund, Begin
  <1>6. ASSUME NEW p \in Procs, BeginSweep(p)
        PROVE  LocksInv'
    BY <1>1, <1>6, BeginSweepMoves DEF BeginSweep, Begin
  <1>7. ASSUME NEW p \in Procs, Step(p)
        PROVE  LocksInv'
    BY <1>0, <1>7, StepMoves, InvStep, MovedKeeps
  <1>8. ASSUME NEW p \in Procs, Leave(p)
        PROVE  LocksInv'
    BY <1>1, <1>8, LeaveMoves DEF Leave
  <1>9. ASSUME NEW e \in Events, PauseUnlocked(e)
        PROVE  LocksInv'
    BY <1>9, PauseKeeps
  <1>10. ASSUME NEW r \in Reservations, Clock(r)
         PROVE  LocksInv'
    BY <1>10, ClockKeeps
  <1>11. ASSUME UNCHANGED allVars
         PROVE  LocksInv'
    <2>1. UNCHANGED vars /\ UNCHANGED lockVars
      BY <1>11 DEF allVars
    <2>2. RowsStay /\ \A q : RowsKept(q)
      BY <2>1, Quiet DEF lockVars
    <2>3. \A q \in Procs : Disciplined(q)'
      BY <2>1, <2>2, Frame DEF Idles, lockVars
    <2>4. Inv' /\ LocksTypeOK' /\ LocalsTyped'
      BY <1>0, <2>1, QuietInv
         DEF LocksInv, LocksTypeOK, LocalsTyped, lockVars, vars, resVars, Inv
    <2> QED
      BY <2>3, <2>4 DEF LocksInv
  <1> QED
    BY <1>2, <1>3, <1>4, <1>5, <1>6, <1>7, <1>8, <1>9, <1>10, <1>11
       DEF LocksNext, Rollback, DeadlockVictim

\* The discipline holds in every reachable state.
THEOREM LocksInvariance == LocksSpec => []LocksInv
  BY LocksInvInit, LocksInvStep, PTL DEF LocksSpec

\* Locks, program counters and local variables keep their types.
THEOREM LocksTyped == LocksSpec => []LocksTypeOK
  <1>1. LocksInv => LocksTypeOK
    BY DEF LocksInv
  <1> QED
    BY <1>1, LocksInvariance, PTL

\* The counters stay right when transactions interleave at their row locks.
THEOREM ZeroDriftUnderLocks == LocksSpec => []CountersMatchRows
  <1>1. LocksInv => CountersMatchRows
    BY DEF LocksInv, Inv
  <1> QED
    BY <1>1, LocksInvariance, PTL

\* However many refunds of an order overlap, each ticket is paid back once.
THEOREM ConcurrentRefundsPayOnce == LocksSpec => []RefundedOnce
  <1>1. LocksInv => RefundedOnce
    BY DEF LocksInv, Inv
  <1> QED
    BY <1>1, LocksInvariance, PTL

-----------------------------------------------------------------------------
(* What the atomic transactions keep, the interleaved ones keep.           *)

\* Every step is a transaction of Inventory, or a purchase that commits after
\* its checks, or changes no row.
LEMMA LocksStepIsLate == LocksInv /\ [LocksNext]_allVars => [LateNext]_vars
  <1> SUFFICES ASSUME LocksInv, [LocksNext]_allVars
               PROVE  [LateNext]_vars
    OBVIOUS
  <1>1. ASSUME NEW p \in Procs, Step(p)
        PROVE  [LateNext]_vars
    BY <1>1, StepMoves
  <1>2. ASSUME NEW e \in Events, PauseUnlocked(e)
        PROVE  [LateNext]_vars
    BY <1>2 DEF PauseUnlocked, LateNext
  <1>3. ASSUME NEW r \in Reservations, Clock(r)
        PROVE  [LateNext]_vars
    BY <1>3 DEF Clock, LateNext
  <1>4. CASE UNCHANGED allVars
    BY <1>4 DEF allVars
  <1> QED
    BY <1>1, <1>2, <1>3, <1>4
       DEF LocksNext, BeginCreate, BeginCancel, BeginPurchase, BeginRefund,
           BeginSweep, Begin, Rollback, DeadlockVictim, Leave

\* No interleaving of the calls sells or holds more than there is.
THEOREM ZeroOversellUnderLocks == LocksSpec => []NoOversell
  <1>1. LocksInv => NoOversell
    BY InvNoOversell DEF LocksInv
  <1> QED
    BY <1>1, LocksInvariance, PTL

\* Nor does one make the database refuse the commit of a captured payment.
THEOREM CapturesSettleUnderLocks == LocksSpec => []CaptureCanSettle
  <1>1. LocksInv => CaptureCanSettle
    BY InvSettles DEF LocksInv
  <1> QED
    BY <1>1, LocksInvariance, PTL

\* Nor the commit of a refund that was paid out.
THEOREM RefundsSettleUnderLocks == LocksSpec => []RefundCanSettle
  <1>1. LocksInv => RefundCanSettle
    BY InvRefundsSettle DEF LocksInv
  <1> QED
    BY <1>1, LocksInvariance, PTL

\* Purchases of one reservation with several keys, at once: one of them is paid.
THEOREM OnePaidOrderUnderLocks == LocksSpec => []SoldOnce
  <1>1. LocksInit => SoldOnce
    BY SoldOnceInit DEF LocksInit
  <1>2. LocksInv /\ SoldOnce /\ [LocksNext]_allVars => SoldOnce'
    BY LocksStepIsLate, StepKeepsSoldOnce DEF LocksInv
  <1> QED
    BY <1>1, <1>2, LocksInvariance, PTL DEF LocksSpec

\* Refunds of one order, at once: its status still tells what became of its
\* tickets.
THEOREM StatusTellsTicketsUnderLocks == LocksSpec => []OrderMatchesTickets
  <1>1. LocksInit => OrderMatchesTickets
    BY MatchInit DEF LocksInit
  <1>2. LocksInv /\ OrderMatchesTickets /\ [LocksNext]_allVars => OrderMatchesTickets'
    BY LocksStepIsLate, StepKeepsMatch DEF LocksInv
  <1> QED
    BY <1>1, <1>2, LocksInvariance, PTL DEF LocksSpec

\* However the calls interleave: a reservation that was sold, cancelled or
\* expired, an order that was refunded or declined and a refunded ticket stay
\* so, and nothing expires before its time.
THEOREM EndedStaysEndedUnderLocks == LocksSpec => [][RowsStayEnded]_vars
  <1>1. LocksInv /\ [LocksNext]_allVars => [RowsStayEnded]_vars
    BY LocksStepIsLate, StepKeepsEnded DEF LocksInv
  <1> QED
    BY <1>1, LocksInvariance, PTL DEF LocksSpec

\* The audit log, written by transactions that interleave and roll back, replays
\* to what is on hold.
THEOREM LogReplaysUnderLocks == LocksSpec => []AuditReplays
  <1>1. LocksInit => AuditTellsStatus
    BY AuditInit DEF LocksInit
  <1>2. LocksInv /\ AuditTellsStatus /\ [LocksNext]_allVars => AuditTellsStatus'
    BY LocksStepIsLate, StepKeepsAudit DEF LocksInv
  <1>3. LocksInv /\ SoldOnce /\ AuditTellsStatus => AuditReplays
    BY AuditFollows DEF LocksInv
  <1> QED
    BY <1>1, <1>2, <1>3, LocksInvariance, OnePaidOrderUnderLocks, PTL DEF LocksSpec

-----------------------------------------------------------------------------
(* The kill switch.                                                        *)

\* A step either leaves every reservation's status alone or is one of these.
LEMMA StatusMoves ==
  ASSUME LocksInv, [LocksNext]_allVars, resStatus' # resStatus
  PROVE  \E p \in Procs :
            \/ \E r \in Reservations : CreateWrite(p, r)
            \/ CancelWrite(p)
            \/ PurchaseWrite(p)
            \/ SweepWrite(p)
  <1>1. ASSUME NEW p \in Procs, Leave(p) PROVE FALSE
    BY <1>1 DEF Leave, vars, resVars
  <1>2. ASSUME NEW p \in Procs, NEW c, NEW rows, Begin(p, c, rows) PROVE FALSE
    BY <1>2 DEF Begin, vars, resVars
  <1>3. ASSUME NEW e \in Events, PauseUnlocked(e) PROVE FALSE
    BY <1>3 DEF PauseUnlocked, PauseSales, ResumeSales, resVars
  <1>4. ASSUME NEW r \in Reservations, Clock(r) PROVE FALSE
    BY <1>4 DEF Clock, Lapse
  <1>5. ASSUME NEW p \in Procs, NEW where, NEW loc, Proceed(p, where, loc) PROVE FALSE
    BY <1>5 DEF Proceed, vars, resVars
  <1>6. ASSUME NEW k \in Keys, WriteCollision(k) PROVE FALSE
    BY <1>6 DEF WriteCollision, resVars
  <1>7. ASSUME NEW p \in Procs, Acquire(p) PROVE FALSE
    BY <1>7 DEF Acquire, vars, resVars
  <1>8. ASSUME NEW p \in Procs, RefundWrite(p) PROVE FALSE
    BY <1>8 DEF RefundWrite, WriteRefund, resVars
  <1>9. ASSUME NEW p \in Procs, PurchaseInsert(p) PROVE FALSE
    <2>1. local[p].key \in Keys
      BY <1>9, ProcFacts DEF PurchaseInsert, At, Reads
    <2> QED
      BY <1>5, <1>6, <1>9, <2>1 DEF PurchaseInsert
  <1>10. ASSUME NEW p \in Procs, Step(p)
         PROVE  \/ \E r \in Reservations : CreateWrite(p, r)
                \/ CancelWrite(p)
                \/ PurchaseWrite(p)
                \/ SweepWrite(p)
    BY <1>1, <1>5, <1>6, <1>7, <1>8, <1>9, <1>10
       DEF Step, CreateCheck, CancelCheck, PurchaseCheck, PurchaseCapture, RefundCheck,
           SweepCheck, Release
  <1>11. ~ UNCHANGED allVars
    BY DEF allVars, vars, resVars
  <1> QED
    BY <1>1, <1>2, <1>3, <1>4, <1>10, <1>11
       DEF LocksNext, BeginCreate, BeginCancel, BeginPurchase, BeginRefund, BeginSweep,
           Rollback, DeadlockVictim

\* A call that has locked the event and seen it open sells before it is
\* paused; pause_sales waits for it.
THEOREM PauseIsRespected == LocksSpec => PauseStopsSales
  <1> DEFINE Open == \A r \in Reservations :
                 resStatus'[r] # resStatus[r] /\ resStatus'[r] \in {"active", "confirmed"}
                    => ~ paused[EventOf[resType'[r]]]
  <1>1. LocksInv /\ [LocksNext]_allVars => [Open]_allVars
    <2> SUFFICES ASSUME LocksInv, [LocksNext]_allVars, NEW r \in Reservations,
                        resStatus'[r] # resStatus[r],
                        resStatus'[r] \in {"active", "confirmed"}
                 PROVE  ~ paused[EventOf[resType'[r]]]
      OBVIOUS
    <2>0. TypeOK
      BY DEF LocksInv, Inv
    <2>1. ASSUME NEW p \in Procs, NEW s \in Reservations, CreateWrite(p, s)
          PROVE  ~ paused[EventOf[resType'[r]]]
      <3>1. /\ CreateReservation(s, local[p].type, local[p].qty)
            /\ local[p].type \in TicketTypes
        BY <2>1, CreateWriteIsCreate
      <3> QED
        BY <2>0, <3>1 DEF CreateReservation, WriteHold, TypeOK
    <2>2. ASSUME NEW p \in Procs, CancelWrite(p) PROVE FALSE
      BY <2>0, <2>2, CancelWriteMoves DEF CancelReservation, WriteCancel, TypeOK
    <2>3. ASSUME NEW p \in Procs, PurchaseWrite(p)
          PROVE  ~ paused[EventOf[resType'[r]]]
      <3> DEFINE c == local[p]
      <3>1. /\ c.res \in Reservations /\ ~ paused[EventOf[resType[c.res]]]
            /\ WriteSale(c.res, c.key) \/ WriteDecline(c.res, c.key)
        BY <2>3, PurchaseWriteFacts
      <3> HIDE DEF c
      <3> QED
        BY <2>0, <3>1 DEF WriteSale, WriteDecline, resVars, TypeOK
    <2>4. ASSUME NEW p \in Procs, SweepWrite(p) PROVE FALSE
      BY <2>0, <2>4, SweepWriteMoves DEF SweepExpired, WriteExpiry, TypeOK
    <2> QED
      BY <2>1, <2>2, <2>3, <2>4, StatusMoves
  <1> QED
    BY <1>1, LocksInvariance, PTL DEF LocksSpec, PauseStopsSales

-----------------------------------------------------------------------------
(* Linearizability: the locked steps implement Inventory's transactions.   *)

Past(q) == local[q].op = "purchase" /\ local[q].key # NoRow
AtomicLapsed == lapsed \ PastExpiryCheck

\* The reservations past the expiry check are those of the calls past theirs.
LEMMA PastMembers ==
  \A r : r \in PastExpiryCheck <=> \E q \in Procs : Past(q) /\ local[q].res = r
  BY DEF PastExpiryCheck, Past

\* The same of the next state.
LEMMA PastMembersNext ==
  \A r : r \in PastExpiryCheck' <=> \E q \in Procs : Past(q)' /\ local'[q].res = r
  <1> DEFINE after == {q \in Procs : Past(q)'}
  <1>1. PastExpiryCheck' = {local'[q].res : q \in after}
    BY DEF PastExpiryCheck, Past
  <1> QED
    BY <1>1

\* A purchase past its checks holds its reservation.
LEMMA PastHolds ==
  ASSUME LocksInv, NEW q \in Procs, Past(q)
  PROVE  /\ pc[q] \notin {"idle", "locking", "check"}
         /\ local[q].res \in Reservations
         /\ lock[<<"res", local[q].res>>] = q
  <1>1. /\ pc[q] = "idle" => local[q].op = "none"
        /\ Named(q) /\ local[q].op = "purchase" /\ local[q].key # NoRow
    BY ProcFacts DEF NoCall, Past
  <1>2. pc[q] \notin {"idle", "locking", "check"} /\ local[q].res \in Reservations
    BY <1>1 DEF Named
  <1> QED
    BY <1>1, <1>2, Locked

\* A step of the atomic system that changes nothing.
LEMMA AtomicStutter ==
  ASSUME UNCHANGED vars, UNCHANGED AtomicLapsed
  PROVE  UNCHANGED Atomic!vars
  BY DEF vars, typeVars, resVars, ordVars, AtomicLapsed,
         Atomic!vars, Atomic!typeVars, Atomic!resVars, Atomic!ordVars

\* They depend on the local variables of the calls only.
LEMMA PastKept ==
  ASSUME UNCHANGED local
  PROVE  UNCHANGED PastExpiryCheck
  BY DEF PastExpiryCheck

\* A call that reads, or gets a lock, and stays what it was for the clock.
LEMMA ReadMaps ==
  ASSUME UNCHANGED vars, NEW p \in Procs, \A q \in Procs \ {p} : local'[q] = local[q],
         \/ Past(p) /\ Past(p)' /\ local'[p].res = local[p].res
         \/ ~ Past(p) /\ ~ Past(p)'
         \/ ~ Past(p) /\ Past(p)' /\ local'[p].res \notin lapsed
  PROVE  UNCHANGED Atomic!vars
  <1>1. \A r : r \in PastExpiryCheck' <=> \E q \in Procs : Past(q)' /\ local'[q].res = r
    BY PastMembersNext
  <1>2. \A q \in Procs \ {p} : Past(q)' <=> Past(q)
    BY DEF Past
  <1>3. \A r : r \in PastExpiryCheck <=> \E q \in Procs : Past(q) /\ local[q].res = r
    BY PastMembers
  <1>4. ASSUME NEW r \in lapsed
        PROVE  r \in PastExpiryCheck' <=> r \in PastExpiryCheck
    <2>1. \A q \in Procs : Past(q)' /\ local'[q].res = r <=> Past(q) /\ local[q].res = r
      BY <1>2, <1>4
    <2> QED
      BY <1>1, <1>3, <2>1
  <1>5. lapsed' = lapsed
    BY DEF vars, resVars
  <1>6. UNCHANGED AtomicLapsed
    BY <1>4, <1>5 DEF AtomicLapsed
  <1> QED
    BY <1>6, AtomicStutter

\* When a purchase ends, its reservation may turn out to have lapsed.
LEMMA LeaveMaps ==
  ASSUME LocksInv, NEW p \in Procs, Leave(p)
  PROVE  [Atomic!Next]_Atomic!vars
  <1> DEFINE r == local[p].res
  <1>0. /\ UNCHANGED vars /\ TypeOK
        /\ local'[p] = NoCall /\ \A q \in Procs \ {p} : local'[q] = local[q]
    BY ProcFacts DEF Leave
  <1>1. ~ Past(p)' /\ \A q \in Procs \ {p} : Past(q)' <=> Past(q)
    BY <1>0 DEF Past, NoCall
  <1>2. CASE ~ Past(p)
    BY <1>0, <1>1, <1>2, ReadMaps
  <1>3. CASE Past(p) /\ r \in lapsed
    <2>1. ASSUME NEW q \in Procs \ {p}, Past(q)
          PROVE  local[q].res # r
      <3>1. lock[<<"res", r>>] = p
        BY <1>3, PastHolds
      <3>2. lock[<<"res", local[q].res>>] = q
        BY <2>1, PastHolds
      <3> HIDE DEF r
      <3> QED
        BY <3>1, <3>2
    <2>2. \A s : s \in PastExpiryCheck' <=> \E q \in Procs : Past(q)' /\ local'[q].res = s
      BY PastMembersNext
    <2>3. \A s : s \in PastExpiryCheck' <=> s \in PastExpiryCheck /\ s # r
      BY <1>0, <1>1, <2>1, <2>2, PastMembers
    <2> HIDE DEF r
    <2>4. AtomicLapsed' = AtomicLapsed \cup {r} /\ r \in Reservations /\ resStatus[r] = "active"
      <3>1. lapsed' = lapsed
        BY <1>0 DEF vars, resVars
      <3>2. AtomicLapsed' = lapsed \ PastExpiryCheck'
        BY <3>1 DEF AtomicLapsed
      <3>3. r \in Reservations /\ resStatus[r] = "active"
        BY <1>0, <1>3 DEF TypeOK, ActiveReservations
      <3> QED
        BY ONLY <1>3, <2>3, <3>2, <3>3 DEF AtomicLapsed
    <2>5. Atomic!Lapse(r)
      BY <1>0, <2>4 DEF Atomic!Lapse, Atomic!typeVars, Atomic!ordVars, AtomicLapsed,
                   vars, typeVars, resVars, ordVars
    <2> QED
      BY <2>4, <2>5 DEF Atomic!Next
  <1>4. CASE Past(p) /\ r \notin lapsed
    <2>1. \A s : s \in PastExpiryCheck' <=> \E q \in Procs : Past(q)' /\ local'[q].res = s
      BY PastMembersNext
    <2>2. \A s \in lapsed : s \in PastExpiryCheck' <=> s \in PastExpiryCheck
      BY <1>0, <1>1, <1>4, <2>1, PastMembers
    <2>3. UNCHANGED AtomicLapsed
      BY <1>0, <2>2 DEF AtomicLapsed, vars, resVars
    <2> QED
      BY <1>0, <2>3, AtomicStutter
  <1> QED
    BY <1>2, <1>3, <1>4

\* Cardinality is the same operator in the mapped Inventory.
LEMMA SameCardinality ==
  \A S : Atomic!Cardinality(S) = Cardinality(S)
  BY DEF Cardinality, Atomic!Cardinality

\* The transactions of Inventory, as Atomic has them: of the purchases that
\* are past their checks, a transaction moves none.
LEMMA CreateMaps ==
  ASSUME UNCHANGED PastExpiryCheck, NEW r, NEW t, NEW q, CreateReservation(r, t, q)
  PROVE  Atomic!CreateReservation(r, t, q)
  <1>1. WriteHold(r, t, q, held[t]) /\ UNCHANGED AtomicLapsed
    BY DEF CreateReservation, WriteHold, AtomicLapsed
  <1>2. Atomic!WriteHold(r, t, q, held[t])
    BY <1>1 DEF WriteHold, Atomic!WriteHold, CheckConstraints, Atomic!CheckConstraints,
                ordVars, Atomic!ordVars, AtomicLapsed
  <1> QED
    BY <1>2 DEF CreateReservation, Atomic!CreateReservation, Available, Atomic!Available

\* A cancellation is one under the mapping, which changes only who has lapsed.
LEMMA CancelMaps ==
  ASSUME UNCHANGED PastExpiryCheck, NEW r, CancelReservation(r)
  PROVE  Atomic!CancelReservation(r)
  <1>1. WriteCancel(r) /\ AtomicLapsed' = AtomicLapsed \ {r}
    BY DEF CancelReservation, WriteCancel, AtomicLapsed
  <1>2. Atomic!WriteCancel(r)
    BY <1>1 DEF WriteCancel, Atomic!WriteCancel, CheckConstraints, Atomic!CheckConstraints,
                ordVars, Atomic!ordVars, AtomicLapsed
  <1> QED
    BY <1>2 DEF CancelReservation, Atomic!CancelReservation

\* A sweep is one, if it takes no reservation that is being sold past its time.
LEMMA SweepMaps ==
  ASSUME UNCHANGED PastExpiryCheck, NEW S, SweepExpired(S), S \cap PastExpiryCheck = {}
  PROVE  Atomic!SweepExpired(S)
  <1>1. /\ WriteExpiry(S) /\ S # {} /\ S \subseteq AtomicLapsed
        /\ AtomicLapsed' = AtomicLapsed \ S
    BY DEF SweepExpired, WriteExpiry, AtomicLapsed
  <1>2. \A t : UnitsOf(S, t) = Atomic!UnitsOf(S, t)
    BY DEF UnitsOf, Atomic!UnitsOf, Units, Atomic!Units
  <1>3. Atomic!WriteExpiry(S)
    <2>1. /\ \A t \in TicketTypes :
                Atomic!CheckConstraints(
                   sold[t], held[t] - Atomic!Cardinality(Atomic!UnitsOf(S, t)), capacity[t])
          /\ held' = [t \in TicketTypes |->
                         held[t] - Atomic!Cardinality(Atomic!UnitsOf(S, t))]
      <3>1. /\ \A t \in TicketTypes :
                  CheckConstraints(sold[t], held[t] - Cardinality(UnitsOf(S, t)), capacity[t])
            /\ held' = [t \in TicketTypes |-> held[t] - Cardinality(UnitsOf(S, t))]
        BY <1>1 DEF WriteExpiry
      <3>2. \A t : Cardinality(UnitsOf(S, t)) = Atomic!Cardinality(Atomic!UnitsOf(S, t))
        BY ONLY <1>2, SameCardinality
      <3>3. \A a, b, c : CheckConstraints(a, b, c) <=> Atomic!CheckConstraints(a, b, c)
        BY DEF CheckConstraints, Atomic!CheckConstraints
      <3> QED
        BY ONLY <3>1, <3>2, <3>3, SMT
    <2>2. /\ resStatus' = [r \in Reservations |->
                             IF r \in S THEN "expired" ELSE resStatus[r]]
          /\ AtomicLapsed' = AtomicLapsed \ S
          /\ audit' = audit \cup ({"reservation_expired"} \X S)
          /\ UNCHANGED <<capacity, sold, onSale, paused, resType, resQty, Atomic!ordVars>>
      BY <1>1 DEF WriteExpiry, ordVars, Atomic!ordVars
    <2> QED
      BY <2>1, <2>2, Zenon DEF Atomic!WriteExpiry, AtomicLapsed
  <1> QED
    BY <1>1, <1>3 DEF Atomic!SweepExpired, AtomicLapsed

\* The end of a purchase is one, its reservation counting as not lapsed.
LEMMA PurchaseMaps ==
  ASSUME UNCHANGED PastExpiryCheck, NEW r \in PastExpiryCheck, NEW k,
         resStatus[r] = "active", ordStatus[k] = "none", ~ paused[EventOf[resType[r]]],
         WriteSale(r, k) \/ WriteDecline(r, k)
  PROVE  Atomic!PurchaseConfirmed(r, k) \/ Atomic!PurchaseDeclined(r, k)
  <1>1. Atomic!MayPurchase(r, k)
    BY DEF Atomic!MayPurchase
  <1>2. CASE WriteSale(r, k)
    <2>1. AtomicLapsed' = AtomicLapsed \ {r}
      BY <1>2 DEF WriteSale, AtomicLapsed
    <2>2. Atomic!WriteSale(r, k)
      BY <1>2, <2>1 DEF WriteSale, Atomic!WriteSale, CheckConstraints,
                        Atomic!CheckConstraints, AtomicLapsed
    <2> QED
      BY <1>1, <2>2 DEF Atomic!PurchaseConfirmed
  <1>3. CASE WriteDecline(r, k)
    <2>1. UNCHANGED AtomicLapsed
      BY <1>3 DEF WriteDecline, resVars, AtomicLapsed
    <2>2. Atomic!WriteDecline(r, k)
      BY <1>3, <2>1 DEF WriteDecline, Atomic!WriteDecline, resVars, Atomic!resVars,
                        typeVars, Atomic!typeVars, AtomicLapsed
    <2> QED
      BY <1>1, <2>2 DEF Atomic!PurchaseDeclined
  <1> QED
    BY <1>2, <1>3

\* A purchase whose key exists is one.
LEMMA CollisionMaps ==
  ASSUME UNCHANGED PastExpiryCheck, NEW r, NEW k, PurchaseDuplicate(r, k)
  PROVE  Atomic!PurchaseDuplicate(r, k)
  <1>1. UNCHANGED AtomicLapsed
    BY DEF PurchaseDuplicate, WriteCollision, resVars, AtomicLapsed
  <1> QED
    BY <1>1 DEF PurchaseDuplicate, Atomic!PurchaseDuplicate, WriteCollision,
       Atomic!WriteCollision, typeVars, Atomic!typeVars, resVars, Atomic!resVars,
       ordVars, Atomic!ordVars, AtomicLapsed

\* A refund is one.
LEMMA RefundMaps ==
  ASSUME UNCHANGED PastExpiryCheck, NEW k, NEW ids, IssueRefund(k, ids)
  PROVE  Atomic!IssueRefund(k, ids)
  <1>0. /\ ActiveTicketsOf(k) = Atomic!ActiveTicketsOf(k)
        /\ TicketCells = Atomic!TicketCells
        /\ OrderType(k) = Atomic!OrderType(k)
    BY DEF ActiveTicketsOf, Atomic!ActiveTicketsOf, TicketsOf, Atomic!TicketsOf,
           TicketCells, Atomic!TicketCells, Units, Atomic!Units, OrderType,
           Atomic!OrderType
  <1>1. RefundTargets(k, ids) = Atomic!RefundTargets(k, ids)
    BY <1>0 DEF RefundTargets, Atomic!RefundTargets
  <1>2. MayRefund(k, ids) <=> Atomic!MayRefund(k, ids)
    BY <1>1 DEF MayRefund, Atomic!MayRefund
  <1> DEFINE T == RefundTargets(k, ids)
  <1>3. WriteRefund(k, T)
    BY DEF IssueRefund
  <1> HIDE DEF T
  <1>4. UNCHANGED AtomicLapsed
    BY <1>3 DEF WriteRefund, resVars, AtomicLapsed
  <1>5. Atomic!WriteRefund(k, T)
    <2> DEFINE t == OrderType(k)
               n == sold[t] - Atomic!Cardinality(T)
    <2>0. Atomic!Cardinality(T) = Cardinality(T)
      BY SameCardinality
    <2>1. /\ t \notin FreeTypes /\ Atomic!CheckConstraints(n, held[t], capacity[t])
          /\ refunds' = [x \in Atomic!TicketCells |-> IF x \in T THEN refunds[x] + 1
                                                       ELSE refunds[x]]
          /\ activeTickets' = activeTickets \ T
          /\ refundedTickets' = refundedTickets \cup T
          /\ sold' = [sold EXCEPT ![t] = @ - Atomic!Cardinality(T)]
          /\ ordStatus' = [ordStatus EXCEPT
                 ![k] = IF Atomic!ActiveTicketsOf(k) \ T = {}
                        THEN "refunded" ELSE "partially_refunded"]
          /\ audit' = audit \cup {<<"refund_issued", <<k, T>> >>}
      BY <1>0, <1>3, <2>0, Zenon DEF WriteRefund, CheckConstraints, Atomic!CheckConstraints
    <2>2. UNCHANGED <<capacity, held, onSale, paused, Atomic!resVars, ordRes>>
      BY <1>3, <1>4 DEF WriteRefund, resVars, Atomic!resVars, AtomicLapsed
    <2>3. t = Atomic!OrderType(k)
      BY <1>0
    <2> HIDE DEF t
    <2> QED
      BY <2>1, <2>2, <2>3, Zenon DEF Atomic!WriteRefund
  <1> QED
    BY <1>1, <1>2, <1>5 DEF IssueRefund, Atomic!IssueRefund, T

\* Pausing and resuming are the same under the mapping.
LEMMA PauseMaps ==
  ASSUME UNCHANGED PastExpiryCheck, NEW e, PauseSales(e) \/ ResumeSales(e)
  PROVE  Atomic!PauseSales(e) \/ Atomic!ResumeSales(e)
  <1>1. UNCHANGED AtomicLapsed
    BY DEF PauseSales, ResumeSales, resVars, AtomicLapsed
  <1> QED
    BY <1>1 DEF PauseSales, Atomic!PauseSales, ResumeSales, Atomic!ResumeSales,
       resVars, Atomic!resVars, ordVars, Atomic!ordVars, AtomicLapsed

\* A reservation lapses, or will when the purchase that is past its check ends.
LEMMA ClockMaps ==
  ASSUME LocksInv, NEW r \in Reservations, Clock(r)
  PROVE  [Atomic!Next]_Atomic!vars
  <1>1. /\ UNCHANGED PastExpiryCheck /\ lapsed' = lapsed \cup {r}
        /\ resStatus[r] = "active"
        /\ UNCHANGED <<typeVars, resStatus, resType, resQty, ordVars, audit>>
    BY PastKept DEF Clock, Lapse, lockVars
  <1>2. CASE r \in PastExpiryCheck
    <2>1. UNCHANGED AtomicLapsed
      BY <1>1, <1>2 DEF AtomicLapsed
    <2> QED
      BY <1>1, <2>1 DEF typeVars, ordVars, AtomicLapsed,
         Atomic!vars, Atomic!typeVars, Atomic!resVars, Atomic!ordVars
  <1>3. CASE r \notin PastExpiryCheck
    <2>1. AtomicLapsed' = AtomicLapsed \cup {r}
      BY <1>1, <1>3 DEF AtomicLapsed
    <2>2. Atomic!Lapse(r)
      BY <1>1, <2>1 DEF Atomic!Lapse, typeVars, Atomic!typeVars, ordVars,
         Atomic!ordVars, AtomicLapsed
    <2> QED
      BY <2>2 DEF Atomic!Next
  <1> QED
    BY <1>2, <1>3

\* A step of a call maps to its transaction, or to nothing.
LEMMA StepMaps ==
  ASSUME LocksInv, NEW p \in Procs, Step(p)
  PROVE  [Atomic!Next]_Atomic!vars
  <1> DEFINE Goal == [Atomic!Next]_Atomic!vars
  <1> HIDE DEF Goal
  <1>c. ASSUME Commit(p) PROVE UNCHANGED PastExpiryCheck
    BY <1>c, PastKept DEF Commit
  <1>r. ASSUME UNCHANGED vars,
               \A q \in Procs \ {p} : local'[q] = local[q],
               \/ /\ local'[p].op = local[p].op /\ local'[p].key = local[p].key
                  /\ local'[p].res = local[p].res
               \/ local[p].op # "purchase" /\ local'[p].op # "purchase"
        PROVE  Goal
    BY <1>r, ReadMaps DEF Past, Goal
  <1>l. ASSUME Leave(p) PROVE Goal
    BY <1>l, LeaveMaps DEF Goal
  <1>d. ASSUME NEW where, NEW loc, Proceed(p, where, loc),
               loc.op = local[p].op, local[p].op # "purchase"
        PROVE  Goal
    BY <1>d, <1>r, ProcFacts DEF Proceed
  <1>1. ASSUME Acquire(p) PROVE Goal
    BY <1>1, <1>r DEF Acquire
  <1>2. ASSUME NEW u \in Users, NEW q \in Units, CreateCheck(p, u, q) PROVE Goal
    <2>1. local[p].op = "create" /\ local[p] \in Calls
      BY <1>2, ProcFacts DEF CreateCheck, At
    <2>2. [local[p] EXCEPT !.user = u, !.qty = q, !.held = held[local[p].type]].op = "create"
      BY <2>1 DEF Calls
    <2> QED
      BY <1>2, <2>1, <2>2, <1>d, <1>l DEF CreateCheck
  <1>3. ASSUME NEW r \in Reservations, CreateWrite(p, r) PROVE Goal
    <2>1. UNCHANGED PastExpiryCheck
      BY <1>3, <1>c DEF CreateWrite
    <2>2. \E t \in TicketTypes, q \in Units : CreateReservation(r, t, q)
      BY <1>3, CreateWriteIsCreate
    <2>3. \E t \in TicketTypes, q \in Atomic!Units : Atomic!CreateReservation(r, t, q)
      BY <2>1, <2>2, CreateMaps DEF Units, Atomic!Units
    <2> QED
      BY <2>3 DEF Atomic!Next, Goal
  <1>4. ASSUME CancelCheck(p) PROVE Goal
    BY <1>4, <1>d, <1>l DEF CancelCheck, At
  <1>5. ASSUME CancelWrite(p) PROVE Goal
    <2>1. UNCHANGED PastExpiryCheck
      BY <1>5, <1>c DEF CancelWrite
    <2>2. \E r \in Reservations : Atomic!CancelReservation(r)
      BY <1>5, <2>1, CancelWriteMoves, CancelMaps
    <2> QED
      BY <2>2 DEF Atomic!Next, Goal
  <1>w. ASSUME NEW k \in Keys, local[p].op = "purchase", ordStatus[k] # "none",
               WriteCollision(k), Commit(p)
        PROVE  Goal
    <2>1. UNCHANGED PastExpiryCheck
      BY <1>w, <1>c
    <2>2. \E r \in Reservations : Atomic!PurchaseDuplicate(r, k)
      BY <1>w, <2>1, CollisionIsDuplicate, CollisionMaps
    <2> QED
      BY <2>2 DEF Atomic!Next, Goal
  <1>6. ASSUME NEW k \in Keys, PurchaseCheck(p, k) PROVE Goal
    <2> DEFINE loc == [local[p] EXCEPT !.key = k]
    <2>1. local[p].op = "purchase" /\ pc[p] = "check" /\ local[p] \in Calls
      BY <1>6, ProcFacts DEF PurchaseCheck, At
    <2>2. CASE MayPurchase(local[p].res, k) /\ Proceed(p, "insert", loc)
      <3>1. /\ loc.op = "purchase" /\ loc.res = local[p].res /\ loc.key = k
            /\ local[p].res \notin lapsed
        BY <2>1, <2>2 DEF Calls, MayPurchase
      <3> HIDE DEF loc
      <3>2. /\ UNCHANGED vars /\ local'[p] = loc
            /\ \A q \in Procs \ {p} : local'[q] = local[q]
        BY <2>2, ProcFacts DEF Proceed
      <3>3. ~ Past(p) /\ Past(p)'
        BY <2>1, <3>1, <3>2, PastHolds, LocksAssumption DEF Past
      <3> QED
        BY <3>1, <3>2, <3>3, ReadMaps DEF Goal
    <2> QED
      BY <1>6, <2>1, <2>2, <1>w, <1>l DEF PurchaseCheck
  <1>7. ASSUME PurchaseInsert(p) PROVE Goal
    <2>1. local[p].op = "purchase" /\ local[p].key \in Keys
      BY <1>7, ProcFacts DEF PurchaseInsert, At, Reads
    <2>2. CASE Proceed(p, "capture", local[p])
      BY <2>2, <1>r, ProcFacts DEF Proceed
    <2> QED
      BY <1>7, <2>1, <2>2, <1>w DEF PurchaseInsert
  <1>8. ASSUME NEW ok \in BOOLEAN, PurchaseCapture(p, ok) PROVE Goal
    <2> DEFINE loc == [local[p] EXCEPT !.paid = ok]
    <2>1. loc.op = local[p].op /\ loc.key = local[p].key /\ loc.res = local[p].res
      BY ProcFacts DEF Calls
    <2> HIDE DEF loc
    <2>2. Proceed(p, "write", loc)
      BY <1>8 DEF PurchaseCapture, loc
    <2> QED
      BY <2>1, <2>2, <1>r, ProcFacts DEF Proceed
  <1>9. ASSUME PurchaseWrite(p) PROVE Goal
    <2> DEFINE r == local[p].res
               k == local[p].key
    <2>1. /\ r \in Reservations /\ k \in Keys /\ local[p].op = "purchase"
          /\ resStatus[r] = "active" /\ ordStatus[k] = "none"
          /\ ~ paused[EventOf[resType[r]]]
          /\ WriteSale(r, k) \/ WriteDecline(r, k)
          /\ Commit(p)
      BY <1>9, PurchaseWriteFacts
    <2>2. r \in PastExpiryCheck
      BY <2>1, PastMembers, LocksAssumption DEF Past
    <2>3. UNCHANGED PastExpiryCheck
      BY <2>1, <1>c
    <2> HIDE DEF r, k
    <2>4. Atomic!PurchaseConfirmed(r, k) \/ Atomic!PurchaseDeclined(r, k)
      BY <2>1, <2>2, <2>3, PurchaseMaps
    <2> QED
      BY <2>1, <2>4 DEF Atomic!Next, Goal
  <1>10. ASSUME NEW ids \in SUBSET TicketCells, RefundCheck(p, ids) PROVE Goal
    <2>1. local[p].op = "refund" /\ local[p] \in Calls
      BY <1>10, ProcFacts DEF RefundCheck, At
    <2>2. [local[p] EXCEPT !.rows = RefundTargets(local[p].key, ids)].op = "refund"
      BY <2>1 DEF Calls
    <2> QED
      BY <1>10, <2>1, <2>2, <1>d, <1>l DEF RefundCheck
  <1>11. ASSUME RefundWrite(p) PROVE Goal
    <2>1. UNCHANGED PastExpiryCheck
      BY <1>11, <1>c DEF RefundWrite
    <2>2. \E k \in Keys, ids \in SUBSET TicketCells : Atomic!IssueRefund(k, ids)
      BY <1>11, <2>1, RefundWriteMoves, RefundMaps
    <2>3. TicketCells = Atomic!TicketCells
      BY DEF TicketCells, Atomic!TicketCells, Units, Atomic!Units
    <2> QED
      BY <2>2, <2>3 DEF Atomic!Next, Goal
  <1>12. ASSUME SweepCheck(p) PROVE Goal
    <2>1. local[p].op = "sweep" /\ local[p] \in Calls
      BY <1>12, ProcFacts DEF SweepCheck, At
    <2>2. [local[p] EXCEPT !.rows = SweepSelected].op = "sweep"
      BY <2>1 DEF Calls
    <2> QED
      BY <1>12, <2>1, <2>2, <1>d, <1>l DEF SweepCheck
  <1>13. ASSUME SweepWrite(p) PROVE Goal
    <2> DEFINE S == local[p].rows
    <2>1. UNCHANGED PastExpiryCheck
      BY <1>13, <1>c DEF SweepWrite
    <2>2. /\ local[p].op = "sweep" /\ S \in SUBSET Reservations /\ SweepExpired(S)
          /\ \A r \in S : lock[<<"res", r>>] = p
      BY <1>13, SweepWriteMoves, ProcFacts DEF SweepWrite, At, Holds
    <2>3. ASSUME NEW r \in S, r \in PastExpiryCheck
          PROVE  FALSE
      <3>1. PICK q \in Procs : Past(q) /\ local[q].res = r
        BY <2>3, PastMembers
      <3>2. q = p
        BY <2>2, <3>1, PastHolds
      <3> QED
        BY <2>2, <3>1, <3>2 DEF Past
    <2> HIDE DEF S
    <2>4. Atomic!SweepExpired(S)
      BY <2>1, <2>2, <2>3, SweepMaps
    <2> QED
      BY <2>2, <2>4 DEF Atomic!Next, Goal
  <1>14. ASSUME Release(p) PROVE Goal
    BY <1>14, <1>l DEF Release
  <1> QED
    BY <1>1, <1>2, <1>3, <1>4, <1>5, <1>6, <1>7, <1>8, <1>9, <1>10, <1>11, <1>12,
       <1>13, <1>14 DEF Step, Goal

\* Every step does.
LEMMA NextMaps ==
  ASSUME LocksInv, [LocksNext]_allVars
  PROVE  [Atomic!Next]_Atomic!vars
  <1> DEFINE Goal == [Atomic!Next]_Atomic!vars
  <1> HIDE DEF Goal
  <1>1. ASSUME NEW p \in Procs, NEW c, NEW rows, Begin(p, c, rows),
               c.op # "purchase" \/ c.key = NoRow
        PROVE  Goal
    <2>1. /\ UNCHANGED vars /\ local'[p] = c /\ pc[p] = "idle"
          /\ \A q \in Procs \ {p} : local'[q] = local[q]
      BY <1>1, ProcFacts DEF Begin
    <2>2. ~ Past(p) /\ ~ Past(p)'
      BY <1>1, <2>1, PastHolds DEF Past
    <2> QED
      BY <2>1, <2>2, ReadMaps DEF Goal
  <1>2. ASSUME NEW p \in Procs, NEW t \in TicketTypes, BeginCreate(p, t) PROVE Goal
    <2>1. [NoCall EXCEPT !.op = "create", !.type = t].op = "create"
      BY DEF NoCall
    <2> QED
      BY <1>1, <1>2, <2>1 DEF BeginCreate
  <1>3. ASSUME NEW p \in Procs, NEW r \in Reservations, BeginCancel(p, r) PROVE Goal
    <2>1. [NoCall EXCEPT !.op = "cancel", !.res = r].op = "cancel"
      BY DEF NoCall
    <2> QED
      BY <1>1, <1>3, <2>1 DEF BeginCancel
  <1>4. ASSUME NEW p \in Procs, NEW r \in Reservations, BeginPurchase(p, r) PROVE Goal
    <2>1. [NoCall EXCEPT !.op = "purchase", !.res = r].key = NoRow
      BY DEF NoCall
    <2> QED
      BY <1>1, <1>4, <2>1 DEF BeginPurchase
  <1>5. ASSUME NEW p \in Procs, NEW k \in Keys, BeginRefund(p, k) PROVE Goal
    <2>1. [NoCall EXCEPT !.op = "refund", !.key = k].op = "refund"
      BY DEF NoCall
    <2> QED
      BY <1>1, <1>5, <2>1 DEF BeginRefund
  <1>6. ASSUME NEW p \in Procs, BeginSweep(p) PROVE Goal
    <2>1. [NoCall EXCEPT !.op = "sweep"].op = "sweep"
      BY DEF NoCall
    <2> QED
      BY <1>1, <1>6, <2>1 DEF BeginSweep
  <1>7. ASSUME NEW p \in Procs, Step(p) PROVE Goal
    BY <1>7, StepMaps DEF Goal
  <1>8. ASSUME NEW p \in Procs, Leave(p) PROVE Goal
    BY <1>8, LeaveMaps DEF Goal
  <1>9. ASSUME NEW e \in Events, PauseUnlocked(e) PROVE Goal
    <2>1. UNCHANGED PastExpiryCheck
      BY <1>9, PastKept DEF PauseUnlocked, lockVars
    <2>2. Atomic!PauseSales(e) \/ Atomic!ResumeSales(e)
      BY <1>9, <2>1, PauseMaps DEF PauseUnlocked
    <2> QED
      BY <2>2 DEF Atomic!Next, Goal
  <1>10. ASSUME NEW r \in Reservations, Clock(r) PROVE Goal
    BY <1>10, ClockMaps DEF Goal
  <1>11. ASSUME UNCHANGED allVars PROVE Goal
    <2>1. UNCHANGED vars /\ UNCHANGED local
      BY <1>11 DEF allVars, lockVars
    <2>2. UNCHANGED AtomicLapsed
      BY <2>1, PastKept DEF AtomicLapsed, vars, resVars
    <2> QED
      BY <2>1, <2>2, AtomicStutter DEF Goal
  <1> QED
    BY <1>2, <1>3, <1>4, <1>5, <1>6, <1>7, <1>8, <1>9, <1>10, <1>11
       DEF LocksNext, Rollback, DeadlockVictim, Goal

\* Transactions that take their row locks, read, call the provider and commit
\* behave as if each had run alone at its COMMIT, however many are open.
THEOREM LocksImplementAtomic == LocksSpec => Linearizable
  <1>1. LocksInit => Atomic!Init
    <2> SUFFICES ASSUME LocksInit
                 PROVE  Atomic!Init
      OBVIOUS
    <2>1. AtomicLapsed = {}
      BY DEF LocksInit, Init, AtomicLapsed
    <2> QED
      BY <2>1 DEF LocksInit, Init, Atomic!Init, TicketCells, Atomic!TicketCells, Units,
                  Atomic!Units, AtomicLapsed
  <1>2. LocksInv /\ [LocksNext]_allVars => [Atomic!Next]_Atomic!vars
    BY NextMaps
  <1> QED
    BY <1>1, <1>2, LocksInvariance, PTL DEF LocksSpec, Linearizable, Atomic!Spec

-----------------------------------------------------------------------------
(* Deadlock: who can be part of a wait cycle.  SELECT ... FOR UPDATE locks *)
(* the tables in one order, so a cycle has to leave it, which only COMMIT  *)
(* and the UPDATE of a refund do.                                          *)

Rank == [res |-> 1, user |-> 2, type |-> 3, event |-> 4, order |-> 5]
RankOf(row) == Rank[row[1]]

\* Which calls a row that p holds, or is to lock, can belong to.
Rightful(p, row) ==
    LET c == local[p] IN
    /\ c.op # "none"
    /\ row[1] \in {"type", "event"} => c.op # "refund"
    /\ row[1] = "user" => c.op = "purchase" /\ row[2] = resUser[c.res]
    /\ row[1] = "order" =>
          \/ c.op = "refund" /\ ordStatus[row[2]] # "none"
          \/ c.op = "purchase" /\ pc[p] \in {"capture", "write", "committed"}

Ascending(p) ==
    /\ \A i, j \in 1 .. Len(todo[p]) :
          i < j => RankOf(todo[p][i]) < RankOf(todo[p][j])
    /\ \A row \in Rows, i \in 1 .. Len(todo[p]) :
          lock[row] = p => RankOf(row) < RankOf(todo[p][i])

Queued(p) == Ascending(p) /\ \A row \in Rows : Has(p, row) => Rightful(p, row)

QueueInv == LocksInv /\ \A p \in Procs : Queued(p)

\* A row is of one of the five tables, and ranked by it.
LEMMA KindOfRow ==
  ASSUME NEW row \in Rows
  PROVE  /\ row[1] \in {"res", "user", "type", "event", "order"}
         /\ row[1] = "order" => row[2] \in Keys
         /\ row = <<row[1], row[2]>>
         /\ RankOf(row) \in 1 .. 5
  <1>1. row[1] \in {"res", "user", "type", "event", "order"}
        /\ (row[1] = "order" => row[2] \in Keys)
        /\ row = <<row[1], row[2]>>
    BY DEF Rows
  <1> QED
    BY <1>1 DEF RankOf, Rank

\* A call that does not move, when nobody hands it a lock.
LEMMA QueueFrame ==
  ASSUME LocksInv, NEW q \in Procs, Queued(q), Idles(q), RowsStay,
         \A row \in Rows : lock'[row] = q => lock[row] = q
  PROVE  Queued(q)'
  <1>0. /\ pc'[q] = pc[q] /\ local'[q] = local[q] /\ todo'[q] = todo[q]
        /\ Named(q)
    BY ProcFacts DEF Idles
  <1>1. Ascending(q)'
    BY <1>0 DEF Queued, Ascending, RankOf
  <1>2. ASSUME NEW row \in Rows, Has(q, row)'
        PROVE  Rightful(q, row)'
    <2>1. Has(q, row)
      BY <1>0, <1>2 DEF Has
    <2>2. Rightful(q, row)
      BY <2>1 DEF Queued
    <2>3. /\ row[1] = "order" => row[2] \in Keys
          /\ local[q].op = "purchase" => resUser'[local[q].res] = resUser[local[q].res]
      BY <1>0, KindOfRow DEF Named, RowsStay
    <2> QED
      BY <1>0, <2>2, <2>3 DEF Rightful, RowsStay
  <1> QED
    BY <1>1, <1>2 DEF Queued

\* The end of a transaction.
LEMMA LeaveQueues ==
  ASSUME LocksInv, NEW p \in Procs, Leave(p)
  PROVE  Queued(p)' /\ \A row \in Rows : lock'[row] \in {lock[row], Free}
  <1>1. /\ todo'[p] = <<>> /\ \A row \in Rows : lock'[row] # p
        /\ \A row \in Rows : lock'[row] \in {lock[row], Free}
    BY ProcFacts, LocksAssumption DEF Leave
  <1>2. Len(todo'[p]) = 0
    BY <1>1
  <1> QED
    BY <1>1, <1>2 DEF Queued, Ascending, Has

\* A call past its SELECT that goes on or commits.
LEMMA GoesOnQueues ==
  ASSUME LocksInv, NEW p \in Procs, Queued(p), RowsStay, todo[p] = <<>>, todo'[p] = <<>>,
         local'[p].op = local[p].op, local[p].op = "purchase" => local'[p].res = local[p].res,
         pc[p] \in {"capture", "write", "committed"}
            => pc'[p] \in {"capture", "write", "committed"},
         \A row \in Rows : lock'[row] = p =>
            \/ lock[row] = p
            \/ /\ local[p].op = "sweep" /\ row[1] \in {"res", "type"}
            \/ /\ local[p].op = "purchase" /\ row[1] = "order"
               /\ pc'[p] \in {"capture", "write", "committed"}
  PROVE  Queued(p)'
  <1>0. Named(p) /\ Len(todo'[p]) = 0
    BY ProcFacts
  <1>1. Ascending(p)'
    BY <1>0 DEF Ascending
  <1>2. ASSUME NEW row \in Rows, lock'[row] = p
        PROVE  Rightful(p, row)'
    <2>1. CASE lock[row] = p
      <3>1. Rightful(p, row)
        BY <2>1 DEF Queued, Has
      <3>2. /\ row[1] = "order" => row[2] \in Keys
            /\ local[p].op = "purchase" => resUser'[local[p].res] = resUser[local[p].res]
        BY <1>0, KindOfRow DEF Named, RowsStay
      <3> QED
        BY <3>1, <3>2 DEF Rightful, RowsStay
    <2>2. CASE local[p].op = "sweep" /\ row[1] \in {"res", "type"}
      BY <2>2 DEF Rightful
    <2>3. CASE /\ local[p].op = "purchase" /\ row[1] = "order"
               /\ pc'[p] \in {"capture", "write", "committed"}
      BY <2>3 DEF Rightful
    <2> QED
      BY <1>2, <2>1, <2>2, <2>3
  <1> QED
    BY <1>0, <1>1, <1>2 DEF Queued, Has

\* A call begins with nothing locked.
LEMMA BeginQueues ==
  ASSUME QueueInv, NEW p \in Procs, NEW c \in Calls, NEW rows \in Seq(Rows),
         Begin(p, c, rows), c.op # "none",
         \A i \in 1 .. Len(rows) :
            /\ rows[i][1] \in {"type", "event"} => c.op # "refund"
            /\ rows[i][1] = "user" => c.op = "purchase" /\ rows[i][2] = resUser[c.res]
            /\ rows[i][1] = "order" => c.op = "refund" /\ ordStatus[rows[i][2]] # "none",
         \A i, j \in 1 .. Len(rows) : i < j => RankOf(rows[i]) < RankOf(rows[j])
  PROVE  Queued(p)'
  <1>0. /\ local[p] = NoCall /\ Queued(p)
        /\ local'[p] = c /\ todo'[p] = rows /\ lock' = lock
        /\ UNCHANGED <<resUser, ordStatus>>
    BY ProcFacts DEF Begin, QueueInv, vars, ordVars
  <1>1. \A row \in Rows : lock[row] # p
    BY <1>0 DEF Queued, Rightful, Has, NoCall
  <1>2. Ascending(p)'
    BY <1>0, <1>1 DEF Ascending, RankOf
  <1>3. ASSUME NEW row \in Rows, Has(p, row)'
        PROVE  Rightful(p, row)'
    <2>1. \E i \in 1 .. Len(rows) : rows[i] = row
      BY <1>0, <1>1, <1>3 DEF Has
    <2> QED
      BY <1>0, <2>1 DEF Rightful
  <1> QED
    BY <1>2, <1>3 DEF Queued

\* The next row locked ranks above those held and below those left.
LEMMA AcquireQueues ==
  ASSUME QueueInv, NEW p \in Procs, Acquire(p)
  PROVE  /\ Queued(p)'
         /\ \A row \in Rows : lock'[row] \in {lock[row], p}
  <1> DEFINE head == Head(todo[p])
             rest == Tail(todo[p])
             n == Len(todo[p])
  <1>1. /\ Queued(p) /\ todo[p] \in Seq(Rows) /\ todo[p] # <<>>
        /\ lock \in [Rows -> Procs \cup {Free}] /\ todo \in [Procs -> Seq(Rows)]
    BY ProcFacts DEF QueueInv, Acquire
  <1>2. /\ head \in Rows /\ head = todo[p][1] /\ n \in Nat /\ n >= 1
        /\ Len(rest) = n - 1
        /\ \A i \in 1 .. n - 1 : rest[i] = todo[p][i + 1]
    BY <1>1, HeadAndTail
  <1>3. /\ todo'[p] = rest /\ lock' = [lock EXCEPT ![head] = p]
        /\ UNCHANGED <<local, resUser, ordStatus>> /\ pc[p] = "locking"
    BY <1>1 DEF Acquire, vars, ordVars
  <1> HIDE DEF head, rest, n
  <1>4. \A row \in Rows : lock'[row] = p => lock[row] = p \/ row = head
    BY <1>1, <1>3
  <1>5. Ascending(p) /\ \A i \in 1 .. n - 1 : i + 1 \in 1 .. n /\ 1 < i + 1
    BY <1>1, <1>2 DEF Queued
  <1>6. \A i, j \in 1 .. n - 1 : i < j => RankOf(rest[i]) < RankOf(rest[j])
    <2> SUFFICES ASSUME NEW i \in 1 .. n - 1, NEW j \in 1 .. n - 1, i < j
                 PROVE  RankOf(rest[i]) < RankOf(rest[j])
      OBVIOUS
    <2>1. i + 1 \in 1 .. n /\ j + 1 \in 1 .. n /\ i + 1 < j + 1
      BY <1>2
    <2>2. RankOf(todo[p][i + 1]) < RankOf(todo[p][j + 1])
      BY <1>5, <2>1 DEF Ascending, n
    <2> QED
      BY <1>2, <2>2
  <1>7. \A row \in Rows, i \in 1 .. n - 1 :
           lock'[row] = p => RankOf(row) < RankOf(rest[i])
    BY <1>2, <1>4, <1>5 DEF Ascending, n
  <1>8. Ascending(p)'
    BY <1>2, <1>3, <1>6, <1>7 DEF Ascending, RankOf
  <1>9. ASSUME NEW row \in Rows, Has(p, row)'
        PROVE  Rightful(p, row)'
    <2>1. CASE lock'[row] = p
      <3>1. lock[row] = p \/ \E i \in 1 .. n : todo[p][i] = row
        BY <1>2, <1>4, <2>1
      <3>2. Rightful(p, row)
        BY <1>1, <3>1 DEF Queued, Has, n
      <3> QED
        BY <1>3, <3>2 DEF Rightful
    <2>2. CASE \E i \in 1 .. Len(rest) : rest[i] = row
      <3>1. \E i \in 1 .. n : todo[p][i] = row
        BY <1>2, <1>5, <2>2
      <3>2. Rightful(p, row)
        BY <1>1, <3>1 DEF Queued, Has, n
      <3> QED
        BY <1>3, <3>2 DEF Rightful
    <2> QED
      BY <1>3, <1>9, <2>1, <2>2 DEF Has
  <1> QED
    BY <1>1, <1>3, <1>8, <1>9 DEF Queued

\* The step of an open call: its own queue, and no lock for anybody else.
LEMMA StepQueues ==
  ASSUME QueueInv, NEW p \in Procs, Step(p)
  PROVE  /\ Queued(p)'
         /\ \A row \in Rows : lock'[row] \in {lock[row], p, Free}
  <1> DEFINE Goal == /\ Queued(p)'
                     /\ \A row \in Rows : lock'[row] \in {lock[row], p, Free}
  <1> HIDE DEF Goal
  <1>0. /\ LocksInv /\ Queued(p) /\ RowsStay
        /\ pc[p] # "locking" => todo[p] = <<>>
    BY StepMoves, ProcFacts DEF QueueInv, Moved
  <1>l. ASSUME Leave(p) PROVE Goal
    BY <1>0, <1>l, LeaveQueues DEF Goal
  <1>c. ASSUME pc[p] # "locking", Commit(p)
        PROVE  Goal
    <2>1. /\ UNCHANGED <<lock, local, todo>> /\ pc'[p] = "committed"
      BY <1>c, ProcFacts, <1>0 DEF Commit
    <2>2. Queued(p)'
      BY <1>0, <1>c, <2>1, GoesOnQueues
    <2> QED
      BY <2>1, <2>2 DEF Goal
  <1>g. ASSUME pc[p] \in {"check", "insert", "capture"}, NEW where, NEW loc,
               Proceed(p, where, loc), UNCHANGED lock,
               loc.op = local[p].op, local[p].op = "purchase" => loc.res = local[p].res,
               pc[p] = "capture" => where = "write"
        PROVE  Goal
    <2>1. pc'[p] = where /\ local'[p] = loc /\ todo' = todo
      BY <1>g, <1>0, ProcFacts DEF Proceed
    <2>2. Queued(p)'
      BY <1>0, <1>g, <2>1, GoesOnQueues
    <2> QED
      BY <1>g, <2>2 DEF Goal
  <1>1. ASSUME Acquire(p) PROVE Goal
    BY <1>1, AcquireQueues DEF Goal
  <1>2. ASSUME NEW u \in Users, NEW q \in Units, CreateCheck(p, u, q) PROVE Goal
    <2> DEFINE loc == [local[p] EXCEPT !.user = u, !.qty = q, !.held = held[local[p].type]]
    <2>1. local[p].op = "create" /\ pc[p] = "check" /\ loc.op = "create"
      BY <1>0, <1>2, ProcFacts DEF CreateCheck, At, Calls
    <2> QED
      BY <1>2, <2>1, <1>g, <1>l DEF CreateCheck
  <1>3. ASSUME NEW r \in Reservations, CreateWrite(p, r) PROVE Goal
    BY <1>3, <1>c DEF CreateWrite, At
  <1>4. ASSUME CancelCheck(p) PROVE Goal
    BY <1>4, <1>g, <1>l DEF CancelCheck, At
  <1>5. ASSUME CancelWrite(p) PROVE Goal
    BY <1>5, <1>c DEF CancelWrite, At
  <1>6. ASSUME NEW k \in Keys, PurchaseCheck(p, k) PROVE Goal
    <2> DEFINE loc == [local[p] EXCEPT !.key = k]
    <2>1. pc[p] = "check" /\ loc.op = local[p].op /\ loc.res = local[p].res
      BY <1>0, <1>6, ProcFacts DEF PurchaseCheck, At, Calls
    <2> QED
      BY <1>6, <2>1, <1>c, <1>g, <1>l DEF PurchaseCheck
  <1>7. ASSUME PurchaseInsert(p) PROVE Goal
    <2> DEFINE row == <<"order", local[p].key>>
    <2>1. pc[p] = "insert" /\ local[p].op = "purchase"
      BY <1>7 DEF PurchaseInsert, At
    <2>2. CASE Proceed(p, "capture", local[p]) /\ lock' = [lock EXCEPT ![row] = p]
      <3>1. pc'[p] = "capture" /\ local' = local /\ todo' = todo
        BY <1>0, <2>2, ProcFacts DEF Proceed
      <3>2. \A other \in Rows :
               lock'[other] = lock[other] \/ (lock'[other] = p /\ other[1] = "order")
        BY <1>0, <2>2, ProcFacts
      <3>3. Queued(p)'
        BY <1>0, <2>1, <3>1, <3>2, GoesOnQueues
      <3> QED
        BY <3>2, <3>3 DEF Goal
    <2> QED
      BY <1>7, <2>1, <2>2, <1>c DEF PurchaseInsert
  <1>8. ASSUME NEW ok \in BOOLEAN, PurchaseCapture(p, ok) PROVE Goal
    <2> DEFINE loc == [local[p] EXCEPT !.paid = ok]
    <2>1. pc[p] = "capture" /\ loc.op = local[p].op /\ loc.res = local[p].res
      BY <1>0, <1>8, ProcFacts DEF PurchaseCapture, At, Calls
    <2> QED
      BY <1>8, <2>1, <1>g DEF PurchaseCapture
  <1>9. ASSUME PurchaseWrite(p) PROVE Goal
    BY <1>9, <1>c DEF PurchaseWrite, At
  <1>10. ASSUME NEW ids \in SUBSET TicketCells, RefundCheck(p, ids) PROVE Goal
    <2> DEFINE loc == [local[p] EXCEPT !.rows = RefundTargets(local[p].key, ids)]
    <2>1. local[p].op = "refund" /\ pc[p] = "check" /\ loc.op = "refund"
      BY <1>0, <1>10, ProcFacts DEF RefundCheck, At, Calls
    <2> QED
      BY <1>10, <2>1, <1>g, <1>l DEF RefundCheck
  <1>11. ASSUME RefundWrite(p) PROVE Goal
    BY <1>11, <1>c DEF RefundWrite, At
  <1>12. ASSUME SweepCheck(p) PROVE Goal
    <2> DEFINE loc == [local[p] EXCEPT !.rows = SweepSelected]
               taken == ({"res"} \X SweepUnlocked)
                           \cup {<<"type", resType[r]>> : r \in SweepSelected}
    <2>1. local[p].op = "sweep" /\ pc[p] = "check" /\ loc.op = "sweep"
      BY <1>0, <1>12, ProcFacts DEF SweepCheck, At, Calls
    <2>2. \A row \in taken : row[1] \in {"res", "type"}
      OBVIOUS
    <2> HIDE DEF loc, taken
    <2>3. CASE /\ Proceed(p, "write", loc)
               /\ lock' = [row \in Rows |-> IF row \in taken THEN p ELSE lock[row]]
      <3>1. pc'[p] = "write" /\ local'[p] = loc /\ todo' = todo
        BY <1>0, <2>3, ProcFacts DEF Proceed
      <3>2. \A row \in Rows :
               lock'[row] = lock[row] \/ (lock'[row] = p /\ row[1] \in {"res", "type"})
        BY <2>2, <2>3
      <3>3. Queued(p)'
        BY <1>0, <2>1, <3>1, <3>2, GoesOnQueues
      <3> QED
        BY <3>2, <3>3 DEF Goal
    <2> QED
      BY <1>12, <2>3, <1>l DEF SweepCheck, loc, taken
  <1>13. ASSUME SweepWrite(p) PROVE Goal
    BY <1>13, <1>c DEF SweepWrite, At
  <1>14. ASSUME Release(p) PROVE Goal
    BY <1>14, <1>l DEF Release
  <1> QED
    BY <1>1, <1>2, <1>3, <1>4, <1>5, <1>6, <1>7, <1>8, <1>9, <1>10, <1>11, <1>12,
       <1>13, <1>14 DEF Step, Goal

\* Nobody waits.
LEMMA QueueInvInit == LocksInit => QueueInv
  <1> SUFFICES ASSUME LocksInit, NEW p \in Procs
               PROVE  Queued(p)
    BY LocksInvInit DEF QueueInv
  <1>1. todo[p] = <<>> /\ \A row \in Rows : lock[row] # p
    BY LocksAssumption DEF LocksInit
  <1>2. Len(todo[p]) = 0
    BY <1>1
  <1> QED
    BY <1>1, <1>2 DEF Queued, Ascending, Has

\* Every step keeps the order in which the tables are locked.
LEMMA QueueInvStep == QueueInv /\ [LocksNext]_allVars => QueueInv'
  <1> SUFFICES ASSUME QueueInv, [LocksNext]_allVars
               PROVE  QueueInv'
    OBVIOUS
  <1>0. LocksInv /\ LocksInv' /\ \A q \in Procs : Queued(q)
    BY LocksInvStep DEF QueueInv
  <1>m. ASSUME NEW p \in Procs, Moved(p), Queued(p)',
               \A row \in Rows : lock'[row] \in {lock[row], p, Free}
        PROVE  QueueInv'
    <2>1. ASSUME NEW q \in Procs, q # p
          PROVE  Queued(q)'
      <3>1. \A row \in Rows : lock'[row] = q => lock[row] = q
        BY <1>m, <2>1, LocksAssumption
      <3>2. Idles(q) /\ RowsStay
        BY <1>m, <2>1 DEF Moved
      <3> QED
        BY <1>0, <3>1, <3>2, QueueFrame
    <2> QED
      BY <1>0, <1>m, <2>1 DEF QueueInv
  <1>q. ASSUME RowsStay, UNCHANGED lockVars
        PROVE  QueueInv'
    <2>1. ASSUME NEW q \in Procs
          PROVE  Queued(q)'
      <3>1. Idles(q) /\ \A row \in Rows : lock'[row] = q => lock[row] = q
        BY <1>q DEF Idles, lockVars
      <3> QED
        BY <1>0, <1>q, <3>1, QueueFrame
    <2> QED
      BY <1>0, <2>1 DEF QueueInv
  <1>b. ASSUME NEW p \in Procs, NEW c, NEW rows, Begin(p, c, rows), Moved(p), Queued(p)'
        PROVE  QueueInv'
    BY <1>b, <1>m DEF Begin
  <1>1. ASSUME NEW p \in Procs, NEW t \in TicketTypes, BeginCreate(p, t)
        PROVE  QueueInv'
    <2> DEFINE c == [NoCall EXCEPT !.op = "create", !.type = t]
    <2>1. c \in Calls /\ c.op = "create"
      BY DEF NoCall, Calls
    <2>2. CreateRows(t) \in Seq(Rows)
      BY ConstantsAssumption DEF CreateRows, Rows
    <2>3. /\ \A i \in 1 .. Len(CreateRows(t)) :
                CreateRows(t)[i][1] \in {"type", "event"}
          /\ \A i, j \in 1 .. Len(CreateRows(t)) :
                i < j => RankOf(CreateRows(t)[i]) < RankOf(CreateRows(t)[j])
      BY DEF CreateRows, RankOf, Rank
    <2>4. Begin(p, c, CreateRows(t)) /\ Moved(p)
      BY <1>0, <1>1, BeginCreateMoves DEF BeginCreate
    <2> HIDE DEF c
    <2>5. Queued(p)'
      BY <2>1, <2>2, <2>3, <2>4, BeginQueues
    <2> QED
      BY <1>b, <2>4, <2>5
  <1>2. ASSUME NEW p \in Procs, NEW r \in Reservations, BeginCancel(p, r)
        PROVE  QueueInv'
    <2> DEFINE c == [NoCall EXCEPT !.op = "cancel", !.res = r]
    <2>1. c \in Calls /\ c.op = "cancel"
      BY DEF NoCall, Calls
    <2>2. CancelRows(r) \in Seq(Rows)
      BY <1>0, <1>2, ProcFacts DEF CancelRows, Rows, BeginCancel, TypeOK
    <2>3. /\ \A i \in 1 .. Len(CancelRows(r)) :
                CancelRows(r)[i][1] \in {"res", "type"}
          /\ \A i, j \in 1 .. Len(CancelRows(r)) :
                i < j => RankOf(CancelRows(r)[i]) < RankOf(CancelRows(r)[j])
      BY DEF CancelRows, RankOf, Rank
    <2>4. Begin(p, c, CancelRows(r)) /\ Moved(p)
      BY <1>0, <1>2, BeginCancelMoves DEF BeginCancel
    <2> HIDE DEF c
    <2>5. Queued(p)'
      BY <2>1, <2>2, <2>3, <2>4, BeginQueues
    <2> QED
      BY <1>b, <2>4, <2>5
  <1>3. ASSUME NEW p \in Procs, NEW r \in Reservations, BeginPurchase(p, r)
        PROVE  QueueInv'
    <2> DEFINE c == [NoCall EXCEPT !.op = "purchase", !.res = r]
               rows == PurchaseRows(r)
    <2>1. c \in Calls /\ c.op = "purchase" /\ c.res = r
      BY DEF NoCall, Calls
    <2>2. rows \in Seq(Rows)
      BY <1>0, <1>3, ProcFacts, ConstantsAssumption DEF PurchaseRows, Rows, BeginPurchase, TypeOK
    <2>3. /\ Len(rows) = 4
          /\ rows[1] = <<"res", r>> /\ rows[2] = <<"user", resUser[r]>>
          /\ rows[3] = <<"type", resType[r]>>
          /\ rows[4] = <<"event", EventOf[resType[r]]>>
      BY DEF PurchaseRows
    <2>4. Begin(p, c, rows) /\ Moved(p)
      BY <1>0, <1>3, BeginPurchaseMoves DEF BeginPurchase
    <2> HIDE DEF c, rows
    <2>5. /\ RankOf(rows[1]) = 1 /\ RankOf(rows[2]) = 2 /\ RankOf(rows[3]) = 3
          /\ RankOf(rows[4]) = 4
      BY <2>3 DEF RankOf, Rank
    <2>6. \A i \in 1 .. Len(rows) : i \in {1, 2, 3, 4} /\ RankOf(rows[i]) = i
      BY <2>3, <2>5
    <2>7. \A i, j \in 1 .. Len(rows) : i < j => RankOf(rows[i]) < RankOf(rows[j])
      BY <2>6
    <2>8. \A i \in 1 .. Len(rows) :
             /\ rows[i][1] = "user" => rows[i][2] = resUser[r]
             /\ rows[i][1] # "order"
      BY <2>3, <2>6
    <2>9. Queued(p)'
      BY <2>1, <2>2, <2>4, <2>7, <2>8, BeginQueues
    <2> QED
      BY <1>b, <2>4, <2>9
  <1>4. ASSUME NEW p \in Procs, NEW k \in Keys, BeginRefund(p, k)
        PROVE  QueueInv'
    <2> DEFINE c == [NoCall EXCEPT !.op = "refund", !.key = k]
    <2>1. c \in Calls /\ c.op = "refund"
      BY DEF NoCall, Calls
    <2>2. RefundRows(k) \in Seq(Rows)
      BY DEF RefundRows, Rows
    <2>3. /\ Len(RefundRows(k)) = 1 /\ RefundRows(k)[1] = <<"order", k>>
          /\ ordStatus[k] # "none"
      BY <1>4 DEF RefundRows, BeginRefund
    <2>4. Begin(p, c, RefundRows(k)) /\ Moved(p)
      BY <1>0, <1>4, BeginRefundMoves DEF BeginRefund
    <2> HIDE DEF c
    <2>5. Queued(p)'
      BY <2>1, <2>2, <2>3, <2>4, BeginQueues
    <2> QED
      BY <1>b, <2>4, <2>5
  <1>5. ASSUME NEW p \in Procs, BeginSweep(p)
        PROVE  QueueInv'
    <2> DEFINE c == [NoCall EXCEPT !.op = "sweep"]
    <2>1. c \in Calls /\ c.op = "sweep"
      BY DEF NoCall, Calls
    <2> DEFINE rows == <<>>
    <2>2. rows \in Seq(Rows) /\ Len(rows) = 0
      BY EmptySeq
    <2>4. Begin(p, c, rows) /\ Moved(p)
      BY <1>0, <1>5, BeginSweepMoves DEF BeginSweep
    <2> HIDE DEF c, rows
    <2>3. \A i : i \notin 1 .. Len(rows)
      BY <2>2
    <2>5. Queued(p)'
      BY <2>1, <2>2, <2>3, <2>4, BeginQueues
    <2> QED
      BY <1>b, <2>4, <2>5
  <1>6. ASSUME NEW p \in Procs, Step(p)
        PROVE  QueueInv'
    BY <1>0, <1>6, <1>m, StepMoves, StepQueues
  <1>7. ASSUME NEW p \in Procs, Leave(p)
        PROVE  QueueInv'
    BY <1>0, <1>7, <1>m, LeaveMoves, LeaveQueues
  <1>8. ASSUME \/ \E e \in Events : PauseUnlocked(e)
               \/ \E r \in Reservations : Clock(r)
               \/ UNCHANGED allVars
        PROVE  QueueInv'
    <2>1. UNCHANGED <<capacity, onSale, resStatus, resType, ordStatus>> /\ UNCHANGED lockVars
      BY <1>8 DEF PauseUnlocked, PauseSales, ResumeSales, Clock, Lapse, allVars, vars,
                  typeVars, resVars, ordVars
    <2>2. RowsStay
      BY <2>1 DEF RowsStay, lockVars
    <2> QED
      BY <1>q, <2>1, <2>2
  <1> QED
    BY <1>1, <1>2, <1>3, <1>4, <1>5, <1>6, <1>7, <1>8 DEF LocksNext, Rollback, DeadlockVictim

\* Who can hold back whom, when every member of S waits for a member of S.
LEMMA StuckFacts ==
  ASSUME QueueInv, NEW S \in SUBSET Procs, Stuck(S)
  PROVE  \E p, q \in S :
            /\ At(p, "create", "write")
            /\ At(q, "purchase", "locking")
            /\ resUser[local[q].res] = local[p].user
  <1> DEFINE Goal == \E p, q \in S :
                /\ At(p, "create", "write")
                /\ At(q, "purchase", "locking")
                /\ resUser[local[q].res] = local[p].user
             Waits(p, kind) == pc[p] = "locking" /\ Head(todo[p])[1] = kind
  <1> HIDE DEF Goal
  <1>0. ASSUME NEW p \in S
        PROVE  /\ p \in Procs /\ LocksInv /\ Queued(p) /\ Named(p) /\ Reads(p)
               /\ NextRow(p) # {}
               /\ \E row \in NextRow(p) : lock[row] \in S \ {p}
    <2>1. PICK h \in Blockers(p) : h \in S
      BY <1>0 DEF Stuck
    <2>2. \E row \in NextRow(p) : lock[row] = h /\ h # p
      BY <2>1 DEF Blockers
    <2>3. NextRow(p) # {} /\ \E row \in NextRow(p) : lock[row] \in S \ {p}
      BY <2>1, <2>2
    <2>4. p \in Procs /\ LocksInv /\ Queued(p)
      BY <1>0 DEF QueueInv
    <2>5. Named(p) /\ Reads(p)
      BY <2>4, ProcFacts
    <2> QED
      BY <2>3, <2>4, <2>5
  <1>h. ASSUME NEW p \in S, pc[p] = "locking"
        PROVE  /\ Head(todo[p]) \in Rows /\ Head(todo[p]) = todo[p][1]
               /\ 1 \in 1 .. Len(todo[p])
               /\ NextRow(p) = {Head(todo[p])}
    <2>1. todo[p] \in Seq(Rows) /\ todo[p] # <<>>
      BY <1>0, <1>h, ProcFacts
    <2>2. NextRow(p) = {Head(todo[p])}
      BY <1>h DEF NextRow, At
    <2>3. /\ Head(todo[p]) \in Rows /\ Head(todo[p]) = todo[p][1]
          /\ Len(todo[p]) \in Nat /\ Len(todo[p]) >= 1
      BY <2>1, HeadAndTail
    <2> QED
      BY <2>2, <2>3
  \* The member of S that holds what p needs.
  <1>w. ASSUME NEW p \in S, pc[p] = "locking"
        PROVE  \E h \in S : /\ h # p /\ lock[Head(todo[p])] = h
                            /\ Rightful(h, Head(todo[p])) /\ Ascending(h)
    <2>1. lock[Head(todo[p])] \in S \ {p} /\ Head(todo[p]) \in Rows
      BY <1>0, <1>h, <1>w
    <2> QED
      BY <1>0, <2>1 DEF Queued, Has
  \* A holder that is still locking waits for a row that ranks higher.
  <1>a. ASSUME NEW p \in S, NEW row \in Rows, lock[row] = p, pc[p] = "locking"
        PROVE  RankOf(row) < RankOf(Head(todo[p]))
    BY <1>0, <1>a, <1>h DEF Queued, Ascending
  \* Where the members of S can be.
  <1>p. ASSUME NEW p \in S
        PROVE  \/ pc[p] = "locking"
               \/ At(p, "purchase", "insert") /\ ordStatus[local[p].key] = "none"
               \/ At(p, "create", "write")
               \/ At(p, "refund", "write")
    BY <1>0, <1>p DEF NextRow
  \* Nobody in S waits for an Order another transaction inserts: that
  \* transaction waits for nobody.
  <1>1. ASSUME NEW p \in S, At(p, "purchase", "insert")
        PROVE  FALSE
    <2> DEFINE k == local[p].key
    <2>1. /\ ordStatus[k] = "none" /\ k \in Keys
          /\ lock[<<"order", k>>] \in S \ {p}
      BY <1>0, <1>1 DEF NextRow, At, Reads
    <2>2. PICK h \in S : h # p /\ lock[<<"order", k>>] = h
      BY <2>1
    <2>3. Rightful(h, <<"order", k>>)
      BY <1>0, <2>1, <2>2 DEF Queued, Has, Rows
    <2>4. local[h].op = "purchase" /\ pc[h] \in {"capture", "write", "committed"}
      BY <2>1, <2>3 DEF Rightful
    <2> QED
      BY <1>p, <2>2, <2>4 DEF At
  <1>2. ASSUME NEW p \in S, At(p, "create", "write")
        PROVE  Goal
    <2> DEFINE row == <<"user", local[p].user>>
    <2>1. NextRow(p) = {row} /\ local[p].user \in Users
      BY <1>0, <1>2 DEF NextRow, At, Reads
    <2>2. PICK q \in S : q # p /\ lock[row] = q
      BY <1>0, <2>1
    <2>3. row \in Rows
      BY <2>1 DEF Rows
    <2>4. Rightful(q, row)
      BY <1>0, <2>2, <2>3 DEF Queued, Has
    <2>5. local[q].op = "purchase" /\ resUser[local[q].res] = local[p].user
      BY <2>4 DEF Rightful
    <2>6. At(q, "purchase", "locking")
      BY <1>1, <1>p, <2>5 DEF At
    <2> QED
      BY <1>2, <2>2, <2>5, <2>6 DEF Goal
  \* A member of S that holds the row, by the tables it may still wait for.
  <1>k. ASSUME NEW h \in S, NEW row \in Rows, lock[row] = h, pc[h] = "locking"
        PROVE  \/ Waits(h, "user") /\ RankOf(row) < 2
               \/ Waits(h, "type") /\ RankOf(row) < 3
               \/ Waits(h, "event") /\ RankOf(row) < 4
               \/ Waits(h, "order") /\ RankOf(row) < 5
    <2> DEFINE next == Head(todo[h])
    <2>1. RankOf(row) < RankOf(next) /\ next \in Rows /\ RankOf(row) \in 1 .. 5
      BY <1>a, <1>h, <1>k, KindOfRow
    <2> HIDE DEF next
    <2>2. \/ next[1] = "res" /\ RankOf(next) = 1
          \/ next[1] = "user" /\ RankOf(next) = 2
          \/ next[1] = "type" /\ RankOf(next) = 3
          \/ next[1] = "event" /\ RankOf(next) = 4
          \/ next[1] = "order" /\ RankOf(next) = 5
      BY <2>1, KindOfRow DEF RankOf, Rank
    <2>3. RankOf(row) < 1 => FALSE
      BY <2>1
    <2> QED
      BY <1>k, <2>1, <2>2, <2>3 DEF next
  <1>o. ASSUME NEW p \in S, Waits(p, "order")
        PROVE  local[p].op = "refund"
    <2>1. Has(p, Head(todo[p])) /\ Head(todo[p]) \in Rows
      BY <1>h, <1>o DEF Has
    <2>2. Rightful(p, Head(todo[p]))
      BY <1>0, <2>1 DEF Queued
    <2> QED
      BY <1>o, <2>2 DEF Rightful
  <1>e. ASSUME NEW h \in S, NEW row \in Rows, row[1] = "event", lock[row] = h
        PROVE  Goal
    <2>1. Rightful(h, row) /\ RankOf(row) = 4
      BY <1>0, <1>e DEF Queued, Has, RankOf, Rank
    <2>2. local[h].op # "refund"
      BY <1>e, <2>1 DEF Rightful
    <2>3. pc[h] # "locking"
      BY <1>e, <1>k, <1>o, <2>1, <2>2
    <2> QED
      BY <1>1, <1>2, <1>p, <2>2, <2>3 DEF At
  <1>3. ASSUME NEW p \in S, Waits(p, "event")
        PROVE  Goal
    BY <1>3, <1>e, <1>h, <1>w
  <1>t. ASSUME NEW h \in S, NEW row \in Rows, row[1] = "type", lock[row] = h
        PROVE  Goal
    <2>1. Rightful(h, row) /\ RankOf(row) = 3
      BY <1>0, <1>t DEF Queued, Has, RankOf, Rank
    <2>2. local[h].op # "refund"
      BY <1>t, <2>1 DEF Rightful
    <2>3. CASE pc[h] = "locking"
      BY <1>3, <1>k, <1>o, <1>t, <2>1, <2>2, <2>3
    <2> QED
      BY <1>1, <1>2, <1>p, <2>2, <2>3 DEF At
  <1>4. ASSUME NEW p \in S, Waits(p, "type")
        PROVE  Goal
    BY <1>4, <1>t, <1>h, <1>w
  <1>5. ASSUME NEW p \in S, At(p, "refund", "write")
        PROVE  Goal
    <2> DEFINE row == <<"type", OrderType(local[p].key)>>
    <2>1. NextRow(p) = {row}
      BY <1>5 DEF NextRow, At
    <2>2. row \in Rows
      <3>1. local[p].key \in Keys /\ ordStatus[local[p].key] # "none" /\ TypeOK
        BY <1>0, <1>5, ProcFacts DEF Reads, Named, At
      <3> QED
        BY <3>1 DEF OrderType, TypeOK, Rows
    <2>3. lock[row] \in S
      BY <1>0, <2>1
    <2>4. row[1] = "type"
      OBVIOUS
    <2> HIDE DEF row
    <2> QED
      BY <1>t, <2>2, <2>3, <2>4
  <1>6. ASSUME NEW p \in S, Waits(p, "user")
        PROVE  Goal
    <2> DEFINE row == Head(todo[p])
    <2>1. PICK h \in S : lock[row] = h /\ Rightful(h, row)
      BY <1>6, <1>w
    <2>2. row \in Rows /\ RankOf(row) = 2 /\ local[h].op = "purchase"
      BY <1>6, <1>h, <2>1 DEF Rightful, RankOf, Rank
    <2>3. CASE pc[h] = "locking"
      BY <1>3, <1>4, <1>k, <1>o, <2>1, <2>2, <2>3
    <2> QED
      BY <1>1, <1>p, <2>2, <2>3 DEF At
  <1>7. ASSUME NEW p \in S, Waits(p, "order")
        PROVE  Goal
    <2> DEFINE row == Head(todo[p])
    <2>1. PICK h \in S : lock[row] = h
      BY <1>7, <1>w
    <2>2. row \in Rows /\ RankOf(row) = 5
      BY <1>7, <1>h DEF RankOf, Rank
    <2>3. pc[h] # "locking"
      BY <1>k, <2>1, <2>2
    <2> QED
      BY <1>1, <1>2, <1>5, <1>p, <2>3
  <1>8. ASSUME NEW p \in S, Waits(p, "res")
        PROVE  Goal
    <2>1. PICK h \in S : lock[Head(todo[p])] = h /\ Head(todo[p]) \in Rows
      BY <1>8, <1>h, <1>w
    <2>2. CASE pc[h] = "locking"
      BY <1>3, <1>4, <1>6, <1>7, <1>k, <2>1, <2>2
    <2> QED
      BY <1>1, <1>2, <1>5, <1>p, <2>2
  <1>9. PICK p \in S : TRUE
    BY DEF Stuck
  <1>10. ASSUME pc[p] = "locking"
         PROVE  Goal
    <2>1. Head(todo[p])[1] \in {"res", "user", "type", "event", "order"}
      BY <1>9, <1>h, <1>10, KindOfRow
    <2> QED
      BY <1>3, <1>4, <1>6, <1>7, <1>8, <1>9, <1>10, <2>1
  <1>11. Goal
    BY <1>1, <1>2, <1>5, <1>9, <1>10, <1>p
  <1> QED
    BY <1>11 DEF Goal

\* However many transactions are open, PostgreSQL finds a deadlock only where
\* a new reservation meets a purchase of the same user.
THEOREM DeadlocksAreCreateMeetsPurchase == LocksSpec => []OnlyCreateMeetsPurchase
  <1>1. QueueInv => OnlyCreateMeetsPurchase
    BY StuckFacts DEF OnlyCreateMeetsPurchase, WaitCycle
  <1> QED
    BY <1>1, QueueInvInit, QueueInvStep, PTL DEF LocksSpec
=============================================================================
