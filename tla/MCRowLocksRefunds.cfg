SPECIFICATION LocksSpec
CONSTANTS
    vip = vip
    balcony = balcony
    concert = concert
    festival = festival
    TicketTypes = {vip}
    Events = {concert}
    EventOf <- OneEvent
    FreeTypes = {}
    Reservations = {r1, r2}
    Keys = {k1}
    NoRow = NoRow
    MaxQty = 2
    MaxCapacity = 2
    Procs = {p1, p2}
    Users = {alice}
    Ops = {"create", "cancel", "purchase", "refund", "sweep"}
    MayFail = TRUE
    Free = Free
    MaxCalls = Unlimited
    Unlimited = Unlimited
SYMMETRY Symmetry
CHECK_DEADLOCK FALSE
INVARIANTS
    RefundedOnce
