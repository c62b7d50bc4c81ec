SPECIFICATION LocksSpec
CONSTANTS
    vip = vip
    balcony = balcony
    concert = concert
    festival = festival
    TicketTypes = {vip, balcony}
    Events = {concert, festival}
    EventOf <- TwoEvents
    FreeTypes = {}
    Reservations = {r1, r2}
    Keys = {k1}
    NoRow = NoRow
    MaxQty = 1
    MaxCapacity = 1
    Procs = {p1, p2}
    Users = {alice, bob}
    Ops = {"create", "cancel", "purchase", "refund", "sweep"}
    MayFail = TRUE
    Free = Free
    MaxCalls = Unlimited
    Unlimited = Unlimited
SYMMETRY Symmetry
CHECK_DEADLOCK FALSE
INVARIANTS
    LocksTypeOK
PROPERTIES
    Linearizable
    PauseStopsSales
