SPECIFICATION FairSpec
CONSTANTS
    vip = vip
    balcony = balcony
    concert = concert
    festival = festival
    TicketTypes = {vip}
    Events = {concert}
    EventOf <- OneEvent
    FreeTypes = {}
    Reservations = {r1}
    Keys = {k1}
    NoRow = NoRow
    MaxQty = 1
    MaxCapacity = 1
    Procs = {p1, p2}
    Users = {alice}
    Ops = {"create", "purchase", "sweep"}
    MayFail = FALSE
    Free = Free
    MaxCalls = Unlimited
    Unlimited = Unlimited
CHECK_DEADLOCK FALSE
PROPERTIES
    HoldsReleased
