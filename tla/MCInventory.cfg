SPECIFICATION Spec
CONSTANTS
    vip = vip
    free = free
    concert = concert
    TicketTypes <- MCTicketTypes
    Events = {concert}
    EventOf <- MCEventOf
    FreeTypes = {free}
    Reservations = {r1, r2}
    Keys = {k1, k2}
    NoRow = NoRow
    MaxQty = 2
    MaxCapacity = 2
SYMMETRY Symmetry
CHECK_DEADLOCK FALSE
INVARIANTS
    TypeOK
    CountersMatchRows
    NoOversell
    CaptureCanSettle
    RefundCanSettle
    OrderMatchesTickets
    SoldOnce
    
    RefundedOnce
PROPERTIES
    NoResurrection
