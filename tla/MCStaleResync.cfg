SPECIFICATION StaleSpec
CONSTANTS
    vip = vip
    concert = concert
    TicketTypes = {vip}
    Events = {concert}
    EventOf <- MCEventOf
    FreeTypes = {}
    Reservations = {r1, r2}
    Keys = {k1, k2}
    NoRow = NoRow
    MaxQty = 2
    MaxCapacity = 2
    MaxOvertaken = 1
SYMMETRY Symmetry
CHECK_DEADLOCK FALSE
PROPERTIES
    AtomicResync
