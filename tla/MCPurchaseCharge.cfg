SPECIFICATION TaskSpec
CONSTANTS
    vip = vip
    concert = concert
    TicketTypes = {vip}
    Events = {concert}
    EventOf <- MCEventOf
    FreeTypes = {}
    Reservations = {r1}
    Keys = {k1}
    NoRow = NoRow
    MaxQty = 1
    MaxCapacity = 1
    Tasks = {t1, t2}
    Workers = {w1, w2}
    MaxRetries = 3
    MaxFaults = 1
    NoTask = NoTask
SYMMETRY Symmetry
CHECK_DEADLOCK FALSE
INVARIANTS
    NoDuplicateCharge
