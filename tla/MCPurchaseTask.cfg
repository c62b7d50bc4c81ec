SPECIFICATION FairTaskSpec
CONSTANTS
    vip = vip
    concert = concert
    TicketTypes = {vip}
    Events = {concert}
    EventOf <- MCEventOf
    FreeTypes = {}
    Reservations = {r1}
    Keys = {k1}
    NoRow = NoRow
    MaxQty = 1
    MaxCapacity = 1
    Tasks = {t1, t2}
    Workers = {w1, w2}
    MaxRetries = 1
    MaxFaults = 2
    NoTask = NoTask
CHECK_DEADLOCK FALSE
INVARIANTS
    TaskTypeOK
    ChargesExplained
    
PROPERTIES
    PaidIsNotRefused
    RequestsAnswered
