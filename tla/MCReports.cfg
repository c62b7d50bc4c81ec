SPECIFICATION ReportsSpec
CONSTANTS
    TicketTypes = {vip}
    PriceLists <- Lists
    Keys = {k1, k2}
    NoRow = NoRow
    MaxQty = 2
    MaxInt = 7
    MaxPaidBack = 12
    MaxFaults = 1
SYMMETRY Symmetry
CHECK_DEADLOCK FALSE
INVARIANTS
    LedgerTypeOK
    RefundsProRata
    RefundedMeansPaidBack
    BooksMatchProvider
    LossBounded
    NetNeverNegative
    RevenueCoversTicketsOut
PROPERTIES
    ImplementsAccounts
    NetMatchesProvider
