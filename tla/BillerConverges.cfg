CONSTANTS
    NULL = NULL
    NilUid = NilUid
    Accounts = {a1}
    Projects = {p1}
    Orders = {o1}
    Leases = {l1}
    Prices = {1}
    TinyPrices = {}
    Months = 2
    MonthStart <- TwoMonths
    MaxFaults = 2
SPECIFICATION FairSpec
PROPERTIES RunsEnd LedgerConverges
