CONSTANTS
    NULL = NULL
    NilUid = NilUid
    Accounts = {a1}
    Projects = {p1}
    Orders = {o1, o2}
    Leases = {l1}
    Prices = {1}
    TinyPrices = {}
    Months = 2
    MonthStart <- TwoMonths
    MaxFaults = 0
SPECIFICATION Spec
INVARIANT NoSpendRefused
