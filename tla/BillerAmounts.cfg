CONSTANTS
    NULL = NULL
    NilUid = NilUid
    Accounts = {a1}
    Projects = {p1}
    Orders = {o1}
    Leases = {l1, l2}
    Prices = {1}
    TinyPrices = {}
    Months = 2
    MonthStart <- TwoMonths
    MaxFaults = 1
SYMMETRY SymmetricLeases
SPECIFICATION Spec
INVARIANTS TypeOK MemoryInStep LeaseTimesOrdered MeteredExactly WindowsAreMonths NoOvercharge
