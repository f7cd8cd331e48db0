CONSTANTS
    NULL = NULL
    NilUid = NilUid
    Accounts = {a1}
    Projects = {p1}
    Orders = {o1, o2}
    Leases = {l1, l2}
    Prices = {1, 2}
    TinyPrices = {2}
    Months = 1
    MonthStart <- OneMonth
    MaxFaults = 1
SYMMETRY SymmetricLeases
SPECIFICATION Spec
INVARIANTS HierarchyAgrees WrittenBottomUp LedgerHoldsOneRow
PROPERTIES AccountRowIsSumOfOrders OrdersChargedAsListed
