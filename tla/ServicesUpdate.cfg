CONSTANTS
    NULL = NULL
    NilUid = NilUid
    Clients = {c1}
    Accounts = {x, y}
    Projects = {x}
    Orders = {}
    Leases = {}
    Prices = {}
    Months = 1
    MonthStart <- OneMonth
SPECIFICATION Spec
INVARIANTS UpdateFindsItsRow
