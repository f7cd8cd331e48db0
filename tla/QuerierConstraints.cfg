CONSTANTS
    NULL = NULL
    Accounts = {a1}
    Projects = {p1}
    Orders = {o1}
    Leases = {}
    Prices = {1}
    Months = 2
    MonthStart <- ShortMonths
    Uids = {u1, u2}
    Amounts = {0, 1}
SPECIFICATION Spec
INVARIANTS TypeOK ReferentialIntegrity KeysUnique
PROPERTY LedgerRowsPersist
