CONSTANTS
    NULL = NULL
    NilUid = NilUid
    Clients = {c1, c2}
    Accounts = {x, y}
    Projects = {x}
    Orders = {}
    Leases = {}
    Prices = {}
    Months = 1
    MonthStart <- OneMonth
SPECIFICATION FairSpec
INVARIANTS TypeOK ProjectsFunded WritesFit
PROPERTIES ChangedByItsHolder ActsAsQuerier RequestsAnswered
