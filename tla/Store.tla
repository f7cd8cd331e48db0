-------------------------------- MODULE Store --------------------------------
(***************************************************************************)
(* The PostgreSQL database behind store.Querier: the tables, their         *)
(* constraints, and every statement of queries/*.sql that changes a table. *)
(* A statement runs on its own (auto-commit), so each one is an action: it *)
(* is enabled when the database accepts it and changes what it changes.    *)
(* ids of absent rows map to NULL.  The three spend tables are sets of     *)
(* rows, because two different constraints (the primary key uid and the    *)
(* unique index on id and window) decide what happens to an insert.        *)
(*                                                                         *)
(* Left out: columns no statement reads back and no property tells apart   *)
(* (infra_type, quantity, description, the price and create_time of an     *)
(* order), and the CHECK on the form of an id.                             *)
(***************************************************************************)
EXTENDS Metering

CONSTANTS
    Accounts, Projects, Orders, Leases,   \* the ids that may be used
    Prices,                               \* values of lease.price_hr
    Months,                               \* bound: number of calendar months
    MonthStart                            \* first instant of each month

ASSUME PricesAssumption == Prices \subseteq Nat

ASSUME CalendarAssumption ==
    /\ Months \in Nat \ {0}
    /\ MonthStart \in [0 .. Months -> Nat]
    /\ MonthStart[0] = 0
    /\ \A m \in 0 .. Months - 1 : MonthStart[m] < MonthStart[m + 1]

OrderStatus == {"active", "canceled", "complete", "failed"}
LeaseStatus == {"active", "complete", "failed"}

BillingAccountRow ==
    [create_time : Nat, demand_enabled : BOOLEAN, supply_enabled : BOOLEAN]
ProjectRow == [billing_account_id : Accounts]
OrderRow ==
    [project_id : Projects, billing_account_id : Accounts, status : OrderStatus]
LeaseRow ==
    [id : Leases, order_id : Orders, price_hr : Prices, create_time : Nat,
     end_time : Nat \cup {NULL}, status : LeaseStatus]

\* NULL is not a row, whatever the row's columns hold.
ASSUME NoNullRow ==
    NULL \notin BillingAccountRow \cup ProjectRow \cup OrderRow \cup LeaseRow

VARIABLES
    now,                    \* the clock: CURRENT_TIMESTAMP and time.Now()
    month,                  \* the calendar month of now
    billing_account, project, order, lease,                  \* id -> row
    billing_account_spend, project_spend, order_spend        \* sets of rows

clock == <<now, month>>
tables == <<billing_account, project, order, lease>>
ledger == <<billing_account_spend, project_spend, order_spend>>
storeVars == <<clock, tables, ledger>>

StoreInit ==
    /\ now = 0
    /\ month = 0
    /\ billing_account = [a \in Accounts |-> NULL]
    /\ project = [p \in Projects |-> NULL]
    /\ order = [o \in Orders |-> NULL]
    /\ lease = [l \in Leases |-> NULL]
    /\ billing_account_spend = {}
    /\ project_spend = {}
    /\ order_spend = {}

Existing(table) == {id \in DOMAIN table : table[id] # NULL}

-----------------------------------------------------------------------------
(* Time. *)

Tick ==
    /\ now + 1 < MonthStart[Months]
    /\ now' = now + 1
    /\ month' = IF now + 1 = MonthStart[month + 1] THEN month + 1 ELSE month
    /\ UNCHANGED <<tables, ledger>>

-----------------------------------------------------------------------------
(* Billing accounts and projects. *)

CreateBillingAccount(a) ==
    /\ billing_account[a] = NULL            \* ON CONFLICT DO NOTHING
    /\ billing_account' = [billing_account EXCEPT ![a] =
            [create_time |-> now, demand_enabled |-> FALSE,
             supply_enabled |-> FALSE]]
    /\ UNCHANGED <<clock, project, order, lease, ledger>>

EnableBillingAccountDemand(a) ==
    /\ billing_account[a] # NULL
    /\ billing_account' = [billing_account EXCEPT ![a].demand_enabled = TRUE]
    /\ UNCHANGED <<clock, project, order, lease, ledger>>

EnableBillingAccountSupply(a) ==
    /\ billing_account[a] # NULL
    /\ billing_account' = [billing_account EXCEPT ![a].supply_enabled = TRUE]
    /\ UNCHANGED <<clock, project, order, lease, ledger>>

CreateProject(p, a) ==
    /\ project[p] = NULL                    \* ON CONFLICT DO NOTHING
    /\ billing_account[a] # NULL            \* REFERENCES billing_account
    /\ project' = [project EXCEPT ![p] = [billing_account_id |-> a]]
    /\ UNCHANGED <<clock, billing_account, order, lease, ledger>>

UpdateProject(p, a) ==
    /\ project[p] # NULL
    /\ billing_account[a] # NULL
    /\ project' = [project EXCEPT ![p].billing_account_id = a]
    /\ UNCHANGED <<clock, billing_account, order, lease, ledger>>

\* Mutant: no reference from project_spend holds the project.
DeleteProjectUnchecked(p) ==
    /\ project[p] # NULL
    /\ project' = [project EXCEPT ![p] = NULL]
    /\ UNCHANGED <<clock, billing_account, order, lease, ledger>>

\* Mutant: the row is kept and its account set to NULL.
DeleteProjectSoftly(p) ==
    /\ project[p] # NULL
    /\ project' = [project EXCEPT ![p].billing_account_id = NULL]
    /\ UNCHANGED <<clock, billing_account, order, lease, ledger>>

\* Migration 0002 dropped the reference of order to project: orders do not
\* keep their project alive, only a row of project_spend does.
DeleteProject(p) ==
    /\ project[p] # NULL
    /\ \A r \in project_spend : r.id # p
    /\ project' = [project EXCEPT ![p] = NULL]
    /\ UNCHANGED <<clock, billing_account, order, lease, ledger>>

-----------------------------------------------------------------------------
(* Orders and leases. *)

\* project_id is not checked against project since migration 0002.
CreateOrder(o, p, a) ==
    /\ order[o] = NULL                      \* ON CONFLICT DO NOTHING
    /\ billing_account[a] # NULL            \* REFERENCES billing_account
    /\ order' = [order EXCEPT ![o] =
            [project_id |-> p, billing_account_id |-> a, status |-> "active"]]
    /\ UNCHANGED <<clock, billing_account, project, lease, ledger>>

EndOrder(o, status) ==
    /\ order[o] # NULL
    /\ order' = [order EXCEPT ![o].status = status]
    /\ UNCHANGED <<clock, billing_account, project, lease, ledger>>

\* Mutant: ON CONFLICT DO UPDATE SET create_time, the end is kept.
CreateLeaseAgain(l, o, price) ==
    /\ order[o] # NULL
    /\ lease' = [lease EXCEPT ![l] =
            [id |-> l, order_id |-> o, price_hr |-> price, create_time |-> now,
             end_time |-> IF @ = NULL THEN NULL ELSE @.end_time,
             status |-> "active"]]
    /\ UNCHANGED <<clock, billing_account, project, order, ledger>>

CreateLease(l, o, price) ==
    /\ lease[l] = NULL                      \* ON CONFLICT DO NOTHING
    /\ order[o] # NULL                      \* REFERENCES "order"
    /\ lease' = [lease EXCEPT ![l] =
            [id |-> l, order_id |-> o, price_hr |-> price, create_time |-> now,
             end_time |-> NULL, status |-> "active"]]
    /\ UNCHANGED <<clock, billing_account, project, order, ledger>>

\* No condition on the status: ending an ended lease moves its end to now.
EndLease(l, status) ==
    /\ lease[l] # NULL
    /\ lease' = [lease EXCEPT ![l].end_time = now, ![l].status = status]
    /\ UNCHANGED <<clock, billing_account, project, order, ledger>>

-----------------------------------------------------------------------------
(***************************************************************************)
(* The spend tables.  INSERT ... ON CONFLICT (id, start_time, end_time)    *)
(* DO UPDATE SET spend: a row with the same id and window gets the new     *)
(* spend and keeps its uid; otherwise a new row is inserted, unless its    *)
(* uid, the primary key, is taken or its parent row does not exist.        *)
(***************************************************************************)
SpendRow(uid, id, spend, startTime, endTime) ==
    [uid |-> uid, id |-> id, spend |-> spend,
     start_time |-> startTime, end_time |-> endTime]

SameKey(table, id, startTime, endTime) ==
    {r \in table : r.id = id /\ r.start_time = startTime /\ r.end_time = endTime}

\* Mutant: uid is not a primary key.
DuplicateUidAllowed(table, uid, id, startTime, endTime) == FALSE

DuplicateUid(table, uid, id, startTime, endTime) ==
    /\ SameKey(table, id, startTime, endTime) = {}
    /\ \E r \in table : r.uid = uid

MissingParent(parents, table, id, startTime, endTime) ==
    /\ SameKey(table, id, startTime, endTime) = {}
    /\ parents[id] = NULL

\* Mutant: ON CONFLICT DO NOTHING, the first amount stays.
InsertOnce(table, uid, id, spend, startTime, endTime) ==
    IF SameKey(table, id, startTime, endTime) = {}
    THEN table \cup {SpendRow(uid, id, spend, startTime, endTime)}
    ELSE table

\* Mutant: the row in conflict is replaced, its uid too.
Replace(table, uid, id, spend, startTime, endTime) ==
    (table \ SameKey(table, id, startTime, endTime))
        \cup {SpendRow(uid, id, spend, startTime, endTime)}

\* Mutant: the amount is added to the one stored before.
Accumulate(table, uid, id, spend, startTime, endTime) ==
    LET hit == SameKey(table, id, startTime, endTime)
    IN  IF hit = {}
        THEN table \cup {SpendRow(uid, id, spend, startTime, endTime)}
        ELSE (table \ hit) \cup {[r EXCEPT !.spend = @ + spend] : r \in hit}

Upsert(table, uid, id, spend, startTime, endTime) ==
    LET hit == SameKey(table, id, startTime, endTime)
    IN  IF hit = {}
        THEN table \cup {SpendRow(uid, id, spend, startTime, endTime)}
        ELSE (table \ hit) \cup {[r EXCEPT !.spend = spend] : r \in hit}

CreateOrderSpend(uid, o, spend, startTime, endTime) ==
    /\ ~ DuplicateUid(order_spend, uid, o, startTime, endTime)
    /\ ~ MissingParent(order, order_spend, o, startTime, endTime)
    /\ order_spend' = Upsert(order_spend, uid, o, spend, startTime, endTime)
    /\ UNCHANGED <<clock, tables, billing_account_spend, project_spend>>

CreateProjectSpend(uid, p, spend, startTime, endTime) ==
    /\ ~ DuplicateUid(project_spend, uid, p, startTime, endTime)
    /\ ~ MissingParent(project, project_spend, p, startTime, endTime)
    /\ project_spend' = Upsert(project_spend, uid, p, spend, startTime, endTime)
    /\ UNCHANGED <<clock, tables, billing_account_spend, order_spend>>

CreateBillingAccountSpend(uid, a, spend, startTime, endTime) ==
    /\ ~ DuplicateUid(billing_account_spend, uid, a, startTime, endTime)
    /\ ~ MissingParent(billing_account, billing_account_spend, a, startTime, endTime)
    /\ billing_account_spend' =
            Upsert(billing_account_spend, uid, a, spend, startTime, endTime)
    /\ UNCHANGED <<clock, tables, project_spend, order_spend>>

-----------------------------------------------------------------------------
(* Queries. *)

ListAllBillingAccounts == Existing(billing_account)

ListOrdersByBillingAccountId(a) ==
    {o \in Existing(order) : order[o].billing_account_id = a}

ListLeasesForTimeRangeByOrderId(o, startTime, endTime) ==
    {lease[l] : l \in {k \in Existing(lease) :
                        /\ lease[k].order_id = o
                        /\ InTimeRange(lease[k], startTime, endTime)}}

-----------------------------------------------------------------------------
(* The calendar, as the biller and the tables use it. *)

MonthNumbers == 0 .. Months - 1

IsMonth(startTime, endTime) ==
    \E m \in MonthNumbers :
        startTime = MonthStart[m] /\ endTime = MonthStart[m + 1]

SpendRows(uids, ids) ==
    [uid : uids, id : ids, spend : Nat, start_time : Nat, end_time : Nat]

LedgerTypeOK(uids) ==
    /\ billing_account_spend \subseteq SpendRows(uids, Accounts)
    /\ project_spend \subseteq SpendRows(uids, Projects)
    /\ order_spend \subseteq SpendRows(uids, Orders)

\* The types of the clock and the tables.  Every month of the calendar that
\* the clock is in has begun and not ended.
StoreTypeOK ==
    /\ now \in Nat
    /\ month \in MonthNumbers
    /\ MonthStart[month] <= now /\ now < MonthStart[month + 1]
    /\ billing_account \in [Accounts -> BillingAccountRow \cup {NULL}]
    /\ project \in [Projects -> ProjectRow \cup {NULL}]
    /\ order \in [Orders -> OrderRow \cup {NULL}]
    /\ lease \in [Leases -> LeaseRow \cup {NULL}]

\* No lease ends before it began, and none begins or ends in the future:
\* what makes every duration the biller computes non-negative.
LeaseTimesOrdered ==
    \A l \in Existing(lease) :
        /\ lease[l].create_time <= now
        /\ lease[l].end_time # NULL =>
              /\ lease[l].create_time <= lease[l].end_time
              /\ lease[l].end_time <= now

\* What the biller charges a lease for in a month is the time it ran in that
\* month, less the nanosecond given away when it outlives the month; an open
\* lease counts as running to the end of the month.
MeteredExactly ==
    \A l \in Existing(lease), m \in MonthNumbers :
        LET s == MonthStart[m]
            e == MonthStart[m + 1]
        IN  Charged(lease[l], s, e)
              = RunningTime(lease[l], s, e) - GivenAway(lease[l], s, e)

\* The references that are left after the migrations: project, order and the
\* spend tables to their parents, lease to order.  A project with spend cannot
\* be deleted.
ReferentialIntegrity ==
    /\ \A p \in Existing(project) :
            project[p].billing_account_id \in Existing(billing_account)
    /\ \A o \in Existing(order) :
            order[o].billing_account_id \in Existing(billing_account)
    /\ \A l \in Existing(lease) : lease[l].order_id \in Existing(order)
    /\ \A r \in billing_account_spend : r.id \in Existing(billing_account)
    /\ \A r \in project_spend : r.id \in Existing(project)
    /\ \A r \in order_spend : r.id \in Existing(order)

\* The primary key uid and the unique index on (id, start_time, end_time).
UniqueRows(table) ==
    \A r, q \in table :
        \/ r.uid = q.uid
        \/ r.id = q.id /\ r.start_time = q.start_time /\ r.end_time = q.end_time
        => r = q

\* Two rows of a spend table never share their primary key, nor the id and the
\* window they are for: no month of an order, a project or an account is
\* counted twice, however inserts and updates mix.
KeysUnique ==
    /\ UniqueRows(billing_account_spend)
    /\ UniqueRows(project_spend)
    /\ UniqueRows(order_spend)

\* A row of a spend table is never deleted and never changes its uid, its id
\* or its window: an upsert only replaces the spend.
RowsPersist(table) ==
    \A r \in table : \E q \in table' :
        SpendRow(r.uid, r.id, q.spend, r.start_time, r.end_time) = q

LedgerRowsPersist ==
    [][/\ RowsPersist(billing_account_spend)
       /\ RowsPersist(project_spend)
       /\ RowsPersist(order_spend)]_ledger
=============================================================================
