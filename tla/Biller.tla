-------------------------------- MODULE Biller --------------------------------
(***************************************************************************)
(* Biller.Run and calculateDemandSpend against a database that other       *)
(* clients change while the run is under way.  There is one action per     *)
(* call of the querier, because no transaction spans two of them; what the *)
(* code does in memory between two calls belongs to the first of them,     *)
(* except the sum over the leases of an order, which takes one step per    *)
(* lease.  Runs follow one another in one process: the next begins when    *)
(* the previous one has returned.                                          *)
(***************************************************************************)
EXTENDS Store, FiniteSetsExt

CONSTANTS
    NilUid,         \* the zero uuid.UUID
    TinyPrices,     \* prices whose non-zero products are below 10^-18
    MaxFaults       \* bound: failed or lost calls and crashes

ASSUME BillerAssumption ==
    /\ TinyPrices \subseteq Prices
    /\ MaxFaults \in Nat

VARIABLES
    pc,             \* the querier call the run makes next
    accounts,       \* accounts that are still to be billed
    acct,           \* the account being billed
    orders,         \* its orders that are still to be billed
    ord,            \* the order being billed
    leases,         \* rows of its leases that are still to be added up
    startTime, endTime,                  \* the window of the run
    orderSpend, projectSpend, acctSpend, \* struct DemandSpend, NULL: no entry
    outcome,        \* how the last run ended
    faults          \* faults so far

memory == <<accounts, acct, orders, ord, leases, startTime, endTime,
            orderSpend, projectSpend, acctSpend>>
billerVars == <<pc, memory, outcome, faults>>
vars == <<storeVars, billerVars>>

(***************************************************************************)
(* What a run may end with.  "ok": nil, nothing went wrong.  "error": Run  *)
(* returned the error of ListAllBillingAccounts.  The others are errors of *)
(* calculateDemandSpend: Run logs them and returns nil.                    *)
(***************************************************************************)
Swallowed == {"query failed", "arithmetic", "duplicate uid", "missing parent"}
Outcomes == {"none", "ok", "error"} \cup Swallowed

NoSpend(keys) == [k \in keys |-> NULL]

Init ==
    /\ StoreInit
    /\ pc = "idle"
    /\ accounts = {} /\ orders = {} /\ leases = {}
    /\ acct = NULL /\ ord = NULL
    /\ startTime = 0 /\ endTime = 0
    /\ orderSpend = NoSpend(Orders)
    /\ projectSpend = NoSpend(Projects)
    /\ acctSpend = 0
    /\ outcome = "none"
    /\ faults = 0

\* Run returns (or the process dies) and its local variables are gone.
Leave(result) ==
    /\ pc' = "idle"
    /\ outcome' = result
    /\ accounts' = {} /\ orders' = {} /\ leases' = {}
    /\ acct' = NULL /\ ord' = NULL
    /\ startTime' = 0 /\ endTime' = 0
    /\ orderSpend' = NoSpend(Orders)
    /\ projectSpend' = NoSpend(Projects)
    /\ acctSpend' = 0

-----------------------------------------------------------------------------
(* Run *)

RunListAccounts ==
    /\ pc = "idle"
    /\ accounts' = ListAllBillingAccounts
    /\ pc' = "window"
    /\ UNCHANGED <<storeVars, acct, orders, ord, leases, startTime, endTime,
                   orderSpend, projectSpend, acctSpend, outcome, faults>>

\* Mutant: the window is a month's length from now, not the month of now.
RunSetRollingWindow ==
    /\ pc = "window"
    /\ startTime' = now
    /\ endTime' = now + MonthStart[1]
    /\ pc' = "accounts"
    /\ UNCHANGED <<storeVars, accounts, acct, orders, ord, leases,
                   orderSpend, projectSpend, acctSpend, outcome, faults>>

\* startTime is the first instant of the month of now, and
\* startTime.AddDate(0, 1, 0) the first instant of the next one.
RunSetWindow ==
    /\ pc = "window"
    /\ startTime' = MonthStart[month]
    /\ endTime' = MonthStart[month + 1]
    /\ pc' = "accounts"
    /\ UNCHANGED <<storeVars, accounts, acct, orders, ord, leases,
                   orderSpend, projectSpend, acctSpend, outcome, faults>>

RunReturn ==
    /\ pc = "accounts"
    /\ accounts = {}
    /\ Leave("ok")
    /\ UNCHANGED <<storeVars, faults>>

-----------------------------------------------------------------------------
(* calculateDemandSpend *)

\* ListAllBillingAccounts orders by create_time.
FirstAccounts ==
    {a \in accounts : \A b \in accounts :
        billing_account[a].create_time <= billing_account[b].create_time}

\* Mutant: the account stays in the list of those to be billed.
ListOrdersAgain ==
    /\ pc = "accounts"
    /\ \E a \in FirstAccounts :
        /\ acct' = a
        /\ orders' = ListOrdersByBillingAccountId(a)
    /\ orderSpend' = NoSpend(Orders)
    /\ projectSpend' = NoSpend(Projects)
    /\ acctSpend' = 0
    /\ pc' = "orders"
    /\ UNCHANGED <<storeVars, accounts, ord, leases, startTime, endTime, outcome,
                   faults>>

ListOrders ==
    /\ pc = "accounts"
    /\ \E a \in FirstAccounts :
        /\ acct' = a
        /\ accounts' = accounts \ {a}
        /\ orders' = ListOrdersByBillingAccountId(a)
    /\ orderSpend' = NoSpend(Orders)
    /\ projectSpend' = NoSpend(Projects)
    /\ acctSpend' = 0
    /\ pc' = "orders"
    /\ UNCHANGED <<storeVars, ord, leases, startTime, endTime, outcome, faults>>

\* Mutant: the entries are only made for an order that has leases.
ListLeasesLazily ==
    /\ pc = "orders"
    /\ \E o \in orders :
        LET found == ListLeasesForTimeRangeByOrderId(o, startTime, endTime)
        IN  /\ ord' = o
            /\ orders' = orders \ {o}
            /\ leases' = found
            /\ IF found = {}
               THEN UNCHANGED <<projectSpend, orderSpend>>
               ELSE /\ projectSpend' = [projectSpend EXCEPT
                            ![order[o].project_id] = IF @ = NULL THEN 0 ELSE @]
                    /\ orderSpend' = [orderSpend EXCEPT ![o] = 0]
    /\ pc' = "leases"
    /\ UNCHANGED <<storeVars, accounts, acct, startTime, endTime, acctSpend,
                   outcome, faults>>

ListLeases ==
    /\ pc = "orders"
    /\ \E o \in orders :
        /\ ord' = o
        /\ orders' = orders \ {o}
        /\ projectSpend' = [projectSpend EXCEPT ![order[o].project_id] =
                                IF @ = NULL THEN 0 ELSE @]
        /\ orderSpend' = [orderSpend EXCEPT ![o] = 0]
        /\ leases' = ListLeasesForTimeRangeByOrderId(o, startTime, endTime)
    /\ pc' = "leases"
    /\ UNCHANGED <<storeVars, accounts, acct, startTime, endTime, acctSpend,
                   outcome, faults>>

\* apdContext.Mul reports a condition, which is treated as an error.
Subnormal(l) ==
    /\ l.price_hr \in TinyPrices
    /\ LeaseSpend(l, startTime, endTime) > 0

\* Mutant: the account gets the last lease only.
AddLeaseOverwritesAccount ==
    /\ pc = "leases"
    /\ \E l \in leases :
        LET leaseSpend == LeaseSpend(l, startTime, endTime)
        IN  /\ ~ Subnormal(l)
            /\ leases' = leases \ {l}
            /\ orderSpend' = [orderSpend EXCEPT ![ord] = @ + leaseSpend]
            /\ projectSpend' = [projectSpend EXCEPT ![order[ord].project_id] =
                                    @ + leaseSpend]
            /\ acctSpend' = leaseSpend
    /\ UNCHANGED <<storeVars, pc, accounts, acct, orders, ord, startTime,
                   endTime, outcome, faults>>

AddLease ==
    /\ pc = "leases"
    /\ \E l \in leases :
        LET leaseSpend == LeaseSpend(l, startTime, endTime)
        IN  /\ ~ Subnormal(l)
            /\ leases' = leases \ {l}
            /\ orderSpend' = [orderSpend EXCEPT ![ord] = @ + leaseSpend]
            /\ projectSpend' = [projectSpend EXCEPT ![order[ord].project_id] =
                                    @ + leaseSpend]
            /\ acctSpend' = acctSpend + leaseSpend
    /\ UNCHANGED <<storeVars, pc, accounts, acct, orders, ord, startTime,
                   endTime, outcome, faults>>

AddLeaseFails ==
    /\ pc = "leases"
    /\ \E l \in leases : Subnormal(l)
    /\ Leave("arithmetic")
    /\ UNCHANGED <<storeVars, faults>>

\* The params of the three writes do not set Uid.
OrderSpendStatement ==
    CreateOrderSpend(NilUid, ord, orderSpend[ord], startTime, endTime)

ProjectSpendStatement ==
    LET p == order[ord].project_id
    IN  CreateProjectSpend(NilUid, p, projectSpend[p], startTime, endTime)

AccountSpendStatement ==
    CreateBillingAccountSpend(NilUid, acct, acctSpend, startTime, endTime)

\* Mutant: an order that cost nothing is not written.
WriteOrderSpendUnlessZero ==
    /\ pc = "leases" /\ leases = {}
    /\ IF orderSpend[ord] = 0 THEN UNCHANGED storeVars ELSE OrderSpendStatement
    /\ pc' = "project_spend"
    /\ UNCHANGED <<memory, outcome, faults>>

WriteOrderSpend ==
    /\ pc = "leases" /\ leases = {}
    /\ OrderSpendStatement
    /\ pc' = "project_spend"
    /\ UNCHANGED <<memory, outcome, faults>>

WriteProjectSpend ==
    /\ pc = "project_spend"
    /\ ProjectSpendStatement
    /\ pc' = "orders"
    /\ UNCHANGED <<memory, outcome, faults>>

WriteAccountSpend ==
    /\ pc = "orders" /\ orders = {}
    /\ AccountSpendStatement
    /\ pc' = "accounts"
    /\ UNCHANGED <<memory, outcome, faults>>

-----------------------------------------------------------------------------
(* The database refuses a write: the whole run ends, Run returns nil. *)

RefuseOrderSpend ==
    /\ pc = "leases" /\ leases = {}
    /\ DuplicateUid(order_spend, NilUid, ord, startTime, endTime)
    /\ Leave("duplicate uid")
    /\ UNCHANGED <<storeVars, faults>>

\* uid is checked as the row is inserted, the reference at the statement's end.
RefuseProjectSpend ==
    /\ pc = "project_spend"
    /\ LET p == order[ord].project_id
       IN  \/ /\ DuplicateUid(project_spend, NilUid, p, startTime, endTime)
              /\ Leave("duplicate uid")
           \/ /\ ~ DuplicateUid(project_spend, NilUid, p, startTime, endTime)
              /\ MissingParent(project, project_spend, p, startTime, endTime)
              /\ Leave("missing parent")
    /\ UNCHANGED <<storeVars, faults>>

RefuseAccountSpend ==
    /\ pc = "orders" /\ orders = {}
    /\ DuplicateUid(billing_account_spend, NilUid, acct, startTime, endTime)
    /\ Leave("duplicate uid")
    /\ UNCHANGED <<storeVars, faults>>

-----------------------------------------------------------------------------
(***************************************************************************)
(* Faults: a call fails (a database error, the deadline of the context) or *)
(* a write is carried out and its answer lost; the process dies.           *)
(***************************************************************************)
Fault ==
    /\ faults < MaxFaults
    /\ faults' = faults + 1

ListAccountsFails ==
    /\ pc = "idle"
    /\ Fault
    /\ Leave("error")
    /\ UNCHANGED storeVars

CallFails ==
    /\ \/ pc = "accounts" /\ accounts # {}
       \/ pc \in {"orders", "project_spend"}
       \/ pc = "leases" /\ leases = {}
    /\ Fault
    /\ Leave("query failed")
    /\ UNCHANGED storeVars

AnswerLost ==
    /\ \/ pc = "leases" /\ leases = {} /\ OrderSpendStatement
       \/ pc = "project_spend" /\ ProjectSpendStatement
       \/ pc = "orders" /\ orders = {} /\ AccountSpendStatement
    /\ Fault
    /\ Leave("query failed")

Crash ==
    /\ pc # "idle"
    /\ Fault
    /\ Leave("none")
    /\ UNCHANGED storeVars

-----------------------------------------------------------------------------
(* The other clients of the database, and time. *)

Environment ==
    /\ \/ Tick
       \/ \E a \in Accounts : CreateBillingAccount(a)
       \/ \E p \in Projects : DeleteProject(p)
       \/ \E p \in Projects, a \in Accounts : CreateProject(p, a)
       \/ \E o \in Orders, p \in Projects, a \in Accounts : CreateOrder(o, p, a)
       \/ \E l \in Leases, o \in Orders, price \in Prices : CreateLease(l, o, price)
       \/ \E l \in Leases : EndLease(l, "complete")
    /\ UNCHANGED billerVars

Run == RunListAccounts \/ RunSetWindow \/ RunReturn

CalculateDemandSpend ==
    \/ ListOrders \/ ListLeases
    \/ AddLease \/ AddLeaseFails
    \/ WriteOrderSpend \/ WriteProjectSpend \/ WriteAccountSpend
    \/ RefuseOrderSpend \/ RefuseProjectSpend \/ RefuseAccountSpend

Faulty == ListAccountsFails \/ CallFails \/ AnswerLost \/ Crash

Next == Run \/ CalculateDemandSpend \/ Faulty \/ Environment

Spec == Init /\ [][Next]_vars

\* The Go runtime keeps running the goroutine of the biller, and the background
\* service keeps calling Run.  Nothing is assumed of the other clients.
FairSpec == Spec /\ WF_vars(Run \/ CalculateDemandSpend)

-----------------------------------------------------------------------------
(* Correctness. *)

Billing == {"orders", "leases", "project_spend"}     \* an account is billed
Charging == Billing \cup {"accounts"}                \* the window is set

SpendMap(keys) == [keys -> Nat \cup {NULL}]

Billed == {o \in Orders : orderSpend[o] # NULL}
BilledProjects == {p \in Projects : projectSpend[p] # NULL}

BillerTypeOK ==
    /\ pc \in Charging \cup {"idle", "window"}
    /\ accounts \subseteq Accounts
    /\ acct \in Accounts \cup {NULL}
    /\ orders \subseteq Orders
    /\ ord \in Orders \cup {NULL}
    /\ leases \subseteq LeaseRow
    /\ startTime \in Nat /\ endTime \in Nat
    /\ orderSpend \in SpendMap(Orders)
    /\ projectSpend \in SpendMap(Projects)
    /\ acctSpend \in Nat
    /\ outcome \in Outcomes
    /\ faults \in 0 .. MaxFaults

\* Types.  That the three sums and the stored rows are in Nat says that no
\* lease is ever charged a negative time.
TypeOK ==
    /\ StoreTypeOK
    /\ LedgerTypeOK({NilUid})
    /\ BillerTypeOK

InWindow(r, s, e) == r.start_time = s /\ r.end_time = e

\* What the run has in memory fits what is in the database, although it was
\* read earlier: the accounts and orders it still names exist, the maps hold
\* the entries that the next step reads, and the leases that are left are
\* ordered and in the window they were selected for.
MemoryInStep ==
    /\ accounts \subseteq Existing(billing_account)
    /\ pc \in Billing => /\ acct \in Existing(billing_account)
                         /\ orders \cup Billed \subseteq Existing(order)
    /\ pc \in {"leases", "project_spend"} =>
            /\ ord \in Billed
            /\ order[ord].project_id \in BilledProjects
    /\ leases # {} => pc = "leases"
    /\ \A l \in leases : OrderedLease(l) /\ InTimeRange(l, startTime, endTime)

\* Every row the biller stores carries the zero uid, the primary key: each
\* spend table holds one row at most, whatever is billed and however often.
LedgerHoldsOneRow ==
    \A table \in {billing_account_spend, project_spend, order_spend} :
        \A r, q \in table : r = q

\* The window of a run, and of every row it leaves behind, is one calendar
\* month that has begun: a run that is still going when the month turns
\* finishes with the month it started with.
WindowsAreMonths ==
    /\ pc \in Charging => IsMonth(startTime, endTime) /\ startTime <= now
    /\ \A r \in billing_account_spend \cup project_spend \cup order_spend :
            IsMonth(r.start_time, r.end_time) /\ r.start_time <= now

\* The three levels of DemandSpend agree: a project's spend is that of its
\* orders, and the account's that of all of them.
HierarchyAgrees ==
    /\ \A p \in BilledProjects :
        projectSpend[p] = SumFunctionOnSet(orderSpend,
                                {o \in Billed : order[o].project_id = p})
    /\ acctSpend = SumFunctionOnSet(orderSpend, Billed)

\* While an account is billed, what the run has finished is in the database
\* with the amount it has in memory: every order but the one whose leases are
\* being added up, every project but that of the order in hand.  So the row of
\* the account, written last, never runs ahead of its parts.
WrittenBottomUp ==
    pc \in Billing =>
        /\ \A o \in Billed : \/ pc = "leases" /\ o = ord
                            \/ \E r \in order_spend :
                                  /\ r.id = o /\ InWindow(r, startTime, endTime)
                                  /\ r.spend = orderSpend[o]
        /\ \A p \in BilledProjects :
              \/ pc \in {"leases", "project_spend"} /\ p = order[ord].project_id
              \/ \E r \in project_spend :
                    /\ r.id = p /\ InWindow(r, startTime, endTime)
                    /\ r.spend = projectSpend[p]

\* The rows of the orders of an account for a window.
OrderRows(a, s, e) ==
    {q \in order_spend : /\ InWindow(q, s, e)
                         /\ order[q.id].billing_account_id = a}

\* When the row of an account is written it is the sum of the rows of its
\* orders for that window, those of earlier runs included.
AccountRowIsSumOfOrders ==
    [][\A r \in billing_account_spend' \ billing_account_spend :
        r.spend = SumFunction([q \in OrderRows(r.id, r.start_time, r.end_time)
                                    |-> q.spend])]_vars

SpendOf(rows, s, e) == SumFunction([l \in rows |-> LeaseSpend(l, s, e)])

\* What the order in hand comes to: what has been added up and what is left.
Due == orderSpend[ord] + SpendOf(leases, startTime, endTime)

\* What the leases of an order cost the window of the run, as they are now.
ListedCost(o) ==
    SpendOf(ListLeasesForTimeRangeByOrderId(o, startTime, endTime),
            startTime, endTime)

\* From the one query that lists the leases of an order to the write of its row
\* nothing is lost or added: the row is what they cost when they were listed,
\* whatever other clients do to them meanwhile, and whether or not earlier runs,
\* some of them unanswered, have written the row before.
OrdersChargedAsListed ==
    [][/\ pc' = "leases" => Due' = IF pc = "leases" THEN Due ELSE ListedCost(ord')
       /\ \A r \in order_spend' \ order_spend :
            /\ r.id = ord /\ InWindow(r, startTime, endTime)
            /\ r.spend = Due]_vars

\* What a lease costs a month it does not end in.
FullSpend(l, s, e) ==
    l.price_hr * (e - 1 - Max({l.create_time, s}))

LeasesBefore(o, e) ==
    {l \in Existing(lease) : lease[l].order_id = o /\ lease[l].create_time < e}

\* A row never charges an order more than its leases would have cost had none
\* of them ended before the month did.
NoOvercharge ==
    \A r \in order_spend :
        r.spend <= SumFunction([l \in LeasesBefore(r.id, r.end_time)
                        |-> FullSpend(lease[l], r.start_time, r.end_time)])

\* Every run returns, whatever fails and whatever the other clients do.
RunsEnd == pc # "idle" ~> pc = "idle"

\* What the leases of an order cost the current month, as they are now.
CurrentCost(o) ==
    LET s == MonthStart[month]
        e == MonthStart[month + 1]
    IN  SpendOf(ListLeasesForTimeRangeByOrderId(o, s, e), s, e)

RowIsCurrent(table, id, cost) ==
    \E r \in table :
        /\ r.id = id
        /\ InWindow(r, MonthStart[month], MonthStart[month + 1])
        /\ r.spend = cost

RowsAreCurrent(o) ==
    /\ RowIsCurrent(order_spend, o, CurrentCost(o))
    /\ order[o].project_id \in Existing(project) =>
        /\ RowIsCurrent(project_spend, order[o].project_id, CurrentCost(o))
        /\ RowIsCurrent(billing_account_spend, order[o].billing_account_id,
                        CurrentCost(o))

Quiet == <>[][FALSE]_<<clock, tables>>

\* With one order in all, and in the first month: once the clock and the other
\* clients are quiet, the runs bring the rows up to date and keep them so,
\* the faults and the amounts stored by earlier runs notwithstanding.
LedgerConverges ==
    Quiet => <>[](month = 0 => \A o \in Existing(order) : RowsAreCurrent(o))

-----------------------------------------------------------------------------
(* What the repository says of the program, and the program does not do. *)

\* Migration 0001 gives every spend row a generated primary key, and the
\* biller is to store the spend of every order of every account
\* ("Get billing account -> orders -> leases"): no row is refused because
\* another row has its key.
NoSpendRefused == outcome # "duplicate uid"
=============================================================================
