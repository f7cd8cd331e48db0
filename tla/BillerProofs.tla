----------------------------- MODULE BillerProofs -----------------------------
(***************************************************************************)
(* The biller, against any number of accounts, projects, orders, leases,   *)
(* prices, months and faults, and any interleaving with other clients.     *)
(***************************************************************************)
EXTENDS Biller, StoreProofs, SumProofs

StoreInv ==
    StoreTypeOK /\ LedgerTypeOK({NilUid}) /\ LeaseTimesOrdered
    /\ ReferentialIntegrity /\ KeysUnique

RunInv == BillerTypeOK /\ MemoryInStep /\ WindowsAreMonths

IInv == StoreInv /\ RunInv /\ WrittenBottomUp

(***************************************************************************)
(* What the sums need besides, on top of IInv.  The orders that a run has  *)
(* taken up are a finite set, however many the table may hold: it takes    *)
(* them up one by one, and none twice.                                     *)
(***************************************************************************)
OrdersOnce ==
    /\ IsFiniteSet(Billed)
    /\ Billed \subseteq Existing(order)
    /\ \A o \in Billed : order[o].project_id \in BilledProjects
    /\ pc \in Billing => orders \cap Billed = {}

HierarchyInv == OrdersOnce /\ HierarchyAgrees

\* The orders a run lists for an account are all that can have a row.
AccountInv ==
    pc \in Billing =>
        /\ \A o \in orders \cup Billed : order[o].billing_account_id = acct
        /\ \A r \in order_spend :
              order[r.id].billing_account_id = acct => r.id \in orders \cup Billed

\* The leases of an order that begin before e, and their full cost from s to e.
KeysBefore(table, o, e) ==
    {k \in Existing(table) : table[k].order_id = o /\ table[k].create_time < e}

Cost(table, keys, s, e) == SumFunction([k \in keys |-> FullSpend(table[k], s, e)])

\* What a lease keeps from the moment a run reads it: all that its full cost
\* depends on.  The rows in memory are of different leases.
LeasesInStep ==
    /\ IsFiniteSet(Existing(lease))
    /\ \A k \in Existing(lease) : lease[k].id = k
    /\ \A l \in leases :
          /\ l.id \in KeysBefore(lease, ord, endTime)
          /\ lease[l.id].price_hr = l.price_hr
          /\ lease[l.id].create_time = l.create_time
    /\ \A l, q \in leases : l.id = q.id => l = q

\* The leases of the order in hand that have been added up.
Added == KeysBefore(lease, ord, endTime) \ {l.id : l \in leases}

RowsBelowCost(rows, table) ==
    \A r \in rows :
        r.spend <= Cost(table, KeysBefore(table, r.id, r.end_time),
                        r.start_time, r.end_time)

CostInv ==
    /\ LeasesInStep
    /\ pc = "leases" => orderSpend[ord] <= Cost(lease, Added, startTime, endTime)
    /\ RowsBelowCost(order_spend, lease)

-----------------------------------------------------------------------------
(* Initial states. *)

\* The empty database and the idle biller satisfy the invariant.
LEMMA InitIInv == Init => IInv
<1> SUFFICES ASSUME Init PROVE IInv
    OBVIOUS
<1> USE DEF Init, StoreInit
<1>1. MonthStart[0] = 0 /\ MonthStart[0] < MonthStart[0 + 1] /\ 0 \in MonthNumbers
    BY CalendarAssumption DEF MonthNumbers
<1>2. StoreInv
    BY <1>1 DEF StoreInv, StoreTypeOK, LedgerTypeOK, LeaseTimesOrdered,
       ReferentialIntegrity, KeysUnique, UniqueRows, Existing
<1>3. BillerTypeOK
    BY BillerAssumption DEF BillerTypeOK, Charging, Billing, NoSpend, SpendMap,
       Outcomes
<1>4. MemoryInStep /\ WindowsAreMonths /\ WrittenBottomUp
    BY DEF MemoryInStep, WindowsAreMonths, WrittenBottomUp, Charging, Billing
<1> QED BY <1>2, <1>3, <1>4 DEF IInv, RunInv

-----------------------------------------------------------------------------
(* The other clients. *)

\* What the other clients do leaves the spend tables and the run alone, keeps
\* accounts and orders, and only moves the clock forward.
LEMMA EnvironmentStep ==
    ASSUME StoreTypeOK, Environment
    PROVE  /\ Tick \/ TableStep
           /\ UNCHANGED <<ledger, billerVars>>
           /\ Existing(billing_account) \subseteq Existing(billing_account)'
           /\ \A o \in Existing(order) :
                o \in Existing(order)' /\ order'[o] = order[o]
           /\ now' >= now
<1>1. Tick \/ TableStep
    BY DEF Environment, TableStep, LeaseStatus
<1>2. UNCHANGED <<ledger, billerVars>>
    BY DEF Environment, Tick, CreateBillingAccount, DeleteProject, CreateProject,
       CreateOrder, CreateLease, EndLease
<1>3. Existing(billing_account) \subseteq Existing(billing_account)'
    BY NoNullRow DEF StoreTypeOK, Environment, Tick, CreateBillingAccount,
       DeleteProject, CreateProject, CreateOrder, CreateLease, EndLease, tables,
       Existing
<1>4. \A o \in Existing(order) : o \in Existing(order)' /\ order'[o] = order[o]
    BY DEF StoreTypeOK, Environment, Tick, CreateBillingAccount,
       DeleteProject, CreateProject, CreateOrder, CreateLease, EndLease, tables,
       Existing
<1>5. now' >= now
    BY <1>1, TickType, TableStepType DEF StoreTypeOK, clock
<1> QED BY <1>1, <1>2, <1>3, <1>4, <1>5

\* They preserve the invariant.
LEMMA EnvironmentInv ==
    ASSUME IInv, Environment
    PROVE  IInv'
<1> USE DEF IInv, StoreInv, RunInv
<1>1. /\ UNCHANGED <<ledger, billerVars>>
      /\ Existing(billing_account) \subseteq Existing(billing_account)'
      /\ \A o \in Existing(order) : o \in Existing(order)' /\ order'[o] = order[o]
      /\ now' >= now
    BY EnvironmentStep
<1>2. StoreInv'
    <2>1. CASE Tick
        <3>1. StoreTypeOK' /\ LeaseTimesOrdered' /\ UNCHANGED <<tables, ledger>>
            BY <2>1, TickType, TickTimes DEF Tick
        <3> QED BY <3>1 DEF LedgerTypeOK, ReferentialIntegrity, KeysUnique,
                Existing, tables, ledger
    <2>2. CASE TableStep
        <3>1. StoreTypeOK' /\ LeaseTimesOrdered' /\ ReferentialIntegrity'
            BY <2>2, TableStepType, TableStepTimes, TableStepReferences
        <3> QED BY <3>1, <1>1 DEF LedgerTypeOK, KeysUnique, ledger
    <2> QED BY <2>1, <2>2, EnvironmentStep
<1>3. BillerTypeOK'
    BY <1>1 DEF BillerTypeOK, billerVars, memory
<1>4. MemoryInStep'
    BY <1>1 DEF MemoryInStep, Billed, BilledProjects, billerVars, memory, Billing,
       Existing
<1>5. WindowsAreMonths'
    <2>1. now \in Nat /\ now' \in Nat
        BY <1>2 DEF StoreTypeOK
    <2>2. \A r \in billing_account_spend \cup project_spend \cup order_spend :
            r.start_time \in Nat
        BY DEF LedgerTypeOK, SpendRows
    <2>3. startTime \in Nat
        BY DEF BillerTypeOK
    <2> QED BY <1>1, <2>1, <2>2, <2>3
            DEF WindowsAreMonths, IsMonth, ledger, billerVars, memory
<1>6. pc \in Billing =>
        \A o \in Billed : o \in Existing(order) /\ order'[o] = order[o]
    BY <1>1 DEF MemoryInStep
<1>7. WrittenBottomUp'
    <2>1. pc \in {"leases", "project_spend"} => order'[ord] = order[ord]
        BY <1>6 DEF MemoryInStep, Billing
    <2> QED BY <1>1, <2>1 DEF WrittenBottomUp, Billed, BilledProjects, InWindow,
            ledger, billerVars, memory
<1> QED BY <1>2, <1>3, <1>4, <1>5, <1>7

-----------------------------------------------------------------------------
(* The run. *)

\* The store keeps its invariant while a step leaves it alone.
LEMMA StoreStutter ==
    ASSUME StoreInv, UNCHANGED storeVars
    PROVE  StoreInv'
BY DEF StoreInv, storeVars, clock, tables, ledger, StoreTypeOK, LedgerTypeOK,
       LeaseTimesOrdered, ReferentialIntegrity, KeysUnique, Existing

\* Rows keep their months while a step leaves store and window alone.
LEMMA RowsStutter ==
    ASSUME WindowsAreMonths, UNCHANGED storeVars,
           pc' \in Charging =>
                IsMonth(startTime', endTime') /\ startTime' <= now
    PROVE  WindowsAreMonths'
BY DEF WindowsAreMonths, storeVars, clock, ledger, IsMonth

\* A run that ends leaves nothing behind that could be wrong.
LEMMA LeaveInv ==
    ASSUME IInv, NEW result \in Outcomes, Leave(result),
           UNCHANGED storeVars, faults' \in 0 .. MaxFaults
    PROVE  IInv'
<1> USE DEF IInv, RunInv, Leave, Charging, Billing
<1>1. StoreInv'
    BY StoreStutter
<1>2. BillerTypeOK'
    BY DEF BillerTypeOK, NoSpend, SpendMap
<1>3. WindowsAreMonths'
    BY RowsStutter
<1>4. MemoryInStep' /\ WrittenBottomUp'
    BY DEF MemoryInStep, WrittenBottomUp, Existing
<1> QED BY <1>1, <1>2, <1>3, <1>4

\* The window of a run is not empty.
LEMMA WindowNotEmpty ==
    ASSUME NEW s, NEW e, IsMonth(s, e)
    PROVE  s \in Nat /\ e \in Nat /\ s < e
BY CalendarAssumption DEF IsMonth, MonthNumbers

\* A lease in memory costs a natural number.
LEMMA LeaseCost ==
    ASSUME IInv, NEW l \in leases, pc = "leases"
    PROVE  LeaseSpend(l, startTime, endTime) \in Nat
<1>1. IsMonth(startTime, endTime)
    BY DEF IInv, RunInv, WindowsAreMonths, Charging, Billing
<1>2. LeaseDuration(l, startTime, endTime) \in Nat
    BY <1>1, WindowNotEmpty, DurationBounds DEF IInv, RunInv, MemoryInStep
<1>3. l.price_hr \in Nat
    BY PricesAssumption DEF IInv, RunInv, BillerTypeOK, LeaseRow
<1> QED BY <1>2, <1>3 DEF LeaseSpend

\* Run lists the accounts.
LEMMA RunListAccountsInv == ASSUME IInv, RunListAccounts PROVE IInv'
<1> USE DEF IInv, RunInv, RunListAccounts, Charging, Billing
<1>1. StoreInv' /\ WindowsAreMonths'
    BY StoreStutter, RowsStutter
<1>2. ListAllBillingAccounts \subseteq Accounts
    BY DEF StoreInv, StoreTypeOK, ListAllBillingAccounts, Existing
<1>3. BillerTypeOK'
    BY <1>2 DEF BillerTypeOK
<1>4. MemoryInStep'
    BY DEF MemoryInStep, ListAllBillingAccounts, storeVars, tables, Existing
<1>5. WrittenBottomUp'
    BY DEF WrittenBottomUp
<1> QED BY <1>1, <1>3, <1>4, <1>5

\* Run sets the window.
LEMMA RunSetWindowInv == ASSUME IInv, RunSetWindow PROVE IInv'
<1> USE DEF IInv, RunInv, RunSetWindow, Charging, Billing
<1>1. StoreInv'
    BY StoreStutter
<1>2. month \in MonthNumbers /\ MonthStart[month] <= now
    BY DEF StoreInv, StoreTypeOK
<1>3. IsMonth(startTime', endTime')
    BY <1>2 DEF IsMonth
<1>4. WindowsAreMonths'
    BY <1>2, <1>3, RowsStutter
<1>5. BillerTypeOK'
    BY <1>3, WindowNotEmpty DEF BillerTypeOK
<1>6. MemoryInStep'
    BY DEF MemoryInStep, storeVars, tables, Existing
<1>7. WrittenBottomUp'
    BY DEF WrittenBottomUp
<1> QED BY <1>1, <1>4, <1>5, <1>6, <1>7

\* The next account is taken up.
LEMMA ListOrdersInv == ASSUME IInv, ListOrders PROVE IInv'
<1> USE DEF IInv, RunInv, ListOrders, Charging, Billing
<1>1. StoreInv'
    BY StoreStutter
<1>2. WindowsAreMonths'
    BY RowsStutter DEF WindowsAreMonths
<1>3. PICK a \in FirstAccounts :
        /\ acct' = a
        /\ accounts' = accounts \ {a}
        /\ orders' = ListOrdersByBillingAccountId(a)
    OBVIOUS
<1>4. a \in accounts /\ a \in Accounts
    BY <1>3 DEF FirstAccounts, BillerTypeOK
<1>5. orders' \subseteq Existing(order) /\ orders' \subseteq Orders
    BY <1>3 DEF ListOrdersByBillingAccountId, Existing, StoreInv, StoreTypeOK
<1>6. BillerTypeOK'
    BY <1>3, <1>4, <1>5 DEF BillerTypeOK, NoSpend, SpendMap
<1>7. Billed' = {} /\ BilledProjects' = {}
    BY DEF Billed, BilledProjects, NoSpend
<1>8. UNCHANGED <<order, billing_account>>
    BY DEF storeVars, tables
<1>9. MemoryInStep'
    BY <1>3, <1>4, <1>5, <1>7, <1>8 DEF MemoryInStep, Existing
<1>10. WrittenBottomUp'
    BY <1>7 DEF WrittenBottomUp
<1> QED BY <1>1, <1>2, <1>6, <1>9, <1>10

\* The next order is taken up: its leases are read, its entries made.
LEMMA ListLeasesInv == ASSUME IInv, ListLeases PROVE IInv'
<1> USE DEF IInv, RunInv, ListLeases, Charging, Billing
<1>1. StoreInv'
    BY StoreStutter
<1>2. WindowsAreMonths'
    BY RowsStutter DEF WindowsAreMonths
<1>3. UNCHANGED <<order, billing_account, lease, ledger>>
    BY DEF storeVars, tables
<1>4. PICK o \in orders :
        /\ ord' = o
        /\ orders' = orders \ {o}
        /\ projectSpend' = [projectSpend EXCEPT ![order[o].project_id] =
                                IF @ = NULL THEN 0 ELSE @]
        /\ orderSpend' = [orderSpend EXCEPT ![o] = 0]
        /\ leases' = ListLeasesForTimeRangeByOrderId(o, startTime, endTime)
    OBVIOUS
<1> DEFINE p == order[o].project_id
<1>5. o \in Orders /\ o \in Existing(order) /\ p \in Projects
    BY DEF BillerTypeOK, MemoryInStep, StoreInv, StoreTypeOK, Existing, OrderRow
<1>6. /\ orderSpend \in SpendMap(Orders) /\ orderSpend' \in SpendMap(Orders)
      /\ projectSpend \in SpendMap(Projects) /\ projectSpend' \in SpendMap(Projects)
      /\ acctSpend \in Nat
    BY <1>4, <1>5 DEF BillerTypeOK, SpendMap
<1>7. /\ Billed' = Billed \cup {o}
      /\ BilledProjects' = BilledProjects \cup {p}
      /\ o \in Orders /\ p \in Projects
    BY <1>4, <1>5, <1>6, NullAssumption DEF Billed, BilledProjects, SpendMap
<1>8. \A l \in leases' : /\ l \in LeaseRow /\ OrderedLease(l)
                         /\ InTimeRange(l, startTime, endTime)
    BY <1>4 DEF ListLeasesForTimeRangeByOrderId, StoreInv, StoreTypeOK,
       LeaseTimesOrdered, OrderedLease, Existing, LeaseRow
<1>9. BillerTypeOK'
    BY <1>4, <1>5, <1>6, <1>8 DEF BillerTypeOK
<1>10. MemoryInStep'
    BY <1>3, <1>4, <1>5, <1>7, <1>8 DEF MemoryInStep, Existing
<1>11. /\ orderSpend'[o] = 0
       /\ \A q \in Orders \ {o} : orderSpend'[q] = orderSpend[q]
       /\ projectSpend'[p] = IF projectSpend[p] = NULL THEN 0 ELSE projectSpend[p]
       /\ \A q \in Projects \ {p} : projectSpend'[q] = projectSpend[q]
    BY <1>4, <1>5, <1>6 DEF SpendMap
<1>12. WrittenBottomUp'
    <2>1. UNCHANGED <<order_spend, project_spend, startTime, endTime>>
        BY <1>3 DEF ledger
    <2>2. \A q \in Billed' \ {o} : q \in Billed /\ orderSpend'[q] = orderSpend[q]
        BY <1>7, <1>11 DEF Billed
    <2>3. \A q \in BilledProjects' \ {p} :
            q \in BilledProjects /\ projectSpend'[q] = projectSpend[q]
        BY <1>7, <1>11 DEF BilledProjects
    <2>4. order'[ord'].project_id = p
        BY <1>3, <1>4
    <2> QED BY <1>4, <2>1, <2>2, <2>3, <2>4 DEF WrittenBottomUp, InWindow
<1> QED BY <1>1, <1>2, <1>9, <1>10, <1>12

\* A lease is added to its order, its project and the account.
LEMMA AddLeaseInv == ASSUME IInv, AddLease PROVE IInv'
<1> USE DEF IInv, RunInv, AddLease, Charging, Billing
<1>1. StoreInv'
    BY StoreStutter
<1>2. WindowsAreMonths'
    BY RowsStutter DEF WindowsAreMonths
<1>3. UNCHANGED <<order, billing_account, ledger>>
    BY DEF storeVars, tables
<1>4. PICK l \in leases :
        LET x == LeaseSpend(l, startTime, endTime)
        IN  /\ leases' = leases \ {l}
            /\ orderSpend' = [orderSpend EXCEPT ![ord] = @ + x]
            /\ projectSpend' = [projectSpend EXCEPT ![order[ord].project_id] = @ + x]
            /\ acctSpend' = acctSpend + x
    OBVIOUS
<1> DEFINE x == LeaseSpend(l, startTime, endTime)
           p == order[ord].project_id
<1>5. x \in Nat
    BY LeaseCost
<1> HIDE DEF x
<1>6. /\ leases' = leases \ {l}
      /\ orderSpend' = [orderSpend EXCEPT ![ord] = @ + x]
      /\ projectSpend' = [projectSpend EXCEPT ![p] = @ + x]
      /\ acctSpend' = acctSpend + x
    BY <1>4 DEF x
<1>7. ord \in Billed /\ ord \in Orders /\ p \in BilledProjects /\ p \in Projects
    BY DEF MemoryInStep, Billed, BilledProjects
<1>8. /\ orderSpend \in SpendMap(Orders) /\ projectSpend \in SpendMap(Projects)
      /\ acctSpend \in Nat /\ orderSpend[ord] \in Nat /\ projectSpend[p] \in Nat
    BY <1>7 DEF BillerTypeOK, SpendMap, Billed, BilledProjects
<1>9. /\ orderSpend'[ord] = orderSpend[ord] + x
      /\ \A q \in Orders \ {ord} : orderSpend'[q] = orderSpend[q]
      /\ projectSpend'[p] = projectSpend[p] + x
      /\ \A q \in Projects \ {p} : projectSpend'[q] = projectSpend[q]
    BY <1>6, <1>7, <1>8 DEF SpendMap
<1>10. Billed' = Billed /\ BilledProjects' = BilledProjects
    BY <1>5, <1>7, <1>8, <1>9, NullAssumption DEF Billed, BilledProjects
<1>11. BillerTypeOK'
    <2>1. orderSpend' \in SpendMap(Orders) /\ projectSpend' \in SpendMap(Projects)
        <3>1. orderSpend[ord] + x \in Nat /\ projectSpend[p] + x \in Nat
            BY <1>5, <1>8
        <3>2. /\ orderSpend' = [orderSpend EXCEPT ![ord] = orderSpend[ord] + x]
              /\ projectSpend' = [projectSpend EXCEPT ![p] = projectSpend[p] + x]
            BY <1>6, Zenon
        <3> HIDE DEF p
        <3> QED BY <3>1, <3>2, <1>8 DEF SpendMap
    <2> QED BY <2>1, <1>5, <1>6, <1>8 DEF BillerTypeOK
<1>12. MemoryInStep'
    BY <1>3, <1>6, <1>10 DEF MemoryInStep, Existing
<1>13. WrittenBottomUp'
    BY <1>3, <1>9, <1>10
       DEF WrittenBottomUp, InWindow, ledger, Billed, BilledProjects
<1> QED BY <1>1, <1>2, <1>11, <1>12, <1>13

-----------------------------------------------------------------------------
(* The three writes, whether their answer arrives or not. *)

\* A write of the run with the amount it has in memory keeps the database in
\* order, and every row in a month that has begun.
LEMMA WriteStore ==
    ASSUME StoreInv, WindowsAreMonths, pc \in Charging, NEW spend \in Nat,
           \/ \E o \in Orders :
                CreateOrderSpend(NilUid, o, spend, startTime, endTime)
           \/ \E p \in Projects :
                CreateProjectSpend(NilUid, p, spend, startTime, endTime)
           \/ \E a \in Accounts :
                CreateBillingAccountSpend(NilUid, a, spend, startTime, endTime)
    PROVE  /\ StoreInv'
           /\ UNCHANGED <<clock, tables>>
           /\ \A r \in (billing_account_spend \cup project_spend \cup order_spend)' :
                IsMonth(r.start_time, r.end_time) /\ r.start_time <= now
<1> USE DEF StoreInv
<1>1. IsMonth(startTime, endTime) /\ startTime <= now
    BY DEF WindowsAreMonths
<1>2. startTime \in Nat /\ endTime \in Nat
    BY <1>1, WindowNotEmpty
<1>3. /\ LedgerTypeOK({NilUid})'
      /\ KeysUnique'
      /\ ReferentialIntegrity'
      /\ UNCHANGED <<clock, tables>>
    <2>1. \/ ChargeAccount(NilUid, spend, startTime, endTime)
          \/ ChargeProject(NilUid, spend, startTime, endTime)
          \/ ChargeOrder(NilUid, spend, startTime, endTime)
        BY DEF ChargeAccount, ChargeProject, ChargeOrder
    <2> QED BY <2>1, <1>2, ChargeStep
<1>4. StoreTypeOK' /\ LeaseTimesOrdered'
    BY <1>3 DEF StoreTypeOK, LeaseTimesOrdered, Existing, clock, tables
<1>5. ASSUME NEW ids, NEW table \in SUBSET SpendRows({NilUid}, ids),
             \A r \in table : IsMonth(r.start_time, r.end_time) /\ r.start_time <= now,
             NEW id
      PROVE  \A r \in Upsert(table, NilUid, id, spend, startTime, endTime) :
                IsMonth(r.start_time, r.end_time) /\ r.start_time <= now
    BY <1>1, <1>5, UpsertRows
<1>6. \A r \in billing_account_spend \cup project_spend \cup order_spend :
        IsMonth(r.start_time, r.end_time) /\ r.start_time <= now
    BY DEF WindowsAreMonths
<1>7. ASSUME NEW o \in Orders,
             CreateOrderSpend(NilUid, o, spend, startTime, endTime)
      PROVE  \A r \in (billing_account_spend \cup project_spend \cup order_spend)' :
                IsMonth(r.start_time, r.end_time) /\ r.start_time <= now
    BY <1>5, <1>6, <1>7 DEF CreateOrderSpend, LedgerTypeOK
<1>8. ASSUME NEW p \in Projects,
             CreateProjectSpend(NilUid, p, spend, startTime, endTime)
      PROVE  \A r \in (billing_account_spend \cup project_spend \cup order_spend)' :
                IsMonth(r.start_time, r.end_time) /\ r.start_time <= now
    BY <1>5, <1>6, <1>8 DEF CreateProjectSpend, LedgerTypeOK
<1>9. ASSUME NEW a \in Accounts,
             CreateBillingAccountSpend(NilUid, a, spend, startTime, endTime)
      PROVE  \A r \in (billing_account_spend \cup project_spend \cup order_spend)' :
                IsMonth(r.start_time, r.end_time) /\ r.start_time <= now
    BY <1>5, <1>6, <1>9 DEF CreateBillingAccountSpend, LedgerTypeOK
<1> QED BY <1>3, <1>4, <1>7, <1>8, <1>9

\* What the run writes is a natural number, for an id of the right kind.
LEMMA WriteArguments ==
    ASSUME IInv
    PROVE  /\ pc \in {"leases", "project_spend"} =>
                /\ ord \in Orders /\ ord \in Existing(order)
                /\ orderSpend[ord] \in Nat
                /\ order[ord].project_id \in Projects
                /\ projectSpend[order[ord].project_id] \in Nat
           /\ pc = "orders" => acct \in Accounts /\ acctSpend \in Nat
BY DEF IInv, StoreInv, StoreTypeOK, RunInv, BillerTypeOK, MemoryInStep, SpendMap,
       Billed, BilledProjects, Existing, Billing

\* The row of the order in hand is written.
LEMMA WriteOrderSpendInv == ASSUME IInv, WriteOrderSpend PROVE IInv'
<1> USE DEF IInv, RunInv, WriteOrderSpend, Charging, Billing
<1>1. CreateOrderSpend(NilUid, ord, orderSpend[ord], startTime, endTime)
    BY DEF OrderSpendStatement
<1>2. ord \in Orders /\ orderSpend[ord] \in Nat
    BY WriteArguments
<1>3. /\ StoreInv'
      /\ UNCHANGED <<clock, tables>>
      /\ \A r \in (billing_account_spend \cup project_spend \cup order_spend)' :
            IsMonth(r.start_time, r.end_time) /\ r.start_time <= now
    BY <1>1, <1>2, WriteStore
<1>4. WindowsAreMonths'
    BY <1>3 DEF WindowsAreMonths, memory, clock, IsMonth
<1>5. BillerTypeOK' /\ MemoryInStep'
    BY <1>3 DEF BillerTypeOK, MemoryInStep, memory, tables, Billed,
       BilledProjects, Existing
<1>6. WrittenBottomUp'
    <2>1. order_spend' = Upsert(order_spend, NilUid, ord, orderSpend[ord],
                                startTime, endTime)
        BY <1>1 DEF CreateOrderSpend
    <2>2. order_spend \in SUBSET SpendRows({NilUid}, Orders)
        BY DEF StoreInv, LedgerTypeOK
    <2>3. /\ \E r \in order_spend' : /\ r.id = ord /\ r.start_time = startTime
                                     /\ r.end_time = endTime
                                     /\ r.spend = orderSpend[ord]
          /\ \A r \in order_spend : r.id # ord => r \in order_spend'
        BY <2>1, <2>2, UpsertStores
    <2>4. project_spend' = project_spend
        BY <1>1 DEF CreateOrderSpend
    <2> QED BY <1>3, <2>3, <2>4 DEF WrittenBottomUp, InWindow, memory, tables,
            Billed, BilledProjects
<1> QED BY <1>3, <1>4, <1>5, <1>6

\* The row of its project is written.
LEMMA WriteProjectSpendInv == ASSUME IInv, WriteProjectSpend PROVE IInv'
<1> USE DEF IInv, RunInv, WriteProjectSpend, Charging, Billing
<1> DEFINE p == order[ord].project_id
<1>1. CreateProjectSpend(NilUid, p, projectSpend[p], startTime, endTime)
    BY DEF ProjectSpendStatement
<1>2. p \in Projects /\ projectSpend[p] \in Nat
    BY WriteArguments
<1>3. /\ StoreInv'
      /\ UNCHANGED <<clock, tables>>
      /\ \A r \in (billing_account_spend \cup project_spend \cup order_spend)' :
            IsMonth(r.start_time, r.end_time) /\ r.start_time <= now
    BY <1>1, <1>2, WriteStore
<1>4. WindowsAreMonths'
    BY <1>3 DEF WindowsAreMonths, memory, clock, IsMonth
<1>5. BillerTypeOK' /\ MemoryInStep'
    BY <1>3 DEF BillerTypeOK, MemoryInStep, memory, tables, Billed,
       BilledProjects, Existing
<1>6. WrittenBottomUp'
    <2>1. project_spend' = Upsert(project_spend, NilUid, p, projectSpend[p],
                                  startTime, endTime)
        BY <1>1 DEF CreateProjectSpend
    <2>2. project_spend \in SUBSET SpendRows({NilUid}, Projects)
        BY DEF StoreInv, LedgerTypeOK
    <2>3. /\ \E r \in project_spend' : /\ r.id = p /\ r.start_time = startTime
                                       /\ r.end_time = endTime
                                       /\ r.spend = projectSpend[p]
          /\ \A r \in project_spend : r.id # p => r \in project_spend'
        BY <2>1, <2>2, UpsertStores
    <2>4. order_spend' = order_spend
        BY <1>1 DEF CreateProjectSpend
    <2> QED BY <1>3, <2>3, <2>4 DEF WrittenBottomUp, InWindow, memory, tables,
            Billed, BilledProjects
<1> QED BY <1>3, <1>4, <1>5, <1>6

\* The row of the account is written.
LEMMA WriteAccountSpendInv == ASSUME IInv, WriteAccountSpend PROVE IInv'
<1> USE DEF IInv, RunInv, WriteAccountSpend, Charging, Billing
<1>1. CreateBillingAccountSpend(NilUid, acct, acctSpend, startTime, endTime)
    BY DEF AccountSpendStatement
<1>2. acct \in Accounts /\ acctSpend \in Nat
    BY WriteArguments
<1>3. /\ StoreInv'
      /\ UNCHANGED <<clock, tables>>
      /\ \A r \in (billing_account_spend \cup project_spend \cup order_spend)' :
            IsMonth(r.start_time, r.end_time) /\ r.start_time <= now
    BY <1>1, <1>2, WriteStore
<1>4. WindowsAreMonths'
    BY <1>3 DEF WindowsAreMonths, memory, clock, IsMonth
<1>5. BillerTypeOK' /\ MemoryInStep'
    BY <1>3 DEF BillerTypeOK, MemoryInStep, memory, tables, Existing
<1>6. WrittenBottomUp'
    BY DEF WrittenBottomUp
<1> QED BY <1>3, <1>4, <1>5, <1>6

-----------------------------------------------------------------------------
(* Steps that end a run. *)

\* A fault is only taken while there are some left.
LEMMA FaultIsCounted ==
    ASSUME faults \in 0 .. MaxFaults, Fault
    PROVE  faults' \in 0 .. MaxFaults
BY BillerAssumption DEF Fault

\* Returning, a refused write, a failed sum, a failed call and a crash.
LEMMA EndOfRunInv ==
    ASSUME IInv,
           \/ RunReturn \/ AddLeaseFails
           \/ RefuseOrderSpend \/ RefuseProjectSpend \/ RefuseAccountSpend
           \/ ListAccountsFails \/ CallFails \/ Crash
    PROVE  IInv'
<1>1. PICK result \in Outcomes : Leave(result)
    BY DEF RunReturn, AddLeaseFails, RefuseOrderSpend, RefuseProjectSpend,
       RefuseAccountSpend, ListAccountsFails, CallFails, Crash, Outcomes, Swallowed
<1>2. UNCHANGED storeVars
    BY DEF RunReturn, AddLeaseFails, RefuseOrderSpend, RefuseProjectSpend,
       RefuseAccountSpend, ListAccountsFails, CallFails, Crash
<1>3. faults' = faults \/ Fault
    BY DEF RunReturn, AddLeaseFails, RefuseOrderSpend, RefuseProjectSpend,
       RefuseAccountSpend, ListAccountsFails, CallFails, Crash
<1>4. faults' \in 0 .. MaxFaults
    BY <1>3, FaultIsCounted DEF IInv, RunInv, BillerTypeOK
<1> QED BY <1>1, <1>2, <1>4, LeaveInv

\* A write whose answer is lost.
LEMMA AnswerLostInv == ASSUME IInv, AnswerLost PROVE IInv'
<1> USE DEF IInv, RunInv, Charging, Billing
<1>1. /\ Leave("query failed")
      /\ faults' \in 0 .. MaxFaults
    BY FaultIsCounted DEF AnswerLost, BillerTypeOK
<1>2. PICK spend \in Nat :
        \/ \E o \in Orders :
                CreateOrderSpend(NilUid, o, spend, startTime, endTime)
        \/ \E p \in Projects :
                CreateProjectSpend(NilUid, p, spend, startTime, endTime)
        \/ \E a \in Accounts :
                CreateBillingAccountSpend(NilUid, a, spend, startTime, endTime)
    BY WriteArguments DEF AnswerLost, OrderSpendStatement, ProjectSpendStatement,
       AccountSpendStatement
<1>3. pc \in Charging
    BY DEF AnswerLost
<1>4. /\ StoreInv'
      /\ UNCHANGED <<clock, tables>>
      /\ \A r \in (billing_account_spend \cup project_spend \cup order_spend)' :
            IsMonth(r.start_time, r.end_time) /\ r.start_time <= now
    BY <1>2, <1>3, WriteStore
<1>5. WindowsAreMonths'
    BY <1>1, <1>4 DEF WindowsAreMonths, clock, Leave, IsMonth
<1>6. BillerTypeOK'
    BY <1>1 DEF BillerTypeOK, Leave, NoSpend, SpendMap, Outcomes, Swallowed
<1>7. MemoryInStep' /\ WrittenBottomUp'
    BY <1>1 DEF MemoryInStep, WrittenBottomUp, Leave, Existing
<1> QED BY <1>4, <1>5, <1>6, <1>7

\* A step that changes nothing.
LEMMA StutterInv == ASSUME IInv, UNCHANGED vars PROVE IInv'
<1>1. StoreInv'
    BY StoreStutter DEF IInv, vars
<1>2. RunInv' /\ WrittenBottomUp'
    BY DEF IInv, vars, storeVars, clock, tables, ledger, billerVars, memory, RunInv,
       BillerTypeOK, MemoryInStep, WindowsAreMonths, WrittenBottomUp, Billed,
       BilledProjects, InWindow, Existing, IsMonth
<1> QED BY <1>1, <1>2 DEF IInv

\* IInv is inductive.
LEMMA NextIInv == IInv /\ [Next]_vars => IInv'
<1> SUFFICES ASSUME IInv, [Next]_vars PROVE IInv'
    OBVIOUS
<1>1. CASE Run
    BY <1>1, RunListAccountsInv, RunSetWindowInv, EndOfRunInv DEF Run
<1>2. CASE CalculateDemandSpend
    BY <1>2, ListOrdersInv, ListLeasesInv, AddLeaseInv, WriteOrderSpendInv,
       WriteProjectSpendInv, WriteAccountSpendInv, EndOfRunInv
       DEF CalculateDemandSpend
<1>3. CASE Faulty
    BY <1>3, EndOfRunInv, AnswerLostInv DEF Faulty
<1>4. CASE Environment
    BY <1>4, EnvironmentInv
<1>5. CASE UNCHANGED vars
    BY <1>5, StutterInv
<1> QED BY <1>1, <1>2, <1>3, <1>4, <1>5 DEF Next

\* The invariant holds in every behaviour.
LEMMA SpecIInv == Spec => []IInv
BY InitIInv, NextIInv, PTL DEF Spec

-----------------------------------------------------------------------------
(* The three sums of a run agree. *)

\* Steps that leave the sums alone, and the orders added up so far.
LEMMA HierarchyKept ==
    ASSUME HierarchyInv, UNCHANGED <<orderSpend, projectSpend, acctSpend>>,
           \A o \in Existing(order) : o \in Existing(order)' /\ order'[o] = order[o],
           pc' \in Billing => pc \in Billing /\ orders' = orders
    PROVE  HierarchyInv'
<1> USE DEF HierarchyInv
<1>1. Billed' = Billed /\ BilledProjects' = BilledProjects
    BY DEF Billed, BilledProjects
<1>2. \A o \in Billed : o \in Existing(order)' /\ order'[o] = order[o]
    BY DEF OrdersOnce
<1>3. OrdersOnce'
    BY <1>1, <1>2 DEF OrdersOnce
<1>4. \A p : {o \in Billed : order'[o].project_id = p}
                = {o \in Billed : order[o].project_id = p}
    BY <1>2
<1>5. HierarchyAgrees'
    BY <1>1, <1>4 DEF HierarchyAgrees
<1> QED BY <1>3, <1>5

\* Steps that start the sums afresh.
LEMMA HierarchyReset ==
    ASSUME orderSpend' = NoSpend(Orders), projectSpend' = NoSpend(Projects),
           acctSpend' = 0
    PROVE  HierarchyInv'
<1>1. Billed' = {} /\ BilledProjects' = {}
    BY DEF Billed, BilledProjects, NoSpend
<1>2. SumFunctionOnSet(orderSpend', {}) = 0
    BY SumEmpty
<1>3. IsFiniteSet({})
    BY FS_EmptySet
<1> QED BY <1>1, <1>2, <1>3 DEF HierarchyInv, OrdersOnce, HierarchyAgrees

\* An order is taken up: nothing is added yet.
LEMMA HierarchyListLeases ==
    ASSUME IInv, HierarchyInv, ListLeases PROVE HierarchyInv'
<1> USE DEF IInv, RunInv, HierarchyInv, ListLeases, Billing
<1>1. UNCHANGED <<order, acctSpend>>
    BY DEF storeVars, tables
<1>2. PICK o \in orders :
        /\ ord' = o
        /\ orders' = orders \ {o}
        /\ projectSpend' = [projectSpend EXCEPT ![order[o].project_id] =
                                IF @ = NULL THEN 0 ELSE @]
        /\ orderSpend' = [orderSpend EXCEPT ![o] = 0]
    OBVIOUS
<1> DEFINE p == order[o].project_id
           Of(q) == {k \in Billed : order[k].project_id = q}
<1>3. /\ o \in Orders /\ o \in Existing(order) /\ p \in Projects
      /\ o \notin Billed
    BY DEF BillerTypeOK, MemoryInStep, StoreInv, StoreTypeOK, Existing, OrderRow,
       OrdersOnce
<1>4. orderSpend \in SpendMap(Orders) /\ projectSpend \in SpendMap(Projects)
    BY DEF BillerTypeOK
<1>5. /\ orderSpend'[o] = 0
      /\ \A q \in Orders \ {o} : orderSpend'[q] = orderSpend[q]
      /\ projectSpend'[p] = IF projectSpend[p] = NULL THEN 0 ELSE projectSpend[p]
      /\ \A q \in Projects \ {p} : projectSpend'[q] = projectSpend[q]
    BY <1>2, <1>3, <1>4 DEF SpendMap
<1>6. Billed' = Billed \cup {o} /\ BilledProjects' = BilledProjects \cup {p}
    BY <1>3, <1>5, NullAssumption DEF Billed, BilledProjects
<1>7. /\ IsFiniteSet(Billed) /\ IsFiniteSet(Billed')
      /\ \A k \in Billed : orderSpend[k] \in Nat /\ orderSpend'[k] = orderSpend[k]
    BY <1>3, <1>4, <1>5, <1>6, FS_AddElement DEF OrdersOnce, Billed, SpendMap
<1>8. OrdersOnce'
    BY <1>1, <1>2, <1>3, <1>6, <1>7 DEF OrdersOnce, Existing
<1>9. ASSUME NEW S \in SUBSET Billed
      PROVE  /\ SumFunctionOnSet(orderSpend', S) = SumFunctionOnSet(orderSpend, S)
             /\ SumFunctionOnSet(orderSpend', S \cup {o})
                    = SumFunctionOnSet(orderSpend, S)
    <2>1. /\ IsFiniteSet(S) /\ o \notin S /\ orderSpend'[o] \in Nat
          /\ \A k \in S : orderSpend[k] \in Nat /\ orderSpend'[k] \in Nat
          /\ \A k \in S : orderSpend'[k] = orderSpend[k]
        BY <1>3, <1>5, <1>7, FS_Subset
    <2>2. SumFunctionOnSet(orderSpend', S) = SumFunctionOnSet(orderSpend, S)
        BY <2>1, SumSame
    <2>3. SumFunctionOnSet(orderSpend', S \cup {o})
            = orderSpend'[o] + SumFunctionOnSet(orderSpend', S)
        BY <2>1, SumAdd
    <2>4. SumFunctionOnSet(orderSpend, S) \in Nat
        BY <2>1, SumNat
    <2> QED BY <2>2, <2>3, <2>4, <1>5
<1>10. acctSpend' = SumFunctionOnSet(orderSpend', Billed')
    BY <1>1, <1>6, <1>9 DEF HierarchyAgrees
<1>11. ASSUME NEW q \in BilledProjects'
       PROVE  projectSpend'[q]
                = SumFunctionOnSet(orderSpend',
                                   {k \in Billed' : order[k].project_id = q})
    <2>1. {k \in Billed' : order[k].project_id = q}
            = IF q = p THEN Of(q) \cup {o} ELSE Of(q)
        BY <1>6
    <2>2. SumFunctionOnSet(orderSpend', {k \in Billed' : order[k].project_id = q})
            = SumFunctionOnSet(orderSpend, Of(q))
        <3>1. Of(q) \in SUBSET Billed
            OBVIOUS
        <3> HIDE DEF Of
        <3> QED BY <1>9, <2>1, <3>1
    <2>3. CASE q \in BilledProjects
        BY <1>5, <2>2, <2>3 DEF HierarchyAgrees, BilledProjects
    <2>4. CASE q \notin BilledProjects
        <3>1. q = p /\ projectSpend'[q] = 0
            BY <1>3, <1>5, <1>6, <2>4 DEF BilledProjects
        <3>2. Of(q) = {}
            BY <2>4 DEF OrdersOnce
        <3>3. SumFunctionOnSet(orderSpend, {}) = 0
            BY SumEmpty
        <3> QED BY <2>2, <3>1, <3>2, <3>3
    <2> QED BY <2>3, <2>4
<1> QED BY <1>1, <1>8, <1>10, <1>11 DEF HierarchyAgrees

\* A lease is added to its order, and with it to the sums over the orders of
\* its project and over all orders.
LEMMA HierarchyAddLease ==
    ASSUME IInv, HierarchyInv, AddLease PROVE HierarchyInv'
<1> USE DEF IInv, RunInv, HierarchyInv, AddLease, Billing
<1>1. UNCHANGED <<order, orders, pc>>
    BY DEF storeVars, tables
<1>2. PICK x \in Nat :
        /\ orderSpend' = [orderSpend EXCEPT ![ord] = @ + x]
        /\ projectSpend' = [projectSpend EXCEPT ![order[ord].project_id] = @ + x]
        /\ acctSpend' = acctSpend + x
    BY LeaseCost
<1> DEFINE p == order[ord].project_id
<1>3. ord \in Billed /\ p \in BilledProjects
    BY DEF MemoryInStep
<1>4. orderSpend \in SpendMap(Orders) /\ projectSpend \in SpendMap(Projects)
    BY DEF BillerTypeOK
<1>5. /\ orderSpend'[ord] = orderSpend[ord] + x
      /\ \A q \in Orders \ {ord} : orderSpend'[q] = orderSpend[q]
      /\ projectSpend'[p] = projectSpend[p] + x
      /\ \A q \in Projects \ {p} : projectSpend'[q] = projectSpend[q]
    BY <1>2, <1>3, <1>4 DEF SpendMap, Billed, BilledProjects
<1>6. /\ \A k \in Billed : k \in Orders /\ orderSpend[k] \in Nat
      /\ \A q \in BilledProjects : q \in Projects /\ projectSpend[q] \in Nat
    BY <1>4 DEF Billed, BilledProjects, SpendMap
<1>7. Billed' = Billed /\ BilledProjects' = BilledProjects
    BY <1>3, <1>5, <1>6, NullAssumption DEF Billed, BilledProjects
<1>8. OrdersOnce'
    BY <1>1, <1>7 DEF OrdersOnce, Existing
<1>9. ASSUME NEW S \in SUBSET Billed
      PROVE  SumFunctionOnSet(orderSpend', S)
                = IF ord \in S THEN SumFunctionOnSet(orderSpend, S) + x
                  ELSE SumFunctionOnSet(orderSpend, S)
    <2>1. IsFiniteSet(S) /\ \A k \in S : orderSpend[k] \in Nat
        BY <1>6, FS_Subset DEF OrdersOnce
    <2>2. \A k \in S \ {ord} : orderSpend'[k] = orderSpend[k]
        BY <1>5, <1>6
    <2>3. CASE ord \in S
        <3>1. Grows(orderSpend, orderSpend', S, ord, x)
            BY <1>5, <2>1, <2>2, <2>3 DEF Grows
        <3>2. SumFunctionOnSet(orderSpend', S) = SumFunctionOnSet(orderSpend, S) + x
            BY <3>1, SumGrows
        <3> QED BY <2>3, <3>2
    <2>4. CASE ord \notin S
        BY <2>2, <2>4, SumSame
    <2> QED BY <2>3, <2>4
<1>10. acctSpend' = SumFunctionOnSet(orderSpend', Billed')
    BY <1>2, <1>3, <1>7, <1>9 DEF HierarchyAgrees
<1>11. ASSUME NEW q \in BilledProjects
       PROVE  projectSpend'[q]
                = SumFunctionOnSet(orderSpend',
                                   {k \in Billed : order[k].project_id = q})
    <2> DEFINE S == {k \in Billed : order[k].project_id = q}
    <2>1. S \in SUBSET Billed /\ (ord \in S <=> q = p)
        BY <1>3
    <2>2. projectSpend[q] = SumFunctionOnSet(orderSpend, S)
        BY DEF HierarchyAgrees
    <2>3. projectSpend'[q] = IF q = p THEN projectSpend[q] + x ELSE projectSpend[q]
        BY <1>5, <1>6
    <2> HIDE DEF S, p
    <2>4. projectSpend'[q] = SumFunctionOnSet(orderSpend', S)
        BY <1>9, <2>1, <2>2, <2>3
    <2> QED BY <2>4 DEF S
<1> QED BY <1>1, <1>7, <1>8, <1>10, <1>11 DEF HierarchyAgrees

\* HierarchyInv is preserved by every step.
LEMMA NextHierarchy ==
    ASSUME IInv, HierarchyInv, [Next]_vars PROVE HierarchyInv'
<1>1. CASE RunListAccounts \/ RunSetWindow
    BY <1>1, HierarchyKept DEF RunListAccounts, RunSetWindow, storeVars, tables,
       Existing, Billing
<1>2. CASE \E result : Leave(result)
    BY <1>2, HierarchyReset DEF Leave
<1>3. CASE ListOrders
    BY <1>3, HierarchyReset DEF ListOrders
<1>4. CASE WriteOrderSpend \/ WriteProjectSpend \/ WriteAccountSpend
    BY <1>4, HierarchyKept DEF WriteOrderSpend, WriteProjectSpend,
       WriteAccountSpend, OrderSpendStatement, ProjectSpendStatement,
       AccountSpendStatement, CreateOrderSpend, CreateProjectSpend,
       CreateBillingAccountSpend, memory, tables, Existing, Billing
<1>5. CASE Environment
    BY <1>5, HierarchyKept, EnvironmentStep DEF IInv, StoreInv, billerVars, memory
<1>6. CASE UNCHANGED vars
    BY <1>6, HierarchyKept DEF vars, storeVars, tables, billerVars, memory, Existing
<1>7. CASE ListLeases \/ AddLease
    BY <1>7, HierarchyListLeases, HierarchyAddLease
<1> QED BY <1>1, <1>2, <1>3, <1>4, <1>5, <1>6, <1>7 DEF Next, Run,
        CalculateDemandSpend, Faulty, RunReturn, AddLeaseFails, RefuseOrderSpend,
        RefuseProjectSpend, RefuseAccountSpend, ListAccountsFails, CallFails,
        AnswerLost, Crash

-----------------------------------------------------------------------------
(* The row of an account and the rows of its orders. *)

\* Adding a lease takes up no order.
LEMMA AddLeaseBilled ==
    ASSUME IInv, AddLease PROVE Billed' = Billed
<1>1. PICK x \in Nat : orderSpend' = [orderSpend EXCEPT ![ord] = @ + x]
    BY LeaseCost DEF AddLease
<1>2. orderSpend \in SpendMap(Orders) /\ ord \in Billed
    BY DEF IInv, RunInv, BillerTypeOK, MemoryInStep, AddLease
<1> QED BY <1>1, <1>2, NullAssumption DEF Billed, SpendMap

\* AccountInv is preserved by every step.
LEMMA NextAccount ==
    ASSUME IInv, AccountInv, [Next]_vars PROVE AccountInv'
<1> USE DEF IInv, RunInv, Billing
<1>1. CASE RunListAccounts \/ RunSetWindow \/ WriteAccountSpend
    BY <1>1 DEF RunListAccounts, RunSetWindow, WriteAccountSpend, AccountInv
<1>2. CASE \E result : Leave(result)
    BY <1>2 DEF Leave, AccountInv
<1>3. CASE ListOrders
    <2>1. PICK a \in FirstAccounts :
            acct' = a /\ orders' = ListOrdersByBillingAccountId(a)
        BY <1>3 DEF ListOrders
    <2>2. Billed' = {} /\ UNCHANGED <<order, order_spend>>
        BY <1>3 DEF ListOrders, Billed, NoSpend, storeVars, tables, ledger
    <2>3. \A r \in order_spend : r.id \in Existing(order)
        BY DEF StoreInv, ReferentialIntegrity
    <2> QED BY <2>1, <2>2, <2>3 DEF AccountInv, ListOrdersByBillingAccountId
<1>4. CASE ListLeases
    <2>1. UNCHANGED <<order, order_spend, acct>> /\ pc \in Billing
        BY <1>4 DEF ListLeases, storeVars, tables, ledger
    <2>2. PICK o \in orders :
            /\ orders' = orders \ {o}
            /\ orderSpend' = [orderSpend EXCEPT ![o] = 0]
        BY <1>4 DEF ListLeases
    <2>3. Billed' = Billed \cup {o}
        BY <2>2, NullAssumption DEF BillerTypeOK, Billed, SpendMap
    <2>4. orders' \cup Billed' = orders \cup Billed
        BY <2>2, <2>3
    <2> QED BY <2>1, <2>4 DEF AccountInv
<1>5. CASE AddLease
    <2>1. UNCHANGED <<order, order_spend, acct, orders>> /\ pc \in Billing
        BY <1>5 DEF AddLease, storeVars, tables, ledger
    <2> QED BY <1>5, <2>1, AddLeaseBilled DEF AccountInv
<1>6. CASE WriteOrderSpend
    <2>1. CreateOrderSpend(NilUid, ord, orderSpend[ord], startTime, endTime)
        BY <1>6 DEF WriteOrderSpend, OrderSpendStatement
    <2>2. /\ UNCHANGED <<order, acct, orders, orderSpend>>
          /\ pc \in Billing /\ ord \in Billed
        BY <1>6, <2>1 DEF WriteOrderSpend, CreateOrderSpend, memory, tables,
           MemoryInStep
    <2>3. order_spend \in SUBSET SpendRows({NilUid}, Orders)
        BY DEF StoreInv, LedgerTypeOK
    <2>4. order_spend' = Upsert(order_spend, NilUid, ord, orderSpend[ord],
                                startTime, endTime)
        BY <2>1 DEF CreateOrderSpend
    <2>5. \A r \in order_spend' : r.id \in {ord} \cup {q.id : q \in order_spend}
        BY <2>3, <2>4, UpsertIds
    <2> QED BY <2>2, <2>5 DEF AccountInv, Billed
<1>7. CASE WriteProjectSpend
    BY <1>7 DEF WriteProjectSpend, ProjectSpendStatement, CreateProjectSpend,
       memory, tables, AccountInv, Billed
<1>8. CASE Environment
    <2>1. /\ UNCHANGED <<order_spend, pc, acct, orders, orderSpend>>
          /\ \A o \in Existing(order) : order'[o] = order[o]
        BY <1>8, EnvironmentStep DEF StoreInv, ledger, billerVars, memory
    <2>2. \A r \in order_spend : r.id \in Existing(order)
        BY DEF StoreInv, ReferentialIntegrity
    <2>3. pc \in Billing => orders \cup Billed \subseteq Existing(order)
        BY DEF MemoryInStep
    <2> QED BY <2>1, <2>2, <2>3 DEF AccountInv, Billed
<1>9. CASE UNCHANGED vars
    BY <1>9 DEF vars, storeVars, tables, ledger, billerVars, memory, AccountInv,
       Billed
<1> QED BY <1>1, <1>2, <1>3, <1>4, <1>5, <1>6, <1>7, <1>8, <1>9 DEF Next, Run,
        CalculateDemandSpend, Faulty, RunReturn, AddLeaseFails, RefuseOrderSpend,
        RefuseProjectSpend, RefuseAccountSpend, ListAccountsFails, CallFails,
        AnswerLost, Crash

\* When a run comes to the row of an account, the rows of the orders of that
\* account for the window add up to what the run has in memory.  Nothing here
\* rests on a table holding one row: it would hold with proper primary keys.
LEMMA RowsAddUp ==
    ASSUME IInv, HierarchyInv, AccountInv, pc = "orders", orders = {}
    PROVE  acctSpend = SumFunction([q \in OrderRows(acct, startTime, endTime)
                                        |-> q.spend])
<1> USE DEF IInv, RunInv, Billing
<1> DEFINE R == OrderRows(acct, startTime, endTime)
           g == [q \in R |-> q.spend]
           m == [q \in R |-> q.id]
<1>1. \A o \in Billed : orderSpend[o] \in Nat /\ order[o].billing_account_id = acct
    BY DEF BillerTypeOK, SpendMap, Billed, AccountInv
<1>2. \A o \in Billed : \E r \in R : r.id = o /\ r.spend = orderSpend[o]
    BY <1>1 DEF WrittenBottomUp, OrderRows
<1>3. \A r, q \in R : r.id = q.id => r = q
    BY DEF OrderRows, InWindow, StoreInv, KeysUnique, UniqueRows
<1>4. \A r \in R : r.id \in Billed
    BY DEF AccountInv, OrderRows
<1>5. \A r \in R : r.spend = orderSpend[r.id]
    BY <1>2, <1>3, <1>4
<1> HIDE DEF R
<1>6. Matches(orderSpend, Billed, g, R, m)
    BY <1>2, <1>3, <1>4, <1>5 DEF Matches
<1>7. SumFunctionOnSet(g, R) = SumFunctionOnSet(orderSpend, Billed)
    BY <1>1, <1>6, SumReindex DEF HierarchyInv, OrdersOnce
<1>8. SumFunction(g) = SumFunctionOnSet(g, R)
    BY DEF SumFunction
<1> QED BY <1>7, <1>8 DEF HierarchyInv, HierarchyAgrees, R

\* A row of an account that is new or changed is written with what is in memory.
LEMMA NewAccountRow ==
    ASSUME IInv, [Next]_vars,
           NEW r \in billing_account_spend' \ billing_account_spend
    PROVE  /\ pc = "orders" /\ orders = {}
           /\ r.id = acct /\ r.start_time = startTime /\ r.end_time = endTime
           /\ r.spend = acctSpend
<1>1. pc = "orders" /\ orders = {} /\ AccountSpendStatement
    <2>1. CASE Run
        BY <2>1 DEF Run, RunListAccounts, RunSetWindow, RunReturn, storeVars, ledger
    <2>2. CASE CalculateDemandSpend
        BY <2>2 DEF CalculateDemandSpend, ListOrders, ListLeases, AddLease,
           AddLeaseFails, WriteOrderSpend, WriteProjectSpend, WriteAccountSpend,
           RefuseOrderSpend, RefuseProjectSpend, RefuseAccountSpend,
           OrderSpendStatement, ProjectSpendStatement, CreateOrderSpend,
           CreateProjectSpend, storeVars, ledger
    <2>3. CASE Faulty
        BY <2>3 DEF Faulty, ListAccountsFails, CallFails, AnswerLost, Crash,
           OrderSpendStatement, ProjectSpendStatement, CreateOrderSpend,
           CreateProjectSpend, storeVars, ledger
    <2>4. CASE Environment
        BY <2>4, EnvironmentStep DEF IInv, StoreInv, ledger
    <2>5. CASE UNCHANGED vars
        BY <2>5 DEF vars, storeVars, ledger
    <2> QED BY <2>1, <2>2, <2>3, <2>4, <2>5 DEF Next
<1>2. billing_account_spend \in SUBSET SpendRows({NilUid}, Accounts)
    BY DEF IInv, StoreInv, LedgerTypeOK
<1> QED BY <1>1, <1>2, UpsertNew DEF AccountSpendStatement, CreateBillingAccountSpend

-----------------------------------------------------------------------------
(* No order is charged more than the full cost of its leases. *)

\* The greater of two numbers.
LEMMA MaxOfTwo ==
    ASSUME NEW a \in Nat, NEW b \in Nat
    PROVE  Max({a, b}) = IF a >= b THEN a ELSE b
BY DEF Max

\* The full cost of a lease is a natural number.
LEMMA FullSpendIsNat ==
    ASSUME NEW l, l.price_hr \in Nat, l.create_time \in Nat,
           NEW s \in Nat, NEW e \in Nat, s < e, l.create_time < e
    PROVE  FullSpend(l, s, e) \in Nat
<1> DEFINE d == e - 1 - Max({l.create_time, s})
<1>1. d \in Nat
    BY MaxOfTwo
<1> HIDE DEF d
<1>2. l.price_hr * d \in Nat
    BY <1>1
<1> QED BY <1>2 DEF FullSpend, d

\* No lease costs more than its full cost.
LEMMA LeaseBelowFull ==
    ASSUME NEW l, OrderedLease(l), l.price_hr \in Nat,
           NEW s \in Nat, NEW e \in Nat, s < e, InTimeRange(l, s, e)
    PROVE  LeaseSpend(l, s, e) <= FullSpend(l, s, e)
<1> DEFINE d == LeaseDuration(l, s, e)
           f == e - 1 - Max({l.create_time, s})
<1>1. d \in Nat /\ f \in Int /\ d <= f
    <2>1. d \in Nat
        BY DurationBounds
    <2>2. l.create_time \in Nat
        BY DEF OrderedLease
    <2>3. LeaseStartTime(l, s) = Max({l.create_time, s})
        BY <2>2, MaxOfTwo DEF LeaseStartTime
    <2>4. LeaseEndTime(l, e) \in Int /\ LeaseEndTime(l, e) <= e - 1
        BY DEF LeaseEndTime, OrderedLease
    <2>5. Max({l.create_time, s}) \in Nat
        BY <2>2, MaxOfTwo
    <2> QED BY <2>1, <2>3, <2>4, <2>5 DEF LeaseDuration
<1> HIDE DEF d, f
<1>2. l.price_hr * d <= l.price_hr * f
    BY <1>1
<1> QED BY <1>2 DEF LeaseSpend, FullSpend, d, f

\* The cost of leases that are the same in what the cost depends on.
LEMMA CostSame ==
    ASSUME NEW table, NEW other, NEW keys, NEW s, NEW e,
           \A k \in keys : /\ table[k].price_hr = other[k].price_hr
                           /\ table[k].create_time = other[k].create_time
    PROVE  Cost(table, keys, s, e) = Cost(other, keys, s, e)
<1>1. \A k \in keys : FullSpend(table[k], s, e) = FullSpend(other[k], s, e)
    BY DEF FullSpend
<1>2. [k \in keys |-> FullSpend(table[k], s, e)]
        = [k \in keys |-> FullSpend(other[k], s, e)]
    BY <1>1
<1> QED BY <1>2, Zenon DEF Cost

\* What is added up of a table of leases can be.
Summable(table, keys, s, e) ==
    /\ IsFiniteSet(keys)
    /\ s \in Nat /\ e \in Nat /\ s < e
    /\ \A k \in keys : /\ table[k].price_hr \in Nat
                       /\ table[k].create_time \in Nat
                       /\ table[k].create_time < e

\* The cost is a natural number.
LEMMA CostIsNat ==
    ASSUME NEW table, NEW keys, NEW s, NEW e, Summable(table, keys, s, e)
    PROVE  Cost(table, keys, s, e) \in Nat
<1> DEFINE f == [k \in keys |-> FullSpend(table[k], s, e)]
<1>1. \A k \in keys : f[k] \in Nat
    BY FullSpendIsNat DEF Summable
<1>2. SumFunction(f) = SumFunctionOnSet(f, keys)
    BY DEF SumFunction
<1>3. IsFiniteSet(keys)
    BY DEF Summable
<1> HIDE DEF f
<1>4. SumFunctionOnSet(f, keys) \in Nat
    BY <1>1, <1>3, SumNat
<1> QED BY <1>2, <1>4 DEF Cost, f

\* One more lease adds its full cost.
LEMMA CostAdd ==
    ASSUME NEW table, NEW keys, NEW s, NEW e, NEW x, x \notin keys,
           Summable(table, keys \cup {x}, s, e)
    PROVE  /\ Cost(table, keys \cup {x}, s, e)
                = FullSpend(table[x], s, e) + Cost(table, keys, s, e)
           /\ FullSpend(table[x], s, e) \in Nat
           /\ Cost(table, keys, s, e) \in Nat
<1> DEFINE f == [k \in keys \cup {x} |-> FullSpend(table[k], s, e)]
           g == [k \in keys |-> FullSpend(table[k], s, e)]
<1>1. \A k \in keys \cup {x} : f[k] \in Nat
    BY FullSpendIsNat DEF Summable
<1>2. SumFunction(f) = SumFunctionOnSet(f, keys \cup {x})
    BY DEF SumFunction
<1>3. SumFunction(g) = SumFunctionOnSet(g, keys)
    BY DEF SumFunction
<1>4. \A k \in keys : f[k] = g[k]
    OBVIOUS
<1>5. f[x] = FullSpend(table[x], s, e)
    OBVIOUS
<1>6. IsFiniteSet(keys)
    BY FS_Subset DEF Summable
<1> HIDE DEF f, g
<1>7. SumFunctionOnSet(f, keys \cup {x}) = f[x] + SumFunctionOnSet(f, keys)
    BY <1>1, <1>6, SumAdd
<1>8. SumFunctionOnSet(f, keys) = SumFunctionOnSet(g, keys)
    BY <1>4, SumSame
<1>9. SumFunctionOnSet(f, keys) \in Nat
    BY <1>1, <1>6, SumNat
<1> QED BY <1>1, <1>2, <1>3, <1>5, <1>7, <1>8, <1>9 DEF Cost, f, g

\* The leases of a table that begin before e can be added up.
LEMMA LeasesSummable ==
    ASSUME NEW table \in [Leases -> LeaseRow \cup {NULL}],
           IsFiniteSet(Existing(table)), NEW o, NEW s \in Nat, NEW e \in Nat, s < e,
           NEW keys \in SUBSET KeysBefore(table, o, e)
    PROVE  Summable(table, keys, s, e)
<1>1. keys \in SUBSET Existing(table)
    BY DEF KeysBefore
<1>2. IsFiniteSet(keys)
    BY <1>1, FS_Subset
<1>3. \A k \in keys : table[k] \in LeaseRow /\ table[k].create_time < e
    BY DEF KeysBefore, Existing
<1> QED BY <1>2, <1>3, PricesAssumption DEF Summable, LeaseRow

\* Other clients keep every lease with all that its full cost depends on, and
\* add one lease at most.
LEMMA LeasesKept ==
    ASSUME StoreTypeOK, Environment
    PROVE  /\ \A k \in Existing(lease) :
                /\ k \in Existing(lease')
                /\ lease'[k].id = lease[k].id
                /\ lease'[k].order_id = lease[k].order_id
                /\ lease'[k].price_hr = lease[k].price_hr
                /\ lease'[k].create_time = lease[k].create_time
           /\ \/ Existing(lease') = Existing(lease)
              \/ \E k \in Leases \ Existing(lease) :
                    Existing(lease') = Existing(lease) \cup {k} /\ lease'[k].id = k
<1> USE DEF StoreTypeOK, Existing
<1>1. ASSUME NEW l \in Leases, NEW o \in Orders, NEW price \in Prices,
             CreateLease(l, o, price)
      PROVE  /\ \A k \in Existing(lease) : lease'[k] = lease[k]
             /\ Existing(lease') = Existing(lease) \cup {l}
             /\ l \notin Existing(lease) /\ lease'[l].id = l
             /\ \A k \in Existing(lease) : k \in Existing(lease')
    <2> DEFINE row == [id |-> l, order_id |-> o, price_hr |-> price,
                       create_time |-> now, end_time |-> NULL, status |-> "active"]
    <2>1. row \in LeaseRow /\ row.id = l
        BY DEF LeaseRow, LeaseStatus
    <2>2. row # NULL
        BY <2>1, NoNullRow
    <2>3. lease[l] = NULL /\ lease' = [lease EXCEPT ![l] = row]
        BY <1>1 DEF CreateLease
    <2> HIDE DEF row
    <2> QED BY <2>1, <2>2, <2>3
<1>2. ASSUME NEW l \in Leases, EndLease(l, "complete")
      PROVE  /\ \A k \in Existing(lease) :
                /\ k \in Existing(lease')
                /\ lease'[k].id = lease[k].id
                /\ lease'[k].order_id = lease[k].order_id
                /\ lease'[k].price_hr = lease[k].price_hr
                /\ lease'[k].create_time = lease[k].create_time
             /\ Existing(lease') = Existing(lease)
    <2> DEFINE row == [lease[l] EXCEPT !.end_time = now, !.status = "complete"]
    <2>1. l \in Existing(lease) /\ lease[l] \in LeaseRow
        BY <1>2 DEF EndLease
    <2>2. /\ row.id = lease[l].id /\ row.order_id = lease[l].order_id
          /\ row.price_hr = lease[l].price_hr
          /\ row.create_time = lease[l].create_time
          /\ row \in LeaseRow
        BY <2>1 DEF LeaseRow, LeaseStatus
    <2>3. row # NULL
        BY <2>2, NoNullRow
    <2>4. lease' = [lease EXCEPT ![l] = row]
        BY <1>2 DEF EndLease
    <2> HIDE DEF row
    <2> QED BY <2>1, <2>2, <2>3, <2>4
<1>3. \/ \E l \in Leases, o \in Orders, price \in Prices : CreateLease(l, o, price)
      \/ \E l \in Leases : EndLease(l, "complete")
      \/ lease' = lease
    BY DEF Environment, Tick, CreateBillingAccount, DeleteProject, CreateProject,
       CreateOrder, tables
<1>4. CASE \E l \in Leases, o \in Orders, price \in Prices : CreateLease(l, o, price)
    <2>1. PICK l \in Leases : \E o \in Orders, price \in Prices :
                                CreateLease(l, o, price)
        BY <1>4
    <2> HIDE DEF Existing
    <2> QED BY <2>1, <1>1
<1>5. CASE \E l \in Leases : EndLease(l, "complete")
    BY <1>5, <1>2
<1> QED BY <1>3, <1>4, <1>5

\* What other clients do never lowers the full cost of an order's leases, but
\* for those in D.
LEMMA CostNeverFalls ==
    ASSUME StoreTypeOK, StoreTypeOK', Environment,
           IsFiniteSet(Existing(lease)), IsFiniteSet(Existing(lease')),
           NEW o, NEW s \in Nat, NEW e \in Nat, s < e,
           NEW D \in SUBSET Existing(lease)
    PROVE  /\ Cost(lease, KeysBefore(lease, o, e) \ D, s, e)
                <= Cost(lease', KeysBefore(lease', o, e) \ D, s, e)
           /\ Cost(lease, KeysBefore(lease, o, e) \ D, s, e) \in Nat
           /\ Cost(lease', KeysBefore(lease', o, e) \ D, s, e) \in Nat
<1> DEFINE keys == KeysBefore(lease, o, e) \ D
           more == KeysBefore(lease', o, e) \ D
<1>1. Summable(lease, keys, s, e) /\ Summable(lease', more, s, e)
    BY LeasesSummable DEF StoreTypeOK
<1>2. Cost(lease, keys, s, e) = Cost(lease', keys, s, e)
    <2>1. \A k \in keys : /\ lease[k].price_hr = lease'[k].price_hr
                          /\ lease[k].create_time = lease'[k].create_time
        BY LeasesKept DEF KeysBefore
    <2> HIDE DEF keys
    <2> QED BY <2>1, CostSame
<1>3. more = keys \/ \E k : k \notin keys /\ more = keys \cup {k}
    BY LeasesKept DEF KeysBefore
<1> HIDE DEF keys, more
<1>4. Cost(lease', keys, s, e) <= Cost(lease', more, s, e)
    <2>1. CASE more = keys
        BY <1>1, <2>1, CostIsNat
    <2>2. CASE \E k : k \notin keys /\ more = keys \cup {k}
        <3>1. PICK k : k \notin keys /\ more = keys \cup {k}
            BY <2>2
        <3> QED BY <1>1, <3>1, CostAdd
    <2> QED BY <1>3, <2>1, <2>2
<1>5. Cost(lease, keys, s, e) \in Nat /\ Cost(lease', more, s, e) \in Nat
    BY <1>1, CostIsNat
<1> QED BY <1>2, <1>4, <1>5 DEF keys, more

\* Steps that leave the leases and the rows of the orders alone, and no lease in
\* memory.
LEMMA CostKept ==
    ASSUME CostInv, UNCHANGED <<lease, order_spend>>, leases' = {}, pc' # "leases"
    PROVE  CostInv'
BY DEF CostInv, LeasesInStep, Existing

\* An order is taken up: it costs nothing yet.
LEMMA CostListLeases ==
    ASSUME IInv, CostInv, ListLeases PROVE CostInv'
<1> USE DEF IInv, RunInv, StoreInv, ListLeases, Charging, Billing
<1>1. UNCHANGED <<lease, order_spend, startTime, endTime>>
    BY DEF storeVars, tables, ledger
<1>2. PICK o \in orders :
        /\ ord' = o
        /\ orderSpend' = [orderSpend EXCEPT ![o] = 0]
        /\ leases' = ListLeasesForTimeRangeByOrderId(o, startTime, endTime)
    OBVIOUS
<1>3. orderSpend'[ord'] = 0
    BY <1>2 DEF BillerTypeOK, SpendMap
<1>4. \A l \in leases' :
        \E k \in KeysBefore(lease, o, endTime) : l = lease[k] /\ l.id = k
    BY <1>2 DEF ListLeasesForTimeRangeByOrderId, InTimeRange, KeysBefore, CostInv,
       LeasesInStep
<1>5. LeasesInStep'
    BY <1>1, <1>2, <1>4 DEF CostInv, LeasesInStep, Existing, KeysBefore
<1>6. orderSpend'[ord'] <= Cost(lease', Added', startTime', endTime')
    <2>1. startTime \in Nat /\ endTime \in Nat /\ startTime < endTime
        BY WindowNotEmpty DEF WindowsAreMonths
    <2>2. lease \in [Leases -> LeaseRow \cup {NULL}] /\ IsFiniteSet(Existing(lease))
        BY DEF StoreTypeOK, CostInv, LeasesInStep
    <2>3. Added' \in SUBSET KeysBefore(lease, o, endTime)
        BY <1>1, <1>2 DEF Added, KeysBefore, Existing
    <2>4. Summable(lease, Added', startTime, endTime)
        BY <2>1, <2>2, <2>3, LeasesSummable
    <2>5. Cost(lease, Added', startTime, endTime) \in Nat
        BY <2>4, CostIsNat
    <2> QED BY <1>1, <1>3, <2>5
<1>7. RowsBelowCost(order_spend, lease)'
    BY <1>1 DEF CostInv
<1> QED BY <1>5, <1>6, <1>7 DEF CostInv

\* A lease is added: at most its full cost.
LEMMA CostAddLease ==
    ASSUME IInv, CostInv, AddLease PROVE CostInv'
<1> USE DEF IInv, RunInv, StoreInv, AddLease, Charging, Billing
<1>1. UNCHANGED <<lease, order_spend, startTime, endTime, ord, pc>>
    BY DEF storeVars, tables, ledger
<1>2. PICK l \in leases :
        /\ leases' = leases \ {l}
        /\ orderSpend' = [orderSpend EXCEPT ![ord] =
                                @ + LeaseSpend(l, startTime, endTime)]
    OBVIOUS
<1>3. startTime \in Nat /\ endTime \in Nat /\ startTime < endTime
    BY WindowNotEmpty DEF WindowsAreMonths
<1>4. LeasesInStep'
    BY <1>1, <1>2 DEF CostInv, LeasesInStep, Existing, KeysBefore
<1>5. /\ l.id \in KeysBefore(lease, ord, endTime) /\ l.id \notin Added
      /\ Added' = Added \cup {l.id}
    <2>1. \A q \in leases : q.id = l.id => q = l
        BY DEF CostInv, LeasesInStep
    <2>2. l.id \in KeysBefore(lease, ord, endTime)
        BY DEF CostInv, LeasesInStep
    <2>3. {q.id : q \in leases'} = {q.id : q \in leases} \ {l.id}
        BY <1>2, <2>1
    <2>4. KeysBefore(lease, ord, endTime)' = KeysBefore(lease, ord, endTime)
        BY <1>1 DEF KeysBefore, Existing
    <2> QED BY <2>2, <2>3, <2>4 DEF Added
<1>6. lease \in [Leases -> LeaseRow \cup {NULL}] /\ IsFiniteSet(Existing(lease))
    BY DEF StoreTypeOK, CostInv, LeasesInStep
<1>7. Summable(lease, Added \cup {l.id}, startTime, endTime)
    <2>1. Added \cup {l.id} \in SUBSET KeysBefore(lease, ord, endTime)
        BY <1>5 DEF Added
    <2> QED BY <1>3, <1>6, <2>1, LeasesSummable
<1>8. /\ Cost(lease, Added', startTime, endTime)
            = FullSpend(lease[l.id], startTime, endTime)
                + Cost(lease, Added, startTime, endTime)
      /\ FullSpend(lease[l.id], startTime, endTime) \in Nat
      /\ Cost(lease, Added, startTime, endTime) \in Nat
    BY <1>5, <1>7, CostAdd
<1>9. LeaseSpend(l, startTime, endTime)
        <= FullSpend(lease[l.id], startTime, endTime)
    <2>1. OrderedLease(l) /\ InTimeRange(l, startTime, endTime)
        BY DEF MemoryInStep
    <2>2. l.price_hr \in Nat
        BY PricesAssumption DEF BillerTypeOK, LeaseRow
    <2>3. LeaseSpend(l, startTime, endTime) <= FullSpend(l, startTime, endTime)
        BY <1>3, <2>1, <2>2, LeaseBelowFull
    <2>4. FullSpend(l, startTime, endTime)
            = FullSpend(lease[l.id], startTime, endTime)
        BY DEF FullSpend, CostInv, LeasesInStep
    <2> QED BY <2>3, <2>4
<1>10. LeaseSpend(l, startTime, endTime) \in Nat
    BY LeaseCost
<1>11. ord \in Orders /\ orderSpend[ord] \in Nat
    BY DEF MemoryInStep, Billed, BillerTypeOK, SpendMap
<1>12. orderSpend'[ord] = orderSpend[ord] + LeaseSpend(l, startTime, endTime)
    BY <1>2, <1>11 DEF BillerTypeOK, SpendMap
<1>13. orderSpend[ord] <= Cost(lease, Added, startTime, endTime)
    BY DEF CostInv
<1>14. orderSpend'[ord'] <= Cost(lease', Added', startTime', endTime')
    BY <1>1, <1>8, <1>9, <1>10, <1>11, <1>12, <1>13
<1>15. RowsBelowCost(order_spend, lease)'
    BY <1>1 DEF CostInv
<1> QED BY <1>4, <1>14, <1>15 DEF CostInv

\* The row of an order is written: all its leases have been added up.
LEMMA CostWrite ==
    ASSUME IInv, CostInv, pc = "leases", leases = {}, OrderSpendStatement,
           leases' = {}, pc' # "leases"
    PROVE  CostInv'
<1>1. CreateOrderSpend(NilUid, ord, orderSpend[ord], startTime, endTime)
    BY DEF OrderSpendStatement
<1>2. UNCHANGED lease
    BY <1>1 DEF CreateOrderSpend, tables
<1>3. order_spend \in SUBSET SpendRows({NilUid}, Orders)
    BY DEF IInv, StoreInv, LedgerTypeOK
<1>4. order_spend' = Upsert(order_spend, NilUid, ord, orderSpend[ord],
                            startTime, endTime)
    BY <1>1 DEF CreateOrderSpend
<1>5. \A r \in order_spend' \ order_spend :
            /\ r.id = ord /\ r.start_time = startTime /\ r.end_time = endTime
            /\ r.spend = orderSpend[ord]
    BY <1>3, <1>4, UpsertNew
<1>6. Added = KeysBefore(lease, ord, endTime)
    BY DEF Added
<1>7. orderSpend[ord] <= Cost(lease, KeysBefore(lease, ord, endTime),
                              startTime, endTime)
    BY <1>6 DEF CostInv
<1>8. RowsBelowCost(order_spend, lease)
    BY DEF CostInv
<1>9. RowsBelowCost(order_spend', lease)
    BY <1>5, <1>7, <1>8 DEF RowsBelowCost
<1>10. LeasesInStep'
    BY <1>2 DEF CostInv, LeasesInStep, Existing
<1> QED BY <1>2, <1>9, <1>10 DEF CostInv

\* Other clients add leases and end them; they do not lower the full cost.
LEMMA CostEnvironment ==
    ASSUME IInv, IInv', CostInv, Environment PROVE CostInv'
<1> USE DEF IInv, RunInv, StoreInv
<1>1. UNCHANGED <<order_spend, pc, leases, ord, startTime, endTime, orderSpend>>
    BY EnvironmentStep DEF ledger, billerVars, memory
<1>2. LeasesInStep
    BY DEF CostInv
<1>3. /\ lease \in [Leases -> LeaseRow \cup {NULL}]
      /\ lease' \in [Leases -> LeaseRow \cup {NULL}]
    BY DEF StoreTypeOK
<1>4. IsFiniteSet(Existing(lease'))
    BY <1>2, LeasesKept, FS_AddElement DEF LeasesInStep
<1>5. LeasesInStep'
    <2>1. \A k \in Existing(lease') : lease'[k].id = k
        BY <1>2, LeasesKept DEF LeasesInStep
    <2>2. \A k \in KeysBefore(lease, ord, endTime) :
            k \in KeysBefore(lease', ord, endTime)
        BY LeasesKept DEF KeysBefore
    <2>3. \A l \in leases :
            /\ lease'[l.id].price_hr = l.price_hr
            /\ lease'[l.id].create_time = l.create_time
        BY <1>2, LeasesKept DEF LeasesInStep, KeysBefore
    <2> QED BY <1>1, <1>2, <1>4, <2>1, <2>2, <2>3 DEF LeasesInStep
<1>6. ASSUME NEW o, NEW s \in Nat, NEW e \in Nat, s < e,
             NEW D \in SUBSET Existing(lease)
      PROVE  /\ Cost(lease, KeysBefore(lease, o, e) \ D, s, e)
                  <= Cost(lease', KeysBefore(lease', o, e) \ D, s, e)
             /\ Cost(lease, KeysBefore(lease, o, e) \ D, s, e) \in Nat
             /\ Cost(lease', KeysBefore(lease', o, e) \ D, s, e) \in Nat
    <2>1. IsFiniteSet(Existing(lease)) /\ StoreTypeOK /\ StoreTypeOK'
        BY <1>2 DEF LeasesInStep
    <2> HIDE DEF IInv, StoreInv, RunInv
    <2> QED BY <1>4, <1>6, <2>1, CostNeverFalls
<1>7. ASSUME pc = "leases"
      PROVE  orderSpend[ord] <= Cost(lease', Added', startTime, endTime)
    <2> DEFINE D == {l.id : l \in leases}
    <2>1. startTime \in Nat /\ endTime \in Nat /\ startTime < endTime
        BY <1>7, WindowNotEmpty DEF WindowsAreMonths, Charging, Billing
    <2>2. D \in SUBSET Existing(lease)
        BY <1>2 DEF LeasesInStep, KeysBefore
    <2>3. Added = KeysBefore(lease, ord, endTime) \ D
        BY DEF Added
    <2>4. Added' = KeysBefore(lease', ord, endTime) \ D
        BY <1>1 DEF Added
    <2>5. orderSpend[ord] \in Nat
        BY <1>7 DEF MemoryInStep, Billed, BillerTypeOK, SpendMap
    <2>6. orderSpend[ord] <= Cost(lease, Added, startTime, endTime)
        BY <1>7 DEF CostInv
    <2> HIDE DEF D
    <2>7. /\ Cost(lease, Added, startTime, endTime)
                <= Cost(lease', Added', startTime, endTime)
          /\ Cost(lease, Added, startTime, endTime) \in Nat
          /\ Cost(lease', Added', startTime, endTime) \in Nat
        <3>1. /\ Cost(lease, KeysBefore(lease, ord, endTime) \ D, startTime, endTime)
                    <= Cost(lease', KeysBefore(lease', ord, endTime) \ D,
                            startTime, endTime)
              /\ Cost(lease, KeysBefore(lease, ord, endTime) \ D,
                      startTime, endTime) \in Nat
              /\ Cost(lease', KeysBefore(lease', ord, endTime) \ D,
                      startTime, endTime) \in Nat
            BY <1>6, <2>1, <2>2
        <3> QED BY <3>1, <2>3, <2>4, Zenon
    <2> HIDE DEF IInv, StoreInv, RunInv
    <2> QED BY <2>5, <2>6, <2>7
<1>8. RowsBelowCost(order_spend, lease')
    <2> SUFFICES ASSUME NEW r \in order_spend
                 PROVE  r.spend <= Cost(lease', KeysBefore(lease', r.id, r.end_time),
                                        r.start_time, r.end_time)
        BY DEF RowsBelowCost
    <2> DEFINE before == KeysBefore(lease, r.id, r.end_time)
               after == KeysBefore(lease', r.id, r.end_time)
    <2>1. /\ r.spend \in Nat /\ r.start_time \in Nat /\ r.end_time \in Nat
          /\ r.start_time < r.end_time
        BY WindowNotEmpty DEF LedgerTypeOK, SpendRows, WindowsAreMonths
    <2>2. r.spend <= Cost(lease, before, r.start_time, r.end_time)
        BY DEF CostInv, RowsBelowCost
    <2>3. before \ {} = before /\ after \ {} = after
        OBVIOUS
    <2>4. /\ Cost(lease, before \ {}, r.start_time, r.end_time)
                <= Cost(lease', after \ {}, r.start_time, r.end_time)
          /\ Cost(lease, before \ {}, r.start_time, r.end_time) \in Nat
          /\ Cost(lease', after \ {}, r.start_time, r.end_time) \in Nat
        BY <1>6, <2>1
    <2> HIDE DEF before, after
    <2>5. r.spend <= Cost(lease', after, r.start_time, r.end_time)
        BY <2>1, <2>2, <2>3, <2>4
    <2> QED BY <2>5 DEF after
<1> QED BY <1>1, <1>5, <1>7, <1>8 DEF CostInv

\* CostInv is preserved by every step.
LEMMA NextCost ==
    ASSUME IInv, IInv', CostInv, [Next]_vars PROVE CostInv'
<1> USE DEF IInv, RunInv
<1>1. pc # "leases" => leases = {}
    BY DEF MemoryInStep
<1>2. CASE RunListAccounts \/ RunSetWindow
    BY <1>1, <1>2, CostKept DEF RunListAccounts, RunSetWindow, storeVars, tables,
       ledger
<1>3. CASE ListOrders
    BY <1>1, <1>3, CostKept DEF ListOrders, storeVars, tables, ledger
<1>4. CASE ListLeases \/ AddLease
    BY <1>4, CostListLeases, CostAddLease
<1>5. CASE WriteOrderSpend
    BY <1>5, CostWrite DEF WriteOrderSpend, memory
<1>6. CASE WriteProjectSpend \/ WriteAccountSpend
    BY <1>1, <1>6, CostKept DEF WriteProjectSpend, WriteAccountSpend,
       ProjectSpendStatement, AccountSpendStatement, CreateProjectSpend,
       CreateBillingAccountSpend, memory, tables
<1>7. CASE AnswerLost
    <2>1. leases' = {} /\ pc' # "leases"
        BY <1>7 DEF AnswerLost, Leave
    <2>2. CASE pc = "leases" /\ leases = {} /\ OrderSpendStatement
        BY <2>1, <2>2, CostWrite
    <2>3. CASE ProjectSpendStatement \/ AccountSpendStatement
        BY <2>1, <2>3, CostKept DEF ProjectSpendStatement, AccountSpendStatement,
           CreateProjectSpend, CreateBillingAccountSpend, tables
    <2> QED BY <1>7, <2>2, <2>3 DEF AnswerLost
<1>8. CASE UNCHANGED storeVars /\ \E result : Leave(result)
    BY <1>8, CostKept DEF Leave, storeVars, tables, ledger
<1>9. CASE Environment
    BY <1>9, CostEnvironment
<1>10. CASE UNCHANGED vars
    BY <1>10 DEF vars, storeVars, tables, ledger, billerVars, memory, CostInv,
       LeasesInStep, RowsBelowCost, Cost, KeysBefore, Added, Existing
<1> QED BY <1>2, <1>3, <1>4, <1>5, <1>6, <1>7, <1>8, <1>9, <1>10 DEF Next, Run,
        CalculateDemandSpend, Faulty, RunReturn, AddLeaseFails, RefuseOrderSpend,
        RefuseProjectSpend, RefuseAccountSpend, ListAccountsFails, CallFails, Crash

-----------------------------------------------------------------------------
(* The biller as a client of the database. *)

Q == INSTANCE Querier WITH Uids <- {NilUid}, Amounts <- Nat

\* Whatever a run does to the database is one statement for a calendar month.
LEMMA RunStatement ==
    ASSUME IInv, [Next]_vars
    PROVE  \/ UNCHANGED storeVars
           \/ Environment
           \/ \E spend \in Nat, m \in MonthNumbers :
                \/ ChargeAccount(NilUid, spend, MonthStart[m], MonthStart[m + 1])
                \/ ChargeProject(NilUid, spend, MonthStart[m], MonthStart[m + 1])
                \/ ChargeOrder(NilUid, spend, MonthStart[m], MonthStart[m + 1])
<1>1. CASE \/ WriteOrderSpend \/ WriteProjectSpend \/ WriteAccountSpend
           \/ AnswerLost
    <2>1. PICK m \in MonthNumbers :
            startTime = MonthStart[m] /\ endTime = MonthStart[m + 1]
        <3>1. pc \in Charging
            BY <1>1 DEF WriteOrderSpend, WriteProjectSpend, WriteAccountSpend,
               AnswerLost, Charging, Billing
        <3> QED BY <3>1 DEF IInv, RunInv, WindowsAreMonths, IsMonth
    <2>2. PICK spend \in Nat :
            \/ ChargeAccount(NilUid, spend, startTime, endTime)
            \/ ChargeProject(NilUid, spend, startTime, endTime)
            \/ ChargeOrder(NilUid, spend, startTime, endTime)
        BY <1>1, WriteArguments DEF WriteOrderSpend, WriteProjectSpend,
           WriteAccountSpend, AnswerLost, OrderSpendStatement,
           ProjectSpendStatement, AccountSpendStatement, ChargeAccount,
           ChargeProject, ChargeOrder
    <2> QED BY <2>1, <2>2
<1>2. CASE UNCHANGED vars
    BY <1>2 DEF vars
<1> QED BY <1>1, <1>2 DEF Next, Run, CalculateDemandSpend, Faulty, RunListAccounts,
        RunSetWindow, RunReturn, ListOrders, ListLeases, AddLease, AddLeaseFails,
        RefuseOrderSpend, RefuseProjectSpend, RefuseAccountSpend,
        ListAccountsFails, CallFails, Crash

-----------------------------------------------------------------------------
(* A run comes to its end. *)

\* The tables hold finitely many rows, however many ids there are, and so does
\* the memory of a run.
FiniteInv ==
    /\ IsFiniteSet(Existing(billing_account)) /\ IsFiniteSet(accounts)
    /\ IsFiniteSet(Existing(order)) /\ IsFiniteSet(orders)
    /\ IsFiniteSet(Existing(lease)) /\ IsFiniteSet(leases)

\* How far a step of the code is from the one that takes up something new.
Stage == [window |-> 5, leases |-> 4, project_spend |-> 3, orders |-> 2,
          accounts |-> 1, idle |-> 0]

Fewer(S, T) == S \subseteq T /\ S # T

\* What is left to do is less, in lexicographic order: accounts, the orders of
\* the account in hand, the leases of the order in hand, the calls in between.
Nearer ==
    \/ Fewer(accounts', accounts)
    \/ accounts' = accounts /\ Fewer(orders', orders)
    \/ UNCHANGED <<accounts, orders>> /\ Fewer(leases', leases)
    \/ UNCHANGED <<accounts, orders, leases>> /\ Stage[pc'] < Stage[pc]

\* A step of a run either ends it or leaves less to do, and no other client
\* gives it more to do.
RunsGetNearer ==
    [][pc # "idle" => \/ pc' = "idle"
                     \/ Nearer
                     \/ UNCHANGED billerVars]_vars

\* FiniteInv is preserved by every step.
LEMMA NextFinite ==
    ASSUME IInv, FiniteInv, [Next]_vars PROVE FiniteInv'
<1>1. CASE UNCHANGED tables
    <2>1. /\ Existing(billing_account)' = Existing(billing_account)
          /\ Existing(order)' = Existing(order)
          /\ Existing(lease)' = Existing(lease)
        BY <1>1 DEF tables, Existing
    <2>2. \/ UNCHANGED <<accounts, orders, leases>>
          \/ \E result : Leave(result)
          \/ RunListAccounts \/ ListOrders \/ ListLeases \/ AddLease
          \/ Environment
        BY DEF Next, Run, CalculateDemandSpend, Faulty, RunSetWindow, RunReturn,
           AddLeaseFails, WriteOrderSpend, WriteProjectSpend, WriteAccountSpend,
           RefuseOrderSpend, RefuseProjectSpend, RefuseAccountSpend,
           ListAccountsFails, CallFails, AnswerLost, Crash, vars, billerVars, memory
    <2>3. IsFiniteSet(accounts') /\ IsFiniteSet(orders') /\ IsFiniteSet(leases')
        <3>1. CASE UNCHANGED <<accounts, orders, leases>>
            BY <3>1 DEF FiniteInv
        <3>2. CASE \E result : Leave(result)
            BY <3>2, FS_EmptySet DEF Leave
        <3>3. CASE RunListAccounts
            BY <3>3 DEF RunListAccounts, ListAllBillingAccounts, FiniteInv
        <3>4. CASE ListOrders
            <4>1. PICK a \in FirstAccounts :
                    /\ accounts' = accounts \ {a}
                    /\ orders' = ListOrdersByBillingAccountId(a)
                BY <3>4 DEF ListOrders
            <4>2. accounts' \subseteq accounts /\ orders' \subseteq Existing(order)
                BY <4>1 DEF ListOrdersByBillingAccountId
            <4>3. leases' = leases
                BY <3>4 DEF ListOrders
            <4> QED BY <4>2, <4>3, FS_Subset DEF FiniteInv
        <3>5. CASE ListLeases
            <4>1. PICK o \in orders :
                    /\ orders' = orders \ {o}
                    /\ leases' = ListLeasesForTimeRangeByOrderId(o, startTime, endTime)
                BY <3>5 DEF ListLeases
            <4> DEFINE keys == {k \in Existing(lease) :
                                    /\ lease[k].order_id = o
                                    /\ InTimeRange(lease[k], startTime, endTime)}
            <4>2. leases' = {lease[k] : k \in keys}
                BY <4>1 DEF ListLeasesForTimeRangeByOrderId
            <4>3. IsFiniteSet(keys)
                BY FS_Subset DEF FiniteInv
            <4> DEFINE f == [k \in keys |-> lease[k]]
            <4>4. f \in Surjection(keys, {lease[k] : k \in keys})
                BY DEF Surjection
            <4> HIDE DEF keys, f
            <4>5. IsFiniteSet({lease[k] : k \in keys})
                BY <4>3, <4>4, FS_Surjection
            <4>6. orders' \subseteq orders /\ accounts' = accounts
                BY <3>5, <4>1 DEF ListLeases
            <4> QED BY <4>2, <4>5, <4>6, FS_Subset DEF FiniteInv
        <3>6. CASE AddLease
            <4>1. leases' \subseteq leases /\ UNCHANGED <<accounts, orders>>
                BY <3>6 DEF AddLease
            <4> QED BY <4>1, FS_Subset DEF FiniteInv
        <3>7. CASE Environment
            BY <3>7, EnvironmentStep DEF IInv, StoreInv, billerVars, memory, FiniteInv
        <3> QED BY <2>2, <3>1, <3>2, <3>3, <3>4, <3>5, <3>6, <3>7
    <2> QED BY <2>1, <2>3 DEF FiniteInv
<1>2. CASE Environment
    <2>1. UNCHANGED <<accounts, orders, leases>>
        BY <1>2, EnvironmentStep DEF IInv, StoreInv, billerVars, memory
    <2>2. \E a : Existing(billing_account') \subseteq Existing(billing_account) \cup {a}
        BY <1>2 DEF IInv, StoreInv, StoreTypeOK, Environment, Tick, tables, Existing,
           CreateBillingAccount, DeleteProject, CreateProject, CreateOrder,
           CreateLease, EndLease
    <2>3. \E o : Existing(order') \subseteq Existing(order) \cup {o}
        BY <1>2 DEF IInv, StoreInv, StoreTypeOK, Environment, Tick, tables, Existing,
           CreateBillingAccount, DeleteProject, CreateProject, CreateOrder,
           CreateLease, EndLease
    <2>4. \E l : Existing(lease') \subseteq Existing(lease) \cup {l}
        BY <1>2, LeasesKept DEF IInv, StoreInv
    <2> QED BY <2>1, <2>2, <2>3, <2>4, FS_AddElement, FS_Subset DEF FiniteInv
<1>3. Environment \/ UNCHANGED tables
    BY RunStatement DEF storeVars, ChargeAccount, ChargeProject, ChargeOrder,
       CreateBillingAccountSpend, CreateProjectSpend, CreateOrderSpend
<1> QED BY <1>1, <1>2, <1>3

-----------------------------------------------------------------------------
(* An order is charged what its leases cost as they were listed. *)

\* Rows that can be added up.
Chargeable(rows, s, e) ==
    /\ IsFiniteSet(rows)
    /\ \A l \in rows : LeaseSpend(l, s, e) \in Nat

\* Those that a query lists for a month are, if they are finitely many.
LEMMA ListedAreChargeable ==
    ASSUME NEW rows, IsFiniteSet(rows), NEW s, NEW e, IsMonth(s, e),
           \A l \in rows : /\ l \in LeaseRow /\ OrderedLease(l)
                           /\ InTimeRange(l, s, e)
    PROVE  Chargeable(rows, s, e)
<1> SUFFICES ASSUME NEW l \in rows PROVE LeaseSpend(l, s, e) \in Nat
    BY DEF Chargeable
<1>1. LeaseDuration(l, s, e) \in Nat
    BY WindowNotEmpty, DurationBounds
<1>2. l.price_hr \in Nat
    BY PricesAssumption DEF LeaseRow
<1> QED BY <1>1, <1>2 DEF LeaseSpend

\* What rows cost is a number; none cost nothing.
LEMMA SpendOfIsNat ==
    ASSUME NEW rows, NEW s, NEW e, Chargeable(rows, s, e)
    PROVE  SpendOf(rows, s, e) \in Nat /\ (rows = {} => SpendOf(rows, s, e) = 0)
<1> DEFINE f == [l \in rows |-> LeaseSpend(l, s, e)]
<1>1. IsFiniteSet(rows) /\ \A l \in rows : f[l] \in Nat
    BY DEF Chargeable
<1>2. SumFunction(f) = SumFunctionOnSet(f, rows)
    BY DEF SumFunction
<1> HIDE DEF f
<1>3. SumFunctionOnSet(f, rows) \in Nat
    BY <1>1, SumNat
<1>4. SumFunctionOnSet(f, {}) = 0
    BY SumEmpty
<1> QED BY <1>2, <1>3, <1>4 DEF SpendOf, f

\* Taking one row away takes away what it costs.
LEMMA SpendOfRemove ==
    ASSUME NEW rows, NEW s, NEW e, Chargeable(rows, s, e), NEW l \in rows
    PROVE  /\ SpendOf(rows, s, e) = LeaseSpend(l, s, e) + SpendOf(rows \ {l}, s, e)
           /\ LeaseSpend(l, s, e) \in Nat
           /\ SpendOf(rows \ {l}, s, e) \in Nat
<1> DEFINE R == rows \ {l}
           f == [k \in rows |-> LeaseSpend(k, s, e)]
           g == [k \in R |-> LeaseSpend(k, s, e)]
<1>1. /\ IsFiniteSet(R) /\ l \notin R /\ R \cup {l} = rows
      /\ \A k \in rows : f[k] \in Nat
      /\ \A k \in R : f[k] = g[k] /\ f[k] \in Nat
      /\ f[l] = LeaseSpend(l, s, e)
    BY FS_Subset DEF Chargeable
<1>2. SumFunction(f) = SumFunctionOnSet(f, rows)
    BY DEF SumFunction
<1>3. SumFunction(g) = SumFunctionOnSet(g, R)
    BY DEF SumFunction
<1>4. SpendOf(rows, s, e) = SumFunction(f) /\ SpendOf(R, s, e) = SumFunction(g)
    BY DEF SpendOf
<1> HIDE DEF f, g, R
<1>5. SumFunctionOnSet(f, R \cup {l}) = f[l] + SumFunctionOnSet(f, R)
    BY <1>1, SumAdd
<1>6. SumFunctionOnSet(f, R) = SumFunctionOnSet(g, R)
    BY <1>1, SumSame
<1>7. SumFunctionOnSet(f, R) \in Nat
    BY <1>1, SumNat
<1> QED BY <1>1, <1>2, <1>3, <1>4, <1>5, <1>6, <1>7 DEF R

\* The leases in memory can be added up.
LEMMA MemoryChargeable ==
    ASSUME IInv, FiniteInv, pc = "leases"
    PROVE  Chargeable(leases, startTime, endTime)
<1>1. IsMonth(startTime, endTime)
    BY DEF IInv, RunInv, WindowsAreMonths, Charging, Billing
<1>2. \A l \in leases : /\ l \in LeaseRow /\ OrderedLease(l)
                        /\ InTimeRange(l, startTime, endTime)
    BY DEF IInv, RunInv, BillerTypeOK, MemoryInStep
<1> QED BY <1>1, <1>2, ListedAreChargeable DEF FiniteInv

\* Listing the leases of an order sets what it comes to.
LEMMA DueListed ==
    ASSUME IInv, FiniteInv, FiniteInv', ListLeases
    PROVE  Due' = ListedCost(ord')
<1> USE DEF IInv, RunInv, ListLeases, Charging, Billing
<1>1. UNCHANGED <<startTime, endTime>>
    OBVIOUS
<1>2. PICK o \in orders :
        /\ ord' = o
        /\ orderSpend' = [orderSpend EXCEPT ![o] = 0]
        /\ leases' = ListLeasesForTimeRangeByOrderId(o, startTime, endTime)
    OBVIOUS
<1>3. orderSpend'[ord'] = 0
    BY <1>2 DEF BillerTypeOK, SpendMap
<1>4. Chargeable(leases', startTime, endTime)
    <2>1. IsMonth(startTime, endTime)
        BY DEF WindowsAreMonths
    <2>2. \A l \in leases' : /\ l \in LeaseRow /\ OrderedLease(l)
                             /\ InTimeRange(l, startTime, endTime)
        BY <1>2 DEF ListLeasesForTimeRangeByOrderId, StoreInv, StoreTypeOK,
           LeaseTimesOrdered, OrderedLease, Existing, LeaseRow
    <2>3. IsFiniteSet(leases')
        BY DEF FiniteInv
    <2> QED BY <2>1, <2>2, <2>3, ListedAreChargeable
<1>5. SpendOf(leases', startTime, endTime) \in Nat
    BY <1>4, SpendOfIsNat
<1>6. ListedCost(ord') = SpendOf(leases', startTime, endTime)
    BY <1>2 DEF ListedCost
<1>7. Due' = orderSpend'[ord'] + SpendOf(leases', startTime, endTime)
    BY <1>1 DEF Due, SpendOf
<1> QED BY <1>3, <1>5, <1>6, <1>7

\* Adding a lease leaves it as it is.
LEMMA DueKept ==
    ASSUME IInv, FiniteInv, AddLease
    PROVE  Due' = Due
<1> USE DEF IInv, RunInv, AddLease, Billing
<1>1. UNCHANGED <<startTime, endTime, ord>>
    OBVIOUS
<1>2. PICK l \in leases :
        /\ leases' = leases \ {l}
        /\ orderSpend' = [orderSpend EXCEPT ![ord] =
                                @ + LeaseSpend(l, startTime, endTime)]
    OBVIOUS
<1>3. ord \in Orders /\ orderSpend[ord] \in Nat
    BY DEF MemoryInStep, Billed, BillerTypeOK, SpendMap
<1>4. orderSpend'[ord] = orderSpend[ord] + LeaseSpend(l, startTime, endTime)
    BY <1>2, <1>3 DEF BillerTypeOK, SpendMap
<1>5. Chargeable(leases, startTime, endTime)
    BY MemoryChargeable
<1>6. /\ SpendOf(leases, startTime, endTime)
            = LeaseSpend(l, startTime, endTime)
                + SpendOf(leases \ {l}, startTime, endTime)
      /\ LeaseSpend(l, startTime, endTime) \in Nat
      /\ SpendOf(leases \ {l}, startTime, endTime) \in Nat
    BY <1>5, SpendOfRemove
<1>7. Due' = orderSpend'[ord] + SpendOf(leases \ {l}, startTime, endTime)
    BY <1>1, <1>2 DEF Due, SpendOf
<1> QED BY <1>3, <1>4, <1>6, <1>7 DEF Due

\* A row of an order that is new or changed is what the order comes to.
LEMMA NewOrderRow ==
    ASSUME IInv, FiniteInv, [Next]_vars, NEW r \in order_spend' \ order_spend
    PROVE  /\ r.id = ord /\ InWindow(r, startTime, endTime)
           /\ r.spend = Due
<1>1. pc = "leases" /\ leases = {} /\ OrderSpendStatement
    <2>1. CASE Run
        BY <2>1 DEF Run, RunListAccounts, RunSetWindow, RunReturn, storeVars, ledger
    <2>2. CASE CalculateDemandSpend
        BY <2>2 DEF CalculateDemandSpend, ListOrders, ListLeases, AddLease,
           AddLeaseFails, WriteOrderSpend, WriteProjectSpend, WriteAccountSpend,
           RefuseOrderSpend, RefuseProjectSpend, RefuseAccountSpend,
           AccountSpendStatement, ProjectSpendStatement, CreateBillingAccountSpend,
           CreateProjectSpend, storeVars, ledger
    <2>3. CASE Faulty
        BY <2>3 DEF Faulty, ListAccountsFails, CallFails, AnswerLost, Crash,
           AccountSpendStatement, ProjectSpendStatement, CreateBillingAccountSpend,
           CreateProjectSpend, storeVars, ledger
    <2>4. CASE Environment
        BY <2>4, EnvironmentStep DEF IInv, StoreInv, ledger
    <2>5. CASE UNCHANGED vars
        BY <2>5 DEF vars, storeVars, ledger
    <2> QED BY <2>1, <2>2, <2>3, <2>4, <2>5 DEF Next
<1>2. order_spend \in SUBSET SpendRows({NilUid}, Orders)
    BY DEF IInv, StoreInv, LedgerTypeOK
<1>3. /\ r.id = ord /\ r.start_time = startTime /\ r.end_time = endTime
      /\ r.spend = orderSpend[ord]
    BY <1>1, <1>2, UpsertNew DEF OrderSpendStatement, CreateOrderSpend
<1>4. SpendOf(leases, startTime, endTime) = 0
    BY <1>1, MemoryChargeable, SpendOfIsNat
<1>5. orderSpend[ord] \in Nat
    BY <1>1, WriteArguments
<1> QED BY <1>3, <1>4, <1>5 DEF Due, InWindow

\* The empty tables and the idle run are finite.
LEMMA InitFinite == Init => FiniteInv
<1> SUFFICES ASSUME Init PROVE FiniteInv
    OBVIOUS
<1>1. /\ Existing(billing_account) = {} /\ accounts = {}
      /\ Existing(order) = {} /\ orders = {}
      /\ Existing(lease) = {} /\ leases = {}
    BY DEF Init, StoreInit, Existing
<1> QED BY <1>1, FS_EmptySet DEF FiniteInv

-----------------------------------------------------------------------------
(* Theorems. *)

\* All values keep their types: in particular no order, project or account is
\* ever charged a negative amount, in memory or in the database.
THEOREM TypeCorrect == Spec => []TypeOK
<1>1. IInv => TypeOK
    BY DEF IInv, StoreInv, RunInv, TypeOK
<1> QED BY <1>1, SpecIInv, PTL

\* However many accounts, orders and months there are, each spend table holds
\* one row at most: the biller leaves the primary key unset.
THEOREM OneRowPerTable == Spec => []LedgerHoldsOneRow
<1>1. IInv => LedgerHoldsOneRow
    BY DEF IInv, StoreInv, LedgerTypeOK, KeysUnique, UniqueRows, SpendRows,
       LedgerHoldsOneRow
<1> QED BY <1>1, SpecIInv, PTL

\* No reference breaks, whatever other clients delete while a run is under way.
THEOREM ReferencesHold == Spec => []ReferentialIntegrity
<1>1. IInv => ReferentialIntegrity
    BY DEF IInv, StoreInv
<1> QED BY <1>1, SpecIInv, PTL

\* Every run and every row is for one calendar month that has begun.
THEOREM MonthsOnly == Spec => []WindowsAreMonths
<1>1. IInv => WindowsAreMonths
    BY DEF IInv, RunInv
<1> QED BY <1>1, SpecIInv, PTL

\* What a run read earlier stays fit for what it does with it later.
THEOREM MemoryStaysInStep == Spec => []MemoryInStep
<1>1. IInv => MemoryInStep
    BY DEF IInv, RunInv
<1> QED BY <1>1, SpecIInv, PTL

\* When a run comes to the row of an account, the rows of all its orders and
\* projects are in the database with the amounts the run computed.
THEOREM PartsAreWrittenFirst == Spec => []WrittenBottomUp
<1>1. IInv => WrittenBottomUp
    BY DEF IInv
<1> QED BY <1>1, SpecIInv, PTL

\* The three levels of the sum agree, at every step of every run.
THEOREM LevelsAgree == Spec => []HierarchyAgrees
<1>1. Init => HierarchyInv
    BY SumEmpty, FS_EmptySet DEF Init, HierarchyInv, OrdersOnce, HierarchyAgrees,
       Billed, BilledProjects, NoSpend, Billing
<1>2. HierarchyInv => HierarchyAgrees
    BY DEF HierarchyInv
<1> QED BY <1>1, <1>2, SpecIInv, NextHierarchy, PTL DEF Spec

\* A row of an account is written as the sum of the rows of its orders for the
\* window, whatever earlier runs left and whatever orders come up meanwhile.
THEOREM AccountRowAddsUp == Spec => AccountRowIsSumOfOrders
<1>1. Init => HierarchyInv /\ AccountInv
    BY SumEmpty, FS_EmptySet DEF Init, HierarchyInv, OrdersOnce, HierarchyAgrees,
       AccountInv, Billed, BilledProjects, NoSpend, Billing
<1>2. ASSUME IInv, HierarchyInv, AccountInv, [Next]_vars
      PROVE  [\A r \in billing_account_spend' \ billing_account_spend :
                r.spend = SumFunction(
                    [q \in OrderRows(r.id, r.start_time, r.end_time)
                        |-> q.spend])]_vars
    BY <1>2, NewAccountRow, RowsAddUp
<1> QED BY <1>1, <1>2, SpecIInv, NextHierarchy, NextAccount, PTL
        DEF Spec, AccountRowIsSumOfOrders

\* No row of an order is more than what its leases cost from their creation, or
\* the beginning of the month, to the end of the month: whatever leases come up
\* or end while the run adds them up, and however often it is run again.
THEOREM NeverOvercharges == Spec => []NoOvercharge
<1>1. Init => CostInv
    <2> SUFFICES ASSUME Init PROVE CostInv
        OBVIOUS
    <2>1. Existing(lease) = {} /\ leases = {} /\ order_spend = {} /\ pc = "idle"
        BY DEF Init, StoreInit, Existing
    <2> QED BY <2>1, FS_EmptySet DEF CostInv, LeasesInStep, RowsBelowCost
<1>2. CostInv => NoOvercharge
    BY DEF CostInv, RowsBelowCost, Cost, KeysBefore, NoOvercharge, LeasesBefore
<1> QED BY <1>1, <1>2, SpecIInv, NextCost, PTL DEF Spec

\* Every lease is metered exactly in the database the biller works on, leases
\* that are ended again by other clients included.
THEOREM LeasesAreMetered == Spec => []MeteredExactly
<1>1. IInv => MeteredExactly
    BY OrderedIsMetered DEF IInv, StoreInv
<1> QED BY <1>1, SpecIInv, PTL

\* No lease ends before it begins, or in the future.
THEOREM LeasesStayOrdered == Spec => []LeaseTimesOrdered
<1>1. IInv => LeaseTimesOrdered
    BY DEF IInv, StoreInv
<1> QED BY <1>1, SpecIInv, PTL

\* No run takes a row away that an earlier one stored, or gives it another id or
\* window: whatever fails, an upsert only replaces an amount.
THEOREM RunsKeepRows == Spec => LedgerRowsPersist
<1>1. ASSUME IInv, [Next]_vars
      PROVE  [/\ RowsPersist(billing_account_spend)
              /\ RowsPersist(project_spend)
              /\ RowsPersist(order_spend)]_ledger
    <2>1. CASE UNCHANGED storeVars \/ Environment
        BY <1>1, <2>1, EnvironmentStep DEF IInv, StoreInv, storeVars
    <2>2. CASE \E spend \in Nat, m \in MonthNumbers :
                \/ ChargeAccount(NilUid, spend, MonthStart[m], MonthStart[m + 1])
                \/ ChargeProject(NilUid, spend, MonthStart[m], MonthStart[m + 1])
                \/ ChargeOrder(NilUid, spend, MonthStart[m], MonthStart[m + 1])
        <3>1. \A m \in MonthNumbers :
                MonthStart[m] \in Nat /\ MonthStart[m + 1] \in Nat
            BY CalendarAssumption DEF MonthNumbers
        <3>2. StoreTypeOK /\ LedgerTypeOK({NilUid})
            BY <1>1 DEF IInv, StoreInv
        <3> QED BY <2>2, <3>1, <3>2, ChargeStep
    <2> QED BY <1>1, <2>1, <2>2, RunStatement
<1> QED BY <1>1, SpecIInv, PTL DEF Spec, LedgerRowsPersist

\* The biller implements Querier: with the clients it runs against, it only ever
\* does what some client may do, passes the zero uid, a natural number and a
\* calendar month. What is shown of Querier thus holds of it.
THEOREM BillerIsAClient == Spec => Q!Spec
<1>1. Init => Q!StoreInit
    BY DEF Init, StoreInit, Q!StoreInit
<1>2. ASSUME IInv, [Next]_vars
      PROVE  [Q!Next]_(Q!storeVars)
    <2>1. CASE UNCHANGED storeVars
        BY <2>1 DEF storeVars, clock, tables, ledger, Q!storeVars, Q!clock,
           Q!tables, Q!ledger
    <2>2. CASE Environment
        <3>1. CASE Tick
            BY <3>1 DEF Tick, Q!Tick, Q!Next, tables, ledger, Q!tables, Q!ledger
        <3>2. CASE \E a \in Accounts : CreateBillingAccount(a)
            BY <3>2 DEF CreateBillingAccount, Q!CreateBillingAccount,
               Q!Accounting, Q!Next, clock, ledger, Q!clock, Q!ledger
        <3>3. CASE \/ \E p \in Projects : DeleteProject(p)
                   \/ \E p \in Projects, a \in Accounts : CreateProject(p, a)
            BY <3>3 DEF DeleteProject, Q!DeleteProject, CreateProject,
               Q!CreateProject, Q!Projecting, Q!Next, clock, ledger, Q!clock,
               Q!ledger
        <3>4. CASE \E o \in Orders, p \in Projects, a \in Accounts :
                    CreateOrder(o, p, a)
            BY <3>4 DEF CreateOrder, Q!CreateOrder, Q!Ordering, Q!Next, clock,
               ledger, Q!clock, Q!ledger
        <3>5. CASE \/ \E l \in Leases, o \in Orders, price \in Prices :
                        CreateLease(l, o, price)
                   \/ \E l \in Leases : EndLease(l, "complete")
            <4>1. "complete" \in Q!LeaseStatus
                BY DEF Q!LeaseStatus
            <4> QED BY <3>5, <4>1 DEF CreateLease, Q!CreateLease, EndLease,
                    Q!EndLease, Q!Leasing, Q!Next, clock, ledger, Q!clock,
                    Q!ledger
        <3> QED BY <2>2, <3>1, <3>2, <3>3, <3>4, <3>5 DEF Environment
    <2>3. ASSUME NEW spend \in Nat, NEW m \in MonthNumbers,
                 \/ ChargeAccount(NilUid, spend, MonthStart[m], MonthStart[m + 1])
                 \/ ChargeProject(NilUid, spend, MonthStart[m], MonthStart[m + 1])
                 \/ ChargeOrder(NilUid, spend, MonthStart[m], MonthStart[m + 1])
          PROVE  Q!Charging
        <3>1. m \in Q!MonthNumbers
            BY DEF MonthNumbers, Q!MonthNumbers
        <3> DEFINE s == MonthStart[m]
                   e == MonthStart[m + 1]
        <3>2. ASSUME NEW a, CreateBillingAccountSpend(NilUid, a, spend, s, e)
              PROVE  Q!CreateBillingAccountSpend(NilUid, a, spend, s, e)
            BY <3>2 DEF CreateBillingAccountSpend, Q!CreateBillingAccountSpend,
               DuplicateUid, Q!DuplicateUid, MissingParent, Q!MissingParent,
               Upsert, Q!Upsert, SameKey, Q!SameKey, SpendRow, Q!SpendRow,
               clock, tables, Q!clock, Q!tables
        <3>3. ASSUME NEW p, CreateProjectSpend(NilUid, p, spend, s, e)
              PROVE  Q!CreateProjectSpend(NilUid, p, spend, s, e)
            BY <3>3 DEF CreateProjectSpend, Q!CreateProjectSpend,
               DuplicateUid, Q!DuplicateUid, MissingParent, Q!MissingParent,
               Upsert, Q!Upsert, SameKey, Q!SameKey, SpendRow, Q!SpendRow,
               clock, tables, Q!clock, Q!tables
        <3>4. ASSUME NEW o, CreateOrderSpend(NilUid, o, spend, s, e)
              PROVE  Q!CreateOrderSpend(NilUid, o, spend, s, e)
            BY <3>4 DEF CreateOrderSpend, Q!CreateOrderSpend,
               DuplicateUid, Q!DuplicateUid, MissingParent, Q!MissingParent,
               Upsert, Q!Upsert, SameKey, Q!SameKey, SpendRow, Q!SpendRow,
               clock, tables, Q!clock, Q!tables
        <3> QED BY <2>3, <3>1, <3>2, <3>3, <3>4 DEF ChargeAccount, ChargeProject,
                ChargeOrder, Q!Charging
    <2> QED BY <1>2, <2>1, <2>2, <2>3, RunStatement DEF Q!Next
<1> QED BY <1>1, <1>2, SpecIInv, PTL DEF Spec, Q!Spec

\* A run only ever works through finite sets.
THEOREM MemoryIsFinite ==
    Spec => [](IsFiniteSet(accounts) /\ IsFiniteSet(orders) /\ IsFiniteSet(leases))
<1>1. FiniteInv =>
        IsFiniteSet(accounts) /\ IsFiniteSet(orders) /\ IsFiniteSet(leases)
    BY DEF FiniteInv
<1> QED BY <1>1, InitFinite, SpecIInv, NextFinite, PTL DEF Spec

\* Each step of a run brings it nearer to its end, in an order without infinite
\* descent over the finite sets it works through (MemoryIsFinite): so a run makes
\* finitely many calls, whatever other clients add to the tables meanwhile.
THEOREM StepsLeadToTheEnd == Spec => RunsGetNearer
<1>1. ASSUME IInv, [Next]_vars
      PROVE  [pc # "idle" => \/ pc' = "idle"
                             \/ Nearer
                             \/ UNCHANGED billerVars]_vars
    <2> SUFFICES ASSUME pc # "idle", pc' # "idle", ~ UNCHANGED billerVars
                 PROVE  Nearer
        OBVIOUS
    <2>1. CASE RunSetWindow
        BY <2>1 DEF RunSetWindow, Nearer, Stage
    <2>2. CASE ListOrders
        BY <2>2 DEF ListOrders, FirstAccounts, Nearer, Fewer
    <2>3. CASE ListLeases
        BY <2>3 DEF ListLeases, Nearer, Fewer
    <2>4. CASE AddLease
        BY <2>4 DEF AddLease, Nearer, Fewer
    <2>5. CASE WriteOrderSpend
        BY <2>5 DEF WriteOrderSpend, memory, Nearer, Stage
    <2>6. CASE WriteProjectSpend
        BY <2>6 DEF WriteProjectSpend, memory, Nearer, Stage
    <2>7. CASE WriteAccountSpend
        BY <2>7 DEF WriteAccountSpend, memory, Nearer, Stage
    <2> QED BY <1>1, <2>1, <2>2, <2>3, <2>4, <2>5, <2>6, <2>7
            DEF Next, Run, RunListAccounts, CalculateDemandSpend, Faulty, Leave,
            RunReturn, AddLeaseFails, RefuseOrderSpend, RefuseProjectSpend,
            RefuseAccountSpend, ListAccountsFails, CallFails, AnswerLost, Crash,
            Environment, vars
<1> QED BY <1>1, SpecIInv, PTL DEF Spec, RunsGetNearer

\* A row of an order is exactly what its leases cost the month, as they were at
\* one instant of the run: what NoOvercharge bounds from above, in full.
THEOREM OrderRowsAreExact == Spec => OrdersChargedAsListed
<1>1. ASSUME IInv, FiniteInv, FiniteInv', [Next]_vars
      PROVE  [/\ pc' = "leases" => Due' = IF pc = "leases" THEN Due
                                          ELSE ListedCost(ord')
              /\ \A r \in order_spend' \ order_spend :
                    /\ r.id = ord /\ InWindow(r, startTime, endTime)
                    /\ r.spend = Due]_vars
    <2>1. \A r \in order_spend' \ order_spend :
            r.id = ord /\ InWindow(r, startTime, endTime) /\ r.spend = Due
        BY <1>1, NewOrderRow
    <2>2. ASSUME pc' = "leases"
          PROVE  Due' = IF pc = "leases" THEN Due ELSE ListedCost(ord')
        <3>1. CASE ListLeases
            BY <1>1, <3>1, DueListed DEF ListLeases
        <3>2. CASE AddLease
            BY <1>1, <3>2, DueKept DEF AddLease
        <3>3. CASE UNCHANGED billerVars
            BY <2>2, <3>3 DEF billerVars, memory, Due, SpendOf
        <3>4. Environment \/ UNCHANGED vars => UNCHANGED billerVars
            BY <1>1, EnvironmentStep DEF IInv, StoreInv, vars
        <3> QED BY <1>1, <2>2, <3>1, <3>2, <3>3, <3>4 DEF Next, Run,
                RunListAccounts, RunSetWindow, CalculateDemandSpend, ListOrders,
                WriteOrderSpend, WriteProjectSpend, WriteAccountSpend, Faulty,
                Leave, RunReturn, AddLeaseFails, RefuseOrderSpend,
                RefuseProjectSpend, RefuseAccountSpend, ListAccountsFails,
                CallFails, AnswerLost, Crash
    <2> QED BY <2>1, <2>2
<1> QED BY <1>1, InitFinite, SpecIInv, NextFinite, PTL
        DEF Spec, OrdersChargedAsListed
=============================================================================
