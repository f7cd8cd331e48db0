----------------------------- MODULE StoreProofs -----------------------------
(***************************************************************************)
(* What the arithmetic of Metering guarantees for every lease and window,  *)
(* and what every statement of Store preserves, whoever issues it: the     *)
(* facts that the proofs about its clients rest on.                        *)
(***************************************************************************)
EXTENDS Store, FiniteSetTheorems, TLAPS

(* Metering. *)

\* The hours charged to a lease the query selects are never negative, and never
\* more than the window less the nanosecond that is given away: the guards of
\* the query are what the clipping in calculateDemandSpend relies on.
THEOREM DurationBounds ==
    ASSUME NEW l, OrderedLease(l), NEW s \in Nat, NEW e \in Nat, s < e,
           InTimeRange(l, s, e)
    PROVE  LeaseDuration(l, s, e) \in 0 .. e - 1 - s
<1>1. CASE l.end_time = NULL
    BY <1>1 DEF OrderedLease, InTimeRange, LeaseDuration, LeaseStartTime,
                LeaseEndTime
<1>2. CASE l.end_time # NULL
    BY <1>2 DEF OrderedLease, InTimeRange, LeaseDuration, LeaseStartTime,
                LeaseEndTime
<1> QED BY <1>1, <1>2

\* Billing a period in two windows that meet charges a lease what billing it in
\* one would, less the nanosecond given away where they meet: nothing is
\* charged twice, and at most one nanosecond is lost at each turn of a month.
THEOREM WindowsSplit ==
    ASSUME NEW l, OrderedLease(l),
           NEW s \in Nat, NEW m \in Nat, NEW e \in Nat, s < m, m < e
    PROVE  Charged(l, s, m) + Charged(l, m, e)
             = Charged(l, s, e) - GivenAway(l, s, m)
<1> USE NullAssumption DEF OrderedLease, InTimeRange, Charged, LeaseDuration,
        LeaseStartTime, LeaseEndTime, GivenAway, RunningAt
<1>1. CASE l.end_time = NULL
    BY <1>1
<1>2. CASE l.end_time # NULL
    BY <1>2
<1> QED BY <1>1, <1>2

\* A window charges a lease for exactly the instants at which it is running in
\* that window, less the one given away when it outlives the window: what
\* calculateDemandSpend computes from two dates is the length of that set.
THEOREM ChargedIsRunningTime ==
    ASSUME NEW l, OrderedLease(l), NEW s \in Nat, NEW e \in Nat, s < e
    PROVE  Charged(l, s, e) = RunningTime(l, s, e) - GivenAway(l, s, e)
<1> DEFINE first == IF l.create_time > s THEN l.create_time ELSE s
           past == IF l.end_time # NULL /\ l.end_time < e THEN l.end_time ELSE e
<1>1. first \in Nat /\ past \in Nat
    BY DEF OrderedLease
<1>2. {t \in s .. e - 1 : RunningAt(l, t)} = first .. past - 1
    BY NullAssumption DEF OrderedLease, RunningAt
<1>3. RunningTime(l, s, e) = IF first > past - 1 THEN 0 ELSE past - first
    <2>1. RunningTime(l, s, e) = Cardinality(first .. past - 1)
        BY <1>2, Zenon DEF RunningTime
    <2> HIDE DEF first, past
    <2>2. Cardinality(first .. past - 1)
            = IF first > past - 1 THEN 0 ELSE past - 1 - first + 1
        BY <1>1, FS_Interval
    <2> QED BY <2>1, <2>2, <1>1
<1> USE NullAssumption DEF OrderedLease, InTimeRange, Charged, LeaseDuration,
        LeaseStartTime, LeaseEndTime, GivenAway, RunningAt
<1>4. CASE l.end_time = NULL
    BY <1>3, <1>4
<1>5. CASE l.end_time # NULL
    BY <1>3, <1>5
<1> QED BY <1>4, <1>5

-----------------------------------------------------------------------------
(* Statements. *)

\* The changes of the tables that are not spend tables.
TableStep ==
    \/ \E a \in Accounts :
        \/ CreateBillingAccount(a)
        \/ EnableBillingAccountDemand(a)
        \/ EnableBillingAccountSupply(a)
    \/ \E p \in Projects :
        \/ DeleteProject(p)
        \/ \E a \in Accounts : CreateProject(p, a) \/ UpdateProject(p, a)
    \/ \E o \in Orders :
        \/ \E p \in Projects, a \in Accounts : CreateOrder(o, p, a)
        \/ \E status \in OrderStatus : EndOrder(o, status)
    \/ \E l \in Leases :
        \/ \E o \in Orders, price \in Prices : CreateLease(l, o, price)
        \/ \E status \in LeaseStatus : EndLease(l, status)

-----------------------------------------------------------------------------
(* Upsert. *)

\* An upsert leaves rows of the right type.
LEMMA UpsertType ==
    ASSUME NEW uids, NEW ids, NEW table \in SUBSET SpendRows(uids, ids),
           NEW uid \in uids, NEW id \in ids, NEW spend \in Nat,
           NEW s \in Nat, NEW e \in Nat
    PROVE  Upsert(table, uid, id, spend, s, e) \subseteq SpendRows(uids, ids)
BY DEF Upsert, SameKey, SpendRow, SpendRows

\* An upsert that the primary key admits keeps both keys unique.
LEMMA UpsertKeepsKeys ==
    ASSUME NEW uids, NEW ids, NEW table \in SUBSET SpendRows(uids, ids),
           NEW uid, NEW id, NEW spend, NEW s, NEW e,
           UniqueRows(table), ~ DuplicateUid(table, uid, id, s, e)
    PROVE  UniqueRows(Upsert(table, uid, id, spend, s, e))
<1> DEFINE hit == SameKey(table, id, s, e)
<1>1. CASE hit = {}
    BY <1>1 DEF Upsert, SameKey, SpendRow, UniqueRows, DuplicateUid
<1>2. CASE hit # {}
    <2>1. PICK old \in table : hit = {old}
        BY <1>2 DEF SameKey, UniqueRows
    <2>2. Upsert(table, uid, id, spend, s, e)
            = (table \ {old}) \cup {[old EXCEPT !.spend = spend]}
        BY <2>1, <1>2 DEF Upsert
    <2> QED BY <2>1, <2>2 DEF UniqueRows, SpendRows
<1> QED BY <1>1, <1>2

\* The rows of an upsert are for ids and windows that had a row, or for those
\* upserted.
LEMMA UpsertRows ==
    ASSUME NEW uids, NEW ids, NEW table \in SUBSET SpendRows(uids, ids),
           NEW uid, NEW id, NEW spend, NEW s, NEW e
    PROVE  \A r \in Upsert(table, uid, id, spend, s, e) :
              \/ \E q \in table : /\ q.id = r.id
                                  /\ q.start_time = r.start_time
                                  /\ q.end_time = r.end_time
              \/ /\ r.id = id /\ r.start_time = s /\ r.end_time = e
                 /\ SameKey(table, id, s, e) = {}
BY DEF Upsert, SameKey, SpendRow, SpendRows

\* No row goes away, and none changes its keys.
LEMMA UpsertPersists ==
    ASSUME NEW uids, NEW ids, NEW table \in SUBSET SpendRows(uids, ids),
           NEW uid, NEW id, NEW spend, NEW s, NEW e
    PROVE  \A r \in table : \E q \in Upsert(table, uid, id, spend, s, e) :
              SpendRow(r.uid, r.id, q.spend, r.start_time, r.end_time) = q
<1> SUFFICES ASSUME NEW r \in table
             PROVE  \E q \in Upsert(table, uid, id, spend, s, e) :
                      SpendRow(r.uid, r.id, q.spend, r.start_time, r.end_time) = q
    OBVIOUS
<1>1. CASE r \in SameKey(table, id, s, e)
    <2>1. [r EXCEPT !.spend = spend] \in Upsert(table, uid, id, spend, s, e)
        BY <1>1 DEF Upsert
    <2>2. [r EXCEPT !.spend = spend]
            = SpendRow(r.uid, r.id, spend, r.start_time, r.end_time)
        BY DEF SpendRows, SpendRow
    <2>3. [r EXCEPT !.spend = spend].spend = spend
        BY DEF SpendRows
    <2> DEFINE q == [r EXCEPT !.spend = spend]
    <2>4. SpendRow(r.uid, r.id, q.spend, r.start_time, r.end_time) = q
        BY <2>2, <2>3, Zenon
    <2> QED BY <2>1, <2>4, Zenon
<1>2. CASE r \notin SameKey(table, id, s, e)
    <2>1. r \in Upsert(table, uid, id, spend, s, e)
        BY <1>2 DEF Upsert
    <2>2. r = SpendRow(r.uid, r.id, r.spend, r.start_time, r.end_time)
        BY DEF SpendRows, SpendRow
    <2> QED BY <2>1, <2>2
<1> QED BY <1>1, <1>2

\* The ids of an upsert are those of the table and the one upserted.
LEMMA UpsertIds ==
    ASSUME NEW uids, NEW ids, NEW table \in SUBSET SpendRows(uids, ids),
           NEW uid, NEW id, NEW spend, NEW s, NEW e
    PROVE  \A r \in Upsert(table, uid, id, spend, s, e) :
              r.id \in {id} \cup {q.id : q \in table}
BY DEF Upsert, SameKey, SpendRow, SpendRows

\* A row that was not there is for this id and window, with this spend.
LEMMA UpsertNew ==
    ASSUME NEW uids, NEW ids, NEW table \in SUBSET SpendRows(uids, ids),
           NEW uid, NEW id, NEW spend, NEW s, NEW e
    PROVE  \A r \in Upsert(table, uid, id, spend, s, e) \ table :
              r.id = id /\ r.start_time = s /\ r.end_time = e /\ r.spend = spend
BY DEF Upsert, SameKey, SpendRow, SpendRows

\* Afterwards the row of this id and window holds the new spend, and the rows
\* of other ids and windows are what they were.
LEMMA UpsertStores ==
    ASSUME NEW uids, NEW ids, NEW table \in SUBSET SpendRows(uids, ids),
           NEW uid, NEW id, NEW spend, NEW s, NEW e
    PROVE  /\ \E r \in Upsert(table, uid, id, spend, s, e) :
                r.id = id /\ r.start_time = s /\ r.end_time = e /\ r.spend = spend
           /\ \A r \in table : r.id # id => r \in Upsert(table, uid, id, spend, s, e)
<1>1. CASE SameKey(table, id, s, e) = {}
    <2>1. Upsert(table, uid, id, spend, s, e)
            = table \cup {SpendRow(uid, id, spend, s, e)}
        BY <1>1 DEF Upsert
    <2>2. SpendRow(uid, id, spend, s, e) \in Upsert(table, uid, id, spend, s, e)
        BY <2>1
    <2>3. LET r == SpendRow(uid, id, spend, s, e)
          IN  r.id = id /\ r.start_time = s /\ r.end_time = e /\ r.spend = spend
        BY DEF SpendRow
    <2> QED BY <2>1, <2>2, <2>3
<1>2. ASSUME NEW old \in SameKey(table, id, s, e)
      PROVE  \E r \in Upsert(table, uid, id, spend, s, e) :
                r.id = id /\ r.start_time = s /\ r.end_time = e /\ r.spend = spend
    <2>1. [old EXCEPT !.spend = spend] \in Upsert(table, uid, id, spend, s, e)
        BY <1>2 DEF Upsert
    <2>2. old \in SpendRows(uids, ids) /\ old.id = id /\ old.start_time = s
            /\ old.end_time = e
        BY <1>2 DEF SameKey
    <2> QED BY <2>1, <2>2 DEF SpendRows
<1>3. \A r \in table : r.id # id => r \in Upsert(table, uid, id, spend, s, e)
    BY DEF Upsert, SameKey
<1>4. CASE SameKey(table, id, s, e) # {}
    <2>1. PICK old : old \in SameKey(table, id, s, e)
        BY <1>4, Zenon
    <2> QED BY <2>1, <1>2, <1>3, Zenon
<1> QED BY <1>1, <1>3, <1>4, Zenon

-----------------------------------------------------------------------------
(* The clock and the tables. *)

\* The clock stays within the calendar, and its month is the one it is in.
LEMMA TickType ==
    ASSUME StoreTypeOK, Tick
    PROVE  StoreTypeOK' /\ now' = now + 1
<1> USE CalendarAssumption DEF StoreTypeOK, Tick, tables, MonthNumbers
<1>1. month \in Nat /\ month < Months /\ now' = now + 1
    OBVIOUS
<1>2. CASE now + 1 = MonthStart[month + 1]
    <2>1. month + 1 # Months
        <3> SUFFICES ASSUME month + 1 = Months PROVE FALSE
            OBVIOUS
        <3>1. now + 1 = MonthStart[Months] /\ now + 1 < MonthStart[Months]
            BY <1>2
        <3> QED BY <3>1, <1>1
    <2>2. month + 1 \in 0 .. Months - 1 /\ month' = month + 1
        BY <1>1, <1>2, <2>1
    <2>3. MonthStart[month + 1] < MonthStart[(month + 1) + 1]
        BY <2>2
    <2> QED BY <1>1, <1>2, <2>2, <2>3
<1>3. CASE now + 1 # MonthStart[month + 1]
    <2>1. MonthStart[month + 1] \in Nat /\ MonthStart[month] \in Nat
        BY <1>1
    <2> QED BY <1>1, <1>3, <2>1
<1> QED BY <1>2, <1>3

\* A statement on a billing account replaces its row by another row.
LEMMA AccountStep ==
    ASSUME StoreTypeOK, NEW a \in Accounts,
           \/ CreateBillingAccount(a)
           \/ EnableBillingAccountDemand(a)
           \/ EnableBillingAccountSupply(a)
    PROVE  /\ \E row \in BillingAccountRow :
                billing_account' = [billing_account EXCEPT ![a] = row]
           /\ UNCHANGED <<now, month, project, order, lease, ledger>>
<1> USE DEF StoreTypeOK, clock
<1>1. \E row \in BillingAccountRow :
            billing_account' = [billing_account EXCEPT ![a] = row]
    <2>1. CASE CreateBillingAccount(a)
        <3>1. [create_time |-> now, demand_enabled |-> FALSE,
               supply_enabled |-> FALSE] \in BillingAccountRow
            BY Zenon DEF BillingAccountRow
        <3> QED BY <2>1, <3>1, Zenon DEF CreateBillingAccount
    <2>2. CASE EnableBillingAccountDemand(a)
        <3>1. billing_account[a] \in BillingAccountRow
            BY <2>2, Zenon DEF EnableBillingAccountDemand
        <3>2. [billing_account[a] EXCEPT !.demand_enabled = TRUE]
                \in BillingAccountRow
            BY <3>1, Zenon DEF BillingAccountRow
        <3> QED BY <2>2, <3>2, Zenon DEF EnableBillingAccountDemand
    <2>3. CASE EnableBillingAccountSupply(a)
        <3>1. billing_account[a] \in BillingAccountRow
            BY <2>3, Zenon DEF EnableBillingAccountSupply
        <3>2. [billing_account[a] EXCEPT !.supply_enabled = TRUE]
                \in BillingAccountRow
            BY <3>1, Zenon DEF BillingAccountRow
        <3> QED BY <2>3, <3>2, Zenon DEF EnableBillingAccountSupply
    <2> QED BY <2>1, <2>2, <2>3
<1>2. UNCHANGED <<now, month, project, order, lease, ledger>>
    BY DEF CreateBillingAccount, EnableBillingAccountDemand,
           EnableBillingAccountSupply
<1> QED BY <1>1, <1>2

\* The statements keep the types of the tables.
LEMMA TableStepType ==
    ASSUME StoreTypeOK, TableStep
    PROVE  StoreTypeOK' /\ UNCHANGED <<clock, ledger>>
<1> USE DEF StoreTypeOK, clock, ledger
<1>1. ASSUME NEW a \in Accounts,
             \/ CreateBillingAccount(a)
             \/ EnableBillingAccountDemand(a)
             \/ EnableBillingAccountSupply(a)
      PROVE  StoreTypeOK' /\ UNCHANGED <<clock, ledger>>
    <2>1. PICK row \in BillingAccountRow :
            billing_account' = [billing_account EXCEPT ![a] = row]
        BY <1>1, AccountStep
    <2>2. UNCHANGED <<now, month, project, order, lease, ledger>>
        BY <1>1, AccountStep
    <2> QED BY <2>1, <2>2
<1>2. ASSUME NEW p \in Projects, DeleteProject(p)
      PROVE  StoreTypeOK' /\ UNCHANGED <<clock, ledger>>
    BY <1>2 DEF DeleteProject
<1>3. ASSUME NEW p \in Projects, NEW a \in Accounts,
             CreateProject(p, a) \/ UpdateProject(p, a)
      PROVE  StoreTypeOK' /\ UNCHANGED <<clock, ledger>>
    BY <1>3 DEF CreateProject, UpdateProject, ProjectRow
<1>4. ASSUME NEW o \in Orders, NEW p \in Projects, NEW a \in Accounts,
             CreateOrder(o, p, a)
      PROVE  StoreTypeOK' /\ UNCHANGED <<clock, ledger>>
    BY <1>4 DEF CreateOrder, OrderRow, OrderStatus
<1>5. ASSUME NEW o \in Orders, NEW status \in OrderStatus, EndOrder(o, status)
      PROVE  StoreTypeOK' /\ UNCHANGED <<clock, ledger>>
    BY <1>5 DEF EndOrder, OrderRow
<1>6. ASSUME NEW l \in Leases, NEW o \in Orders, NEW price \in Prices,
             CreateLease(l, o, price)
      PROVE  StoreTypeOK' /\ UNCHANGED <<clock, ledger>>
    BY <1>6 DEF CreateLease, LeaseRow, LeaseStatus
<1>7. ASSUME NEW l \in Leases, NEW status \in LeaseStatus, EndLease(l, status)
      PROVE  StoreTypeOK' /\ UNCHANGED <<clock, ledger>>
    BY <1>7 DEF EndLease, LeaseRow
<1> QED BY <1>1, <1>2, <1>3, <1>4, <1>5, <1>6, <1>7 DEF TableStep

\* Leases keep ending after they begin, whatever the statement.
LEMMA TableStepTimes ==
    ASSUME StoreTypeOK, LeaseTimesOrdered, TableStep
    PROVE  LeaseTimesOrdered'
<1> USE NullAssumption DEF StoreTypeOK, clock, LeaseTimesOrdered, Existing
<1>1. CASE UNCHANGED <<lease, now>>
    BY <1>1
<1>2. ASSUME NEW k \in Leases, NEW o \in Orders, NEW price \in Prices,
             CreateLease(k, o, price)
      PROVE  LeaseTimesOrdered'
    BY <1>2 DEF CreateLease
<1>3. ASSUME NEW k \in Leases, NEW status \in LeaseStatus, EndLease(k, status)
      PROVE  LeaseTimesOrdered'
    <2>1. lease[k] \in LeaseRow /\ k \in Existing(lease)
        BY <1>3 DEF EndLease
    <2>2. /\ lease'[k].create_time = lease[k].create_time
          /\ lease'[k].end_time = now
        BY <1>3, <2>1 DEF EndLease, LeaseRow
    <2>3. \A l \in Leases \ {k} : lease'[l] = lease[l]
        BY <1>3 DEF EndLease
    <2>4. now' = now /\ DOMAIN lease' = DOMAIN lease /\ DOMAIN lease = Leases
        BY <1>3 DEF EndLease
    <2> QED BY <2>1, <2>2, <2>3, <2>4
<1>4. ASSUME ~ UNCHANGED <<lease, now>>
      PROVE  \E k \in Leases :
                \/ \E o \in Orders, price \in Prices : CreateLease(k, o, price)
                \/ \E status \in LeaseStatus : EndLease(k, status)
    BY <1>4 DEF TableStep, CreateBillingAccount, EnableBillingAccountDemand,
            EnableBillingAccountSupply, CreateProject, UpdateProject,
            DeleteProject, CreateOrder, EndOrder
<1> QED BY <1>1, <1>2, <1>3, <1>4

\* Time passing does not put a lease out of order.
LEMMA TickTimes ==
    ASSUME StoreTypeOK, LeaseTimesOrdered, Tick
    PROVE  LeaseTimesOrdered'
<1>1. lease' = lease /\ now' = now + 1
    BY DEF Tick, tables
<1>2. \A l \in Existing(lease) : lease[l] \in LeaseRow
    BY DEF Existing, StoreTypeOK
<1>3. now \in Nat
    BY DEF StoreTypeOK
<1> QED BY <1>1, <1>2, <1>3, NullAssumption
        DEF LeaseTimesOrdered, Existing, LeaseRow

\* No statement on the tables leaves a reference without its row.
LEMMA TableStepReferences ==
    ASSUME StoreTypeOK, ReferentialIntegrity, TableStep
    PROVE  ReferentialIntegrity'
<1> USE NoNullRow DEF StoreTypeOK, ledger, ReferentialIntegrity, Existing
<1>1. ASSUME NEW a \in Accounts,
             \/ CreateBillingAccount(a)
             \/ EnableBillingAccountDemand(a)
             \/ EnableBillingAccountSupply(a)
      PROVE  ReferentialIntegrity'
    <2>1. UNCHANGED <<project, order, lease, ledger>>
        BY <1>1, AccountStep
    <2>2. PICK row \in BillingAccountRow :
            billing_account' = [billing_account EXCEPT ![a] = row]
        BY <1>1, AccountStep
    <2> QED BY <2>1, <2>2
<1>2. ASSUME NEW p \in Projects, DeleteProject(p)
      PROVE  ReferentialIntegrity'
    BY <1>2 DEF DeleteProject
<1>3. ASSUME NEW p \in Projects, NEW a \in Accounts,
             CreateProject(p, a) \/ UpdateProject(p, a)
      PROVE  ReferentialIntegrity'
    BY <1>3 DEF CreateProject, UpdateProject, ProjectRow
<1>4. ASSUME NEW o \in Orders, NEW p \in Projects, NEW a \in Accounts,
             CreateOrder(o, p, a)
      PROVE  ReferentialIntegrity'
    BY <1>4 DEF CreateOrder, OrderRow, OrderStatus
<1>5. ASSUME NEW o \in Orders, NEW status \in OrderStatus, EndOrder(o, status)
      PROVE  ReferentialIntegrity'
    BY <1>5 DEF EndOrder, OrderRow
<1>6. ASSUME NEW l \in Leases, NEW o \in Orders, NEW price \in Prices,
             CreateLease(l, o, price)
      PROVE  ReferentialIntegrity'
    BY <1>6 DEF CreateLease, LeaseRow, LeaseStatus
<1>7. ASSUME NEW l \in Leases, NEW status \in LeaseStatus, EndLease(l, status)
      PROVE  ReferentialIntegrity'
    BY <1>7 DEF EndLease, LeaseRow
<1> QED BY <1>1, <1>2, <1>3, <1>4, <1>5, <1>6, <1>7 DEF TableStep

-----------------------------------------------------------------------------
(* The spend tables. *)

\* A spend row that the database accepts has its parent row.
LEMMA ChargeReferences ==
    ASSUME NEW uids, NEW ids, NEW table \in SUBSET SpendRows(uids, ids),
           NEW parents, DOMAIN parents = ids,
           \A r \in table : r.id \in Existing(parents),
           NEW uid, NEW id \in ids, NEW spend, NEW s, NEW e,
           ~ MissingParent(parents, table, id, s, e)
    PROVE  \A r \in Upsert(table, uid, id, spend, s, e) : r.id \in Existing(parents)
BY UpsertRows DEF MissingParent, Existing

ChargeAccount(uid, spend, s, e) ==
    \E a \in Accounts : CreateBillingAccountSpend(uid, a, spend, s, e)
ChargeProject(uid, spend, s, e) ==
    \E p \in Projects : CreateProjectSpend(uid, p, spend, s, e)
ChargeOrder(uid, spend, s, e) ==
    \E o \in Orders : CreateOrderSpend(uid, o, spend, s, e)

\* The three inserts keep types, keys, references and the rows there were.
LEMMA ChargeStep ==
    ASSUME NEW uids, StoreTypeOK, LedgerTypeOK(uids), NEW uid \in uids,
           NEW spend \in Nat, NEW s \in Nat, NEW e \in Nat,
           \/ ChargeAccount(uid, spend, s, e)
           \/ ChargeProject(uid, spend, s, e)
           \/ ChargeOrder(uid, spend, s, e)
    PROVE  /\ LedgerTypeOK(uids)'
           /\ KeysUnique => KeysUnique'
           /\ ReferentialIntegrity => ReferentialIntegrity'
           /\ RowsPersist(billing_account_spend)
           /\ RowsPersist(project_spend)
           /\ RowsPersist(order_spend)
           /\ UNCHANGED <<clock, tables>>
<1>0. ASSUME NEW ids, NEW table \in SUBSET SpendRows(uids, ids)
      PROVE  \A r \in table : \E q \in table :
                SpendRow(r.uid, r.id, q.spend, r.start_time, r.end_time) = q
    <2> SUFFICES ASSUME NEW r \in table
                 PROVE  SpendRow(r.uid, r.id, r.spend, r.start_time, r.end_time) = r
        OBVIOUS
    <2> QED BY DEF SpendRow, SpendRows
<1> USE DEF LedgerTypeOK, KeysUnique, ReferentialIntegrity, RowsPersist, tables
<1>1. ASSUME NEW a \in Accounts, CreateBillingAccountSpend(uid, a, spend, s, e)
      PROVE  /\ LedgerTypeOK(uids)'
             /\ KeysUnique => KeysUnique'
             /\ ReferentialIntegrity => ReferentialIntegrity'
             /\ RowsPersist(billing_account_spend)
             /\ RowsPersist(project_spend)
             /\ RowsPersist(order_spend)
             /\ UNCHANGED <<clock, tables>>
    <2>1. LedgerTypeOK(uids)'
        BY <1>1, UpsertType DEF CreateBillingAccountSpend
    <2>2. KeysUnique => KeysUnique'
        BY <1>1, UpsertKeepsKeys DEF CreateBillingAccountSpend
    <2>3. ReferentialIntegrity => ReferentialIntegrity'
        BY <1>1, ChargeReferences DEF CreateBillingAccountSpend, StoreTypeOK
    <2>4. RowsPersist(billing_account_spend)
        BY <1>1, UpsertPersists DEF CreateBillingAccountSpend
    <2>5. RowsPersist(project_spend) /\ RowsPersist(order_spend)
        BY <1>1, <1>0 DEF CreateBillingAccountSpend
    <2> QED BY <1>1, <2>1, <2>2, <2>3, <2>4, <2>5 DEF CreateBillingAccountSpend
<1>2. ASSUME NEW p \in Projects, CreateProjectSpend(uid, p, spend, s, e)
      PROVE  /\ LedgerTypeOK(uids)'
             /\ KeysUnique => KeysUnique'
             /\ ReferentialIntegrity => ReferentialIntegrity'
             /\ RowsPersist(billing_account_spend)
             /\ RowsPersist(project_spend)
             /\ RowsPersist(order_spend)
             /\ UNCHANGED <<clock, tables>>
    <2>1. LedgerTypeOK(uids)'
        BY <1>2, UpsertType DEF CreateProjectSpend
    <2>2. KeysUnique => KeysUnique'
        BY <1>2, UpsertKeepsKeys DEF CreateProjectSpend
    <2>3. ReferentialIntegrity => ReferentialIntegrity'
        BY <1>2, ChargeReferences DEF CreateProjectSpend, StoreTypeOK
    <2>4. RowsPersist(project_spend)
        BY <1>2, UpsertPersists DEF CreateProjectSpend
    <2>5. RowsPersist(billing_account_spend) /\ RowsPersist(order_spend)
        BY <1>2, <1>0 DEF CreateProjectSpend
    <2> QED BY <1>2, <2>1, <2>2, <2>3, <2>4, <2>5 DEF CreateProjectSpend
<1>3. ASSUME NEW o \in Orders, CreateOrderSpend(uid, o, spend, s, e)
      PROVE  /\ LedgerTypeOK(uids)'
             /\ KeysUnique => KeysUnique'
             /\ ReferentialIntegrity => ReferentialIntegrity'
             /\ RowsPersist(billing_account_spend)
             /\ RowsPersist(project_spend)
             /\ RowsPersist(order_spend)
             /\ UNCHANGED <<clock, tables>>
    <2>1. LedgerTypeOK(uids)'
        BY <1>3, UpsertType DEF CreateOrderSpend
    <2>2. KeysUnique => KeysUnique'
        BY <1>3, UpsertKeepsKeys DEF CreateOrderSpend
    <2>3. ReferentialIntegrity => ReferentialIntegrity'
        BY <1>3, ChargeReferences DEF CreateOrderSpend, StoreTypeOK
    <2>4. RowsPersist(order_spend)
        BY <1>3, UpsertPersists DEF CreateOrderSpend
    <2>5. RowsPersist(billing_account_spend) /\ RowsPersist(project_spend)
        BY <1>3, <1>0 DEF CreateOrderSpend
    <2> QED BY <1>3, <2>1, <2>2, <2>3, <2>4, <2>5 DEF CreateOrderSpend
<1> QED BY <1>1, <1>2, <1>3 DEF ChargeAccount, ChargeProject, ChargeOrder

-----------------------------------------------------------------------------
(* Metering of the table. *)

\* Leases that are ordered are metered exactly, in every month of the calendar.
LEMMA OrderedIsMetered ==
    ASSUME StoreTypeOK, LeaseTimesOrdered PROVE MeteredExactly
<1> SUFFICES ASSUME NEW l \in Existing(lease), NEW m \in MonthNumbers
             PROVE  LET s == MonthStart[m]
                        e == MonthStart[m + 1]
                    IN  Charged(lease[l], s, e)
                          = RunningTime(lease[l], s, e)
                              - GivenAway(lease[l], s, e)
    BY DEF MeteredExactly
<1>1. OrderedLease(lease[l])
    BY DEF StoreTypeOK, LeaseTimesOrdered, OrderedLease, Existing, LeaseRow
<1>2. /\ MonthStart[m] \in Nat /\ MonthStart[m + 1] \in Nat
      /\ MonthStart[m] < MonthStart[m + 1]
    BY CalendarAssumption DEF MonthNumbers
<1> QED BY <1>1, <1>2, ChargedIsRunningTime
=============================================================================
