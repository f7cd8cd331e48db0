---------------------------- MODULE QuerierProofs ----------------------------
(* What the constraints of the schema guarantee whatever the callers do. *)
EXTENDS Querier, StoreProofs

\* The windows a caller passes are instants.
LEMMA MonthsAreInstants ==
    \A m \in MonthNumbers : MonthStart[m] \in Nat /\ MonthStart[m + 1] \in Nat
BY CalendarAssumption DEF MonthNumbers

\* A step of a client is a tick, a change of a table or of a spend table.
LEMMA NextCases ==
    ASSUME Next
    PROVE  \/ Tick
           \/ TableStep
           \/ \E uid \in Uids, spend \in Amounts, m \in MonthNumbers :
                \/ ChargeAccount(uid, spend, MonthStart[m], MonthStart[m + 1])
                \/ ChargeProject(uid, spend, MonthStart[m], MonthStart[m + 1])
                \/ ChargeOrder(uid, spend, MonthStart[m], MonthStart[m + 1])
BY DEF Next, Accounting, Projecting, Ordering, Leasing, Charging, TableStep,
       ChargeAccount, ChargeProject, ChargeOrder

Invariant == TypeOK /\ LeaseTimesOrdered /\ ReferentialIntegrity /\ KeysUnique

\* The empty database satisfies the constraints.
LEMMA InitInvariant == StoreInit => Invariant
<1> SUFFICES ASSUME StoreInit PROVE Invariant
    OBVIOUS
<1>1. MonthStart[0] = 0 /\ MonthStart[0] < MonthStart[0 + 1] /\ 0 \in MonthNumbers
    BY CalendarAssumption DEF MonthNumbers
<1>2. TypeOK
    BY <1>1 DEF StoreInit, TypeOK, StoreTypeOK, LedgerTypeOK
<1> QED BY <1>2 DEF StoreInit, Invariant, LeaseTimesOrdered,
        ReferentialIntegrity, KeysUnique, UniqueRows, Existing

\* Every statement keeps them, and the rows of the spend tables.
LEMMA NextInvariant ==
    ASSUME Invariant, [Next]_storeVars
    PROVE  /\ Invariant'
           /\ [/\ RowsPersist(billing_account_spend)
               /\ RowsPersist(project_spend)
               /\ RowsPersist(order_spend)]_ledger
<1> USE DEF Invariant, TypeOK
<1>1. CASE Tick
    <2>1. UNCHANGED <<tables, ledger>>
        BY <1>1 DEF Tick
    <2>2. StoreTypeOK' /\ LeaseTimesOrdered'
        BY <1>1, TickType, TickTimes
    <2> QED BY <2>1, <2>2
        DEF LedgerTypeOK, ReferentialIntegrity, KeysUnique, tables, ledger, Existing
<1>2. CASE TableStep
    <2>1. StoreTypeOK' /\ UNCHANGED <<clock, ledger>>
        BY <1>2, TableStepType
    <2>2. LeaseTimesOrdered' /\ ReferentialIntegrity'
        BY <1>2, TableStepTimes, TableStepReferences
    <2> QED BY <2>1, <2>2 DEF LedgerTypeOK, KeysUnique, ledger
<1>3. ASSUME NEW uid \in Uids, NEW spend \in Amounts, NEW m \in MonthNumbers,
             \/ ChargeAccount(uid, spend, MonthStart[m], MonthStart[m + 1])
             \/ ChargeProject(uid, spend, MonthStart[m], MonthStart[m + 1])
             \/ ChargeOrder(uid, spend, MonthStart[m], MonthStart[m + 1])
      PROVE  /\ Invariant'
             /\ RowsPersist(billing_account_spend)
             /\ RowsPersist(project_spend)
             /\ RowsPersist(order_spend)
    <2>1. spend \in Nat /\ MonthStart[m] \in Nat /\ MonthStart[m + 1] \in Nat
        BY MonthsAreInstants, AmountsAssumption
    <2>2. /\ LedgerTypeOK(Uids)'
          /\ KeysUnique'
          /\ ReferentialIntegrity'
          /\ RowsPersist(billing_account_spend)
          /\ RowsPersist(project_spend)
          /\ RowsPersist(order_spend)
          /\ UNCHANGED <<clock, tables>>
        BY <1>3, <2>1, ChargeStep
    <2>3. StoreTypeOK' /\ LeaseTimesOrdered'
        BY <2>2 DEF StoreTypeOK, LeaseTimesOrdered, Existing, clock, tables
    <2> QED BY <2>2, <2>3
<1>4. CASE UNCHANGED storeVars
    BY <1>4 DEF storeVars, clock, tables, ledger, StoreTypeOK,
        LedgerTypeOK, LeaseTimesOrdered, ReferentialIntegrity, KeysUnique, Existing
<1> QED BY <1>1, <1>2, <1>3, <1>4, NextCases

\* Whatever its clients do, the database holds rows of the right types.
THEOREM TypeCorrect == Spec => []TypeOK
<1>1. Invariant => TypeOK
    BY DEF Invariant
<1> QED BY InitInvariant, NextInvariant, <1>1, PTL DEF Spec

\* Whatever its clients do, no lease ends before it begins or in the future.
THEOREM LeasesOrdered == Spec => []LeaseTimesOrdered
<1>1. Invariant => LeaseTimesOrdered
    BY DEF Invariant
<1> QED BY InitInvariant, NextInvariant, <1>1, PTL DEF Spec

\* Whatever its clients do, what a month charges a lease for is the time it ran
\* in that month, less the nanosecond given away when it outlives it.
THEOREM MeteringIsExact == Spec => []MeteredExactly
<1>1. Invariant => MeteredExactly
    BY OrderedIsMetered DEF Invariant, TypeOK
<1> QED BY InitInvariant, NextInvariant, <1>1, PTL DEF Spec

\* Whatever its clients do, no reference is left without its row: above all no
\* project with spend disappears.
THEOREM ReferencesHold == Spec => []ReferentialIntegrity
<1>1. Invariant => ReferentialIntegrity
    BY DEF Invariant
<1> QED BY InitInvariant, NextInvariant, <1>1, PTL DEF Spec

\* Whatever its clients do, no id is charged twice for a window.
THEOREM KeysStayUnique == Spec => []KeysUnique
<1>1. Invariant => KeysUnique
    BY DEF Invariant
<1> QED BY InitInvariant, NextInvariant, <1>1, PTL DEF Spec

\* Whatever its clients do, a stored row of a spend table stays, with its keys.
THEOREM RowsAreKept == Spec => LedgerRowsPersist
<1> QED BY InitInvariant, NextInvariant, PTL DEF Spec, LedgerRowsPersist
=============================================================================
