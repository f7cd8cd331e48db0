------------------------------- MODULE Querier -------------------------------
(***************************************************************************)
(* Any client of store.Querier: every statement, with every argument, in   *)
(* every order.  What holds here holds whatever the callers do.            *)
(***************************************************************************)
EXTENDS Store

CONSTANTS
    Uids,           \* primary keys a caller may pass
    Amounts         \* amounts a caller may pass

ASSUME AmountsAssumption == Amounts \subseteq Nat

Accounting ==
    \E a \in Accounts :
        \/ CreateBillingAccount(a)
        \/ EnableBillingAccountDemand(a)
        \/ EnableBillingAccountSupply(a)

Projecting ==
    \E p \in Projects :
        \/ DeleteProject(p)
        \/ \E a \in Accounts : CreateProject(p, a) \/ UpdateProject(p, a)

Ordering ==
    \E o \in Orders :
        \/ \E p \in Projects, a \in Accounts : CreateOrder(o, p, a)
        \/ \E status \in OrderStatus : EndOrder(o, status)

Leasing ==
    \E l \in Leases :
        \/ \E o \in Orders, price \in Prices : CreateLease(l, o, price)
        \/ \E status \in LeaseStatus : EndLease(l, status)

Charging ==
    \E uid \in Uids, spend \in Amounts, m \in MonthNumbers :
        LET s == MonthStart[m]
            e == MonthStart[m + 1]
        IN  \/ \E a \in Accounts : CreateBillingAccountSpend(uid, a, spend, s, e)
            \/ \E p \in Projects : CreateProjectSpend(uid, p, spend, s, e)
            \/ \E o \in Orders : CreateOrderSpend(uid, o, spend, s, e)

Next == Tick \/ Accounting \/ Projecting \/ Ordering \/ Leasing \/ Charging

Spec == StoreInit /\ [][Next]_storeVars

-----------------------------------------------------------------------------
\* Types of the clock, the tables and the rows of the spend tables.
TypeOK == StoreTypeOK /\ LedgerTypeOK(Uids)
=============================================================================
