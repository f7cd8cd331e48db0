--------------------------- MODULE ServicesProofs ---------------------------
(* The services, for any number of clients, accounts and projects. *)
EXTENDS Services, StoreProofs

ProjectWrite(c, way) == [client |-> c, id |-> request[c].id, way |-> way]

\* The row that the transaction of a request takes hold of.
LockOf(c) ==
    CASE request[c].kind = "CreateProject" -> ProjectWrite(c, "insert")
      [] request[c].kind = "DeleteProject" -> ProjectWrite(c, "delete")
      [] request[c].kind = "CreateBillingAccount" ->
            [client |-> c, id |-> request[c].account, way |-> "insert account"]
      [] OTHER -> ProjectWrite(c, "lock")

\* A transaction that is about to commit or update holds its row, and no lock
\* outlives its transaction.
LocksAreHeld ==
    /\ \A h \in locks :
          /\ h = LockOf(h.client)
          /\ \/ step[h.client] = "commit"
             \/ /\ step[h.client] \in {"demand", "update"}
                /\ request[h.client].kind = "UpdateProject"
    /\ \A c \in Clients : step[c] = "commit" => LockOf(c) \in locks

Enabled(a) == billing_account[a] # NULL /\ billing_account[a].demand_enabled

\* Past the check of its account, CreateProject is for an account that is
\* enabled: nothing disables one.
CheckedAccounts ==
    \A c \in Clients :
        /\ step[c] \in {"exists", "insert", "commit"}
        /\ request[c].kind = "CreateProject"
        => Enabled(request[c].account)

IInv == TypeOK /\ ProjectsFunded /\ WritesFit /\ LocksAreHeld /\ CheckedAccounts

-----------------------------------------------------------------------------
\* What the fields of a request are.
LEMMA RequestFields ==
    ASSUME NEW r \in Request
    PROVE  /\ r.kind \in {"CreateProject", "UpdateProject", "DeleteProject"}
                => r.id \in Projects
           /\ r.kind \in {"GetProject", "GetProjectCurrentSpend",
                          "GetProjectSpendHistory"} => r.id \in Projects
           /\ r.kind \in {"CreateProject", "UpdateProject", "CreateBillingAccount",
                          "GetBillingAccount"} => r.account \in Accounts
           /\ r.kind \in {"CreateProject", "UpdateProject", "DeleteProject",
                          "GetProject", "GetProjectCurrentSpend",
                          "GetProjectSpendHistory", "CreateBillingAccount",
                          "GetBillingAccount", "ListProjects",
                          "ListBillingAccounts"}
BY DEF Request

\* Which request a handler serves follows from its step.
LEMMA Serving ==
    ASSUME TypeOK, NEW c \in Clients, step[c] # "idle"
    PROVE  /\ request[c] \in Request
           /\ step[c] \in StepsOf(request[c].kind)
           /\ step[c] \in {"exists", "insert"} => request[c].kind = "CreateProject"
           /\ step[c] = "demand"
                => request[c].kind \in {"CreateProject", "UpdateProject"}
           /\ step[c] = "delete" => request[c].kind = "DeleteProject"
           /\ step[c] \in {"lock", "update"} => request[c].kind = "UpdateProject"
           /\ step[c] = "insert account" => request[c].kind = "CreateBillingAccount"
           /\ step[c] = "commit"
                => request[c].kind \in {"CreateProject", "DeleteProject",
                                        "CreateBillingAccount"}
<1>1. request[c] \in Request /\ step[c] \in StepsOf(request[c].kind)
    BY DEF TypeOK
<1> QED BY <1>1, RequestFields DEF StepsOf

\* The empty database and idle handlers satisfy the invariant.
LEMMA InitIInv == Init => IInv
<1> SUFFICES ASSUME Init PROVE IInv
    OBVIOUS
<1>1. MonthStart[0] = 0 /\ MonthStart[0] < MonthStart[0 + 1] /\ 0 \in MonthNumbers
    BY CalendarAssumption DEF MonthNumbers
<1>2. StoreTypeOK /\ LedgerTypeOK({NilUid})
    BY <1>1 DEF Init, StoreInit, StoreTypeOK, LedgerTypeOK
<1> QED BY <1>2 DEF Init, StoreInit, IInv, TypeOK, ProjectsFunded, Existing,
        WritesFit, LocksAreHeld, CheckedAccounts, Steps

-----------------------------------------------------------------------------
(* The ways a handler moves, while the tables stay as they are. *)

\* The types of the handlers' variables, apart from those of the tables.
HandlersTypeOK ==
    /\ step \in [Clients -> Steps]
    /\ request \in [Clients -> Request \cup {NULL}]
    /\ locks \subseteq Locks
    /\ \A c \in Clients :
          IF step[c] = "idle" THEN request[c] = NULL
          ELSE request[c] # NULL /\ step[c] \in StepsOf(request[c].kind)

\* An answer ends the transaction and its locks, and leaves the other requests
\* and their locks alone.
LEMMA FinishHandlers ==
    ASSUME IInv, NEW c \in Clients, NEW result, Finish(c, result)
    PROVE  /\ HandlersTypeOK' /\ LocksAreHeld'
           /\ locks' = {h \in locks : h.client # c}
           /\ step'[c] = "idle"
           /\ \A d \in Clients \ {c} : step'[d] = step[d] /\ request'[d] = request[d]
<1> USE DEF IInv, Finish, GoTo
<1>1. \A d \in Clients \ {c} : step'[d] = step[d] /\ request'[d] = request[d]
    BY DEF TypeOK
<1>2. step'[c] = "idle"
    BY DEF TypeOK
<1>3. HandlersTypeOK'
    BY DEF TypeOK, HandlersTypeOK, Steps
<1>4. \A h \in locks' : h \in locks /\ h.client \in Clients \ {c}
    BY DEF TypeOK, Locks
<1>5. \A d \in Clients \ {c} : LockOf(d)' = LockOf(d) /\ LockOf(d).client = d
    BY <1>1 DEF LockOf, ProjectWrite
<1>6. LocksAreHeld'
    BY <1>1, <1>2, <1>4, <1>5 DEF LocksAreHeld
<1> QED BY <1>1, <1>2, <1>3, <1>6

\* An answer without a commit.
LEMMA FinishKeeps ==
    ASSUME IInv, NEW c \in Clients, NEW result, Finish(c, result),
           UNCHANGED storeVars
    PROVE  IInv'
<1> USE DEF IInv, storeVars, clock, tables, ledger
<1>1. UNCHANGED <<now, month, billing_account, project, order, lease,
                  billing_account_spend, project_spend, order_spend>>
    OBVIOUS
<1>2. /\ HandlersTypeOK' /\ LocksAreHeld'
      /\ locks' \subseteq locks
      /\ step'[c] = "idle"
      /\ \A d \in Clients \ {c} : step'[d] = step[d] /\ request'[d] = request[d]
    BY FinishHandlers
<1>3. TypeOK'
    BY <1>1, <1>2 DEF TypeOK, StoreTypeOK, LedgerTypeOK, HandlersTypeOK
<1>4. ProjectsFunded'
    BY <1>1 DEF ProjectsFunded, Existing
<1>5. WritesFit'
    BY <1>1, <1>2 DEF WritesFit, TableOf, HasSpend
<1>6. CheckedAccounts'
    BY <1>1, <1>2 DEF CheckedAccounts, Enabled
<1> QED BY <1>2, <1>3, <1>4, <1>5, <1>6

\* Going on to another step of the request, other than the commit and, for
\* CreateProject, the steps that rely on the check of its account.
LEMMA ContinueKeeps ==
    ASSUME IInv, NEW c \in Clients, NEW next \in StepsOf(request[c].kind),
           step[c] \notin {"idle", "commit"}, next \notin {"idle", "commit"},
           Continue(c, next), UNCHANGED storeVars,
           request[c].kind = "UpdateProject" /\ step[c] \in {"demand", "update"}
                => next \in {"demand", "update"},
           request[c].kind = "CreateProject" /\ next \in {"exists", "insert"}
                => Enabled(request[c].account)
    PROVE  IInv'
<1> USE DEF IInv, Continue, GoTo, storeVars, clock, tables, ledger
<1>1. UNCHANGED <<now, month, billing_account, project, order, lease,
                  billing_account_spend, project_spend, order_spend,
                  request, locks>>
    OBVIOUS
<1>2. TypeOK'
    <2>1. request[c] \in Request
        BY Serving
    <2>2. next \in Steps
        BY <2>1, RequestFields DEF StepsOf, Steps
    <2> QED BY <1>1, <2>1, <2>2, NoNullRequest
            DEF TypeOK, StoreTypeOK, LedgerTypeOK
<1>3. ProjectsFunded' /\ WritesFit'
    BY <1>1 DEF ProjectsFunded, Existing, WritesFit, TableOf, HasSpend
<1>4. step'[c] = next /\ \A d \in Clients \ {c} : step'[d] = step[d]
    BY DEF TypeOK
<1>5. \A d \in Clients : LockOf(d)' = LockOf(d)
    BY <1>1 DEF LockOf, ProjectWrite
<1>6. \A h \in locks : h.client \in Clients
    BY DEF TypeOK, Locks
<1>7. LocksAreHeld'
    BY <1>1, <1>4, <1>5, <1>6 DEF LocksAreHeld
<1>8. CheckedAccounts'
    BY <1>1, <1>4 DEF CheckedAccounts, Enabled
<1> QED BY <1>2, <1>3, <1>7, <1>8

\* Taking hold of the row of the request, which is free and fits.
LEMMA HoldKeeps ==
    ASSUME IInv, NEW c \in Clients, NEW id, NEW way, NEW next,
           next \in StepsOf(request[c].kind), step[c] # "idle",
           Hold(c, id, way, next), UNCHANGED storeVars,
           \A h \in locks : h.client # c,
           [client |-> c, id |-> id, way |-> way] \in Locks,
           [client |-> c, id |-> id, way |-> way] = LockOf(c),
           \A h \in locks : h.id = id => TableOf(h) # TableOf(LockOf(c)),
           way = "insert" => project[id] = NULL /\ Enabled(request[c].account),
           way \in {"delete", "lock"} => project[id] # NULL,
           way = "delete" => ~ HasSpend(id),
           way = "insert account" => billing_account[id] = NULL,
           \/ way # "lock" /\ next = "commit"
           \/ /\ way = "lock" /\ request[c].kind = "UpdateProject"
              /\ next \in {"demand", "update"}
    PROVE  IInv'
<1> USE DEF IInv, Hold, GoTo, storeVars, clock, tables, ledger
<1> DEFINE new == [client |-> c, id |-> id, way |-> way]
<1>1. UNCHANGED <<now, month, billing_account, project, order, lease,
                  billing_account_spend, project_spend, order_spend, request>>
    OBVIOUS
<1>2. locks' = locks \cup {new} /\ new.client = c /\ new.id = id /\ new.way = way
    OBVIOUS
<1>3. TypeOK'
    <2>1. request[c] \in Request
        BY Serving
    <2>2. next \in Steps
        BY DEF Steps
    <2> QED BY <1>1, <1>2, <2>1, <2>2, NoNullRequest
            DEF TypeOK, StoreTypeOK, LedgerTypeOK
<1>4. ProjectsFunded'
    BY <1>1 DEF ProjectsFunded, Existing
<1>5. WritesFit'
    <2>1. \A g, h \in locks' : g.id = h.id /\ TableOf(g) = TableOf(h) => g = h
        BY <1>2 DEF WritesFit
    <2> HIDE DEF new
    <2>2. \A h \in locks' :
            /\ h.way = "insert" => project[h.id] = NULL
            /\ h.way \in {"delete", "lock"} => project[h.id] # NULL
            /\ h.way = "delete" => ~ HasSpend(h.id)
            /\ h.way = "insert account" => billing_account[h.id] = NULL
        BY <1>2 DEF WritesFit
    <2> QED BY <1>1, <2>1, <2>2 DEF WritesFit, TableOf, HasSpend
<1>6. step'[c] = next /\ \A d \in Clients \ {c} : step'[d] = step[d]
    BY DEF TypeOK
<1>7. \A d \in Clients : LockOf(d)' = LockOf(d)
    BY <1>1 DEF LockOf, ProjectWrite
<1>8. LocksAreHeld'
    <2>1. \A h \in locks : h.client \in Clients \ {c}
        BY DEF TypeOK, Locks
    <2>2. ASSUME NEW h \in locks
          PROVE  /\ h = LockOf(h.client)'
                 /\ \/ step'[h.client] = "commit"
                    \/ /\ step'[h.client] \in {"demand", "update"}
                       /\ request'[h.client].kind = "UpdateProject"
        BY <1>1, <1>6, <1>7, <2>1 DEF LocksAreHeld
    <2>3. /\ new = LockOf(new.client)'
          /\ \/ step'[new.client] = "commit"
             \/ /\ step'[new.client] \in {"demand", "update"}
                /\ request'[new.client].kind = "UpdateProject"
        BY <1>1, <1>2, <1>6, <1>7
    <2>4. ASSUME NEW d \in Clients, step'[d] = "commit"
          PROVE  LockOf(d)' \in locks'
        BY <2>4, <1>2, <1>6, <1>7 DEF LocksAreHeld
    <2> HIDE DEF new
    <2>5. \A h \in locks' : h \in locks \/ h = new
        BY <1>2
    <2> QED BY <2>2, <2>3, <2>4, <2>5 DEF LocksAreHeld
<1>9. CheckedAccounts'
    <2>1. way # "insert" => request[c].kind # "CreateProject"
        BY DEF LockOf, ProjectWrite
    <2> QED BY <1>1, <1>6, <2>1 DEF CheckedAccounts, Enabled
<1> QED BY <1>3, <1>4, <1>5, <1>8, <1>9

\* The same for the lock that UpdateProject takes.
LEMMA LockKeeps ==
    ASSUME IInv, NEW c \in Clients, NEW id, NEW next \in {"demand", "update"},
           next \in StepsOf(request[c].kind), step[c] # "idle",
           request[c].kind = "UpdateProject",
           Hold(c, id, "lock", next), UNCHANGED storeVars,
           \A h \in locks : h.client # c,
           [client |-> c, id |-> id, way |-> "lock"] \in Locks,
           [client |-> c, id |-> id, way |-> "lock"] = LockOf(c),
           \A h \in locks : h.id = id => TableOf(h) # TableOf(LockOf(c)),
           project[id] # NULL
    PROVE  IInv'
<1>1. \/ "lock" # "lock" /\ next = "commit"
      \/ /\ "lock" = "lock" /\ request[c].kind = "UpdateProject"
         /\ next \in {"demand", "update"}
    OBVIOUS
<1> QED BY <1>1, HoldKeeps

\* A client that is not about to update or commit holds nothing.
LEMMA NothingHeld ==
    ASSUME IInv, NEW c \in Clients,
           step[c] \notin {"commit", "update"},
           step[c] = "demand" => request[c].kind # "UpdateProject"
    PROVE  \A h \in locks : h.client # c
BY DEF IInv, LocksAreHeld

-----------------------------------------------------------------------------
(* The steps that leave the tables as they are. *)

LEMMA ReceiveKeeps ==
    ASSUME IInv, NEW c \in Clients, NEW r \in Request, Receive(c, r)
    PROVE  IInv'
<1> USE DEF IInv, storeVars, clock, tables, ledger
<1>1. UNCHANGED <<now, month, billing_account, project, order, lease,
                  billing_account_spend, project_spend, order_spend, locks>>
    BY DEF Receive
<1>2. /\ step'[c] \in {"account", "begin"} /\ request'[c] = r
      /\ step'[c] = "account" <=> r.kind = "GetBillingAccount"
      /\ \A d \in Clients \ {c} : step'[d] = step[d] /\ request'[d] = request[d]
    BY DEF Receive, GoTo, TypeOK
<1>3. TypeOK'
    <2>1. step'[c] \in StepsOf(r.kind)
        BY <1>2, RequestFields DEF StepsOf
    <2>2. /\ step' \in [Clients -> Steps]
          /\ request' \in [Clients -> Request \cup {NULL}]
        BY DEF Receive, GoTo, TypeOK, Steps
    <2> QED BY <1>1, <1>2, <2>1, <2>2, NoNullRequest
            DEF TypeOK, StoreTypeOK, LedgerTypeOK
<1>4. ProjectsFunded' /\ WritesFit'
    BY <1>1 DEF ProjectsFunded, Existing, WritesFit, TableOf, HasSpend
<1>5. LocksAreHeld'
    <2>1. \A h \in locks : h.client \in Clients \ {c}
        BY NothingHeld DEF Receive, TypeOK, Locks
    <2>2. \A d \in Clients \ {c} : LockOf(d)' = LockOf(d)
        BY <1>2 DEF LockOf, ProjectWrite
    <2> QED BY <1>1, <1>2, <2>1, <2>2 DEF LocksAreHeld
<1>6. CheckedAccounts'
    BY <1>1, <1>2 DEF CheckedAccounts, Enabled
<1> QED BY <1>3, <1>4, <1>5, <1>6

LEMMA BeginTxKeeps ==
    ASSUME IInv, NEW c \in Clients, BeginTx(c)
    PROVE  IInv'
<1> DEFINE next == FirstStatement(request[c].kind)
<1>1. step[c] = "begin" /\ Continue(c, next) /\ UNCHANGED storeVars
    BY DEF BeginTx
<1>2. request[c] \in Request /\ "begin" \in StepsOf(request[c].kind)
    BY <1>1, Serving DEF IInv
<1>3. /\ next \in StepsOf(request[c].kind)
      /\ next \notin {"idle", "commit", "exists", "insert"}
    BY <1>2, RequestFields DEF FirstStatement, StepsOf
<1> HIDE DEF next
<1> QED BY <1>1, <1>3, ContinueKeeps

LEMMA EnsureDemandEnabledKeeps ==
    ASSUME IInv, NEW c \in Clients, EnsureDemandEnabled(c)
    PROVE  IInv'
<1> DEFINE next == IF request[c].kind = "CreateProject" THEN "exists" ELSE "update"
<1>1. /\ step[c] = "demand" /\ UNCHANGED storeVars
      /\ request[c].kind \in {"CreateProject", "UpdateProject"}
    BY Serving DEF EnsureDemandEnabled, IInv
<1>2. CASE \E result : Finish(c, result)
    BY <1>1, <1>2, FinishKeeps
<1>3. CASE Continue(c, next) /\ Enabled(request[c].account)
    <2>1. next \in StepsOf(request[c].kind)
        BY <1>1 DEF StepsOf
    <2>2. request[c].kind = "UpdateProject" => next = "update"
        OBVIOUS
    <2>3. next \in {"exists", "update"}
        OBVIOUS
    <2> HIDE DEF next
    <2> QED BY <1>1, <1>3, <2>1, <2>2, <2>3, ContinueKeeps
<1> QED BY <1>2, <1>3 DEF EnsureDemandEnabled, Enabled

LEMMA FindProjectExistsByIdKeeps ==
    ASSUME IInv, NEW c \in Clients, FindProjectExistsById(c)
    PROVE  IInv'
<1>1. /\ step[c] = "exists" /\ UNCHANGED storeVars
      /\ request[c].kind = "CreateProject"
    BY Serving DEF FindProjectExistsById, IInv
<1>2. CASE \E result : Finish(c, result)
    BY <1>1, <1>2, FinishKeeps
<1>3. CASE Continue(c, "insert")
    <2>1. "insert" \in StepsOf(request[c].kind)
        BY <1>1 DEF StepsOf
    <2>2. Enabled(request[c].account)
        BY <1>1 DEF IInv, CheckedAccounts
    <2> QED BY <1>1, <1>3, <2>1, <2>2, ContinueKeeps
<1> QED BY <1>2, <1>3 DEF FindProjectExistsById

LEMMA InsertProjectKeeps ==
    ASSUME IInv, NEW c \in Clients, InsertProject(c)
    PROVE  IInv'
<1>1. /\ step[c] = "insert" /\ UNCHANGED storeVars
      /\ request[c].kind = "CreateProject" /\ request[c] \in Request
    BY Serving DEF InsertProject, IInv
<1>2. CASE \E result : Finish(c, result)
    BY <1>1, <1>2, FinishKeeps
<1>3. CASE Hold(c, request[c].id, "insert", "commit") /\ project[request[c].id] = NULL
    <2> DEFINE p == request[c].id
               new == [client |-> c, id |-> p, way |-> "insert"]
    <2>1. p \in Projects
        BY <1>1, RequestFields
    <2>2. new = LockOf(c) /\ new \in Locks
        BY <1>1, <2>1 DEF LockOf, ProjectWrite, Locks
    <2>3. TableOf(LockOf(c)) = "project"
        <3>1. new.way = "insert"
            OBVIOUS
        <3>2. LockOf(c).way = "insert"
            BY <2>2, <3>1, Zenon
        <3> QED BY <3>2 DEF TableOf
    <2>4. \A h \in locks : h.client # c
        BY <1>1, NothingHeld
    <2>5. \A h \in locks : h.id = p => h.way = "insert account"
        BY <1>3, <2>4 DEF InsertProject, Held, IInv, WritesFit, TypeOK, Locks
    <2>6. Enabled(request[c].account)
        BY <1>1 DEF IInv, CheckedAccounts
    <2>7. "commit" \in StepsOf(request[c].kind)
        BY <1>1 DEF StepsOf
    <2>8. \A h \in locks : h.id = p => TableOf(h) # TableOf(LockOf(c))
        BY <2>3, <2>5 DEF TableOf
    <2> HIDE DEF new
    <2> QED BY <1>1, <1>3, <2>2, <2>4, <2>6, <2>7, <2>8, HoldKeeps DEF new
<1> QED BY <1>2, <1>3 DEF InsertProject

LEMMA FindProjectByIdKeeps ==
    ASSUME IInv, NEW c \in Clients, FindProjectById(c)
    PROVE  IInv'
<1>1. /\ step[c] = "find" /\ UNCHANGED storeVars
      /\ request[c] \in Request /\ "find" \in StepsOf(request[c].kind)
    BY Serving DEF FindProjectById, IInv
<1>2. CASE \E result : Finish(c, result)
    BY <1>1, <1>2, FinishKeeps
<1>3. ASSUME NEW next \in {"delete", "spend"}, Continue(c, next),
             next \in StepsOf(request[c].kind)
      PROVE  IInv'
    BY <1>1, <1>3, ContinueKeeps
<1>4. /\ request[c].kind = "DeleteProject" => "delete" \in StepsOf(request[c].kind)
      /\ request[c].kind \notin {"GetProject", "DeleteProject"}
            => "spend" \in StepsOf(request[c].kind)
    BY <1>1, RequestFields DEF StepsOf
<1> QED BY <1>2, <1>3, <1>4 DEF FindProjectById

LEMMA DeleteProjectRowKeeps ==
    ASSUME IInv, NEW c \in Clients, DeleteProjectRow(c)
    PROVE  IInv'
<1>1. /\ step[c] = "delete" /\ UNCHANGED storeVars
      /\ request[c].kind = "DeleteProject" /\ request[c] \in Request
    BY Serving DEF DeleteProjectRow, IInv
<1>2. CASE \E result : Finish(c, result)
    BY <1>1, <1>2, FinishKeeps
<1>3. CASE /\ Hold(c, request[c].id, "delete", "commit")
           /\ project[request[c].id] # NULL /\ ~ HasSpend(request[c].id)
    <2> DEFINE p == request[c].id
               new == [client |-> c, id |-> p, way |-> "delete"]
    <2>1. p \in Projects
        BY <1>1, RequestFields
    <2>2. new = LockOf(c) /\ new \in Locks
        BY <1>1, <2>1 DEF LockOf, ProjectWrite, Locks
    <2>3. TableOf(LockOf(c)) = "project"
        <3>1. new.way = "delete"
            OBVIOUS
        <3>2. LockOf(c).way = "delete"
            BY <2>2, <3>1, Zenon
        <3> QED BY <3>2 DEF TableOf
    <2>4. \A h \in locks : h.client # c
        BY <1>1, NothingHeld
    <2>5. \A h \in locks : h.id = p => h.way = "insert account"
        BY <1>3, <2>4 DEF DeleteProjectRow, Held, IInv, WritesFit, TypeOK, Locks
    <2>6. "commit" \in StepsOf(request[c].kind)
        BY <1>1 DEF StepsOf
    <2>7. \A h \in locks : h.id = p => TableOf(h) # TableOf(LockOf(c))
        BY <2>3, <2>5 DEF TableOf
    <2> HIDE DEF new
    <2> QED BY <1>1, <1>3, <2>2, <2>4, <2>6, <2>7, HoldKeeps DEF new
<1> QED BY <1>2, <1>3 DEF DeleteProjectRow

LEMMA SelectProjectForUpdateKeeps ==
    ASSUME IInv, NEW c \in Clients, SelectProjectForUpdate(c)
    PROVE  IInv'
<1>1. /\ step[c] = "lock" /\ UNCHANGED storeVars
      /\ request[c].kind = "UpdateProject" /\ request[c] \in Request
    BY Serving DEF SelectProjectForUpdate, IInv
<1>2. CASE \E result : Finish(c, result)
    BY <1>1, <1>2, FinishKeeps
<1>3. CASE /\ Hold(c, request[c].id, "lock", AfterLock(request[c]))
           /\ project[request[c].id] # NULL
    <2> DEFINE p == request[c].id
               new == [client |-> c, id |-> p, way |-> "lock"]
    <2>1. p \in Projects
        BY <1>1, RequestFields
    <2>2. new = LockOf(c) /\ new \in Locks
        BY <1>1, <2>1 DEF LockOf, ProjectWrite, Locks
    <2>3. TableOf(LockOf(c)) = "project"
        <3>1. new.way = "lock"
            OBVIOUS
        <3>2. LockOf(c).way = "lock"
            BY <2>2, <3>1, Zenon
        <3> QED BY <3>2 DEF TableOf
    <2>4. \A h \in locks : h.client # c
        BY <1>1, NothingHeld
    <2>5. \A h \in locks : h.id = p => h.way = "insert account"
        BY <1>3, <2>4 DEF SelectProjectForUpdate, Held, IInv, WritesFit, TypeOK, Locks
    <2>6. AfterLock(request[c]) \in {"demand", "update"}
        BY DEF AfterLock
    <2>7. \A h \in locks : h.id = p => TableOf(h) # TableOf(LockOf(c))
        BY <2>3, <2>5 DEF TableOf
    <2>8. ASSUME NEW n \in {"demand", "update"}, Hold(c, request[c].id, "lock", n)
          PROVE  IInv'
        <3>1. n \in StepsOf(request[c].kind)
            BY <1>1 DEF StepsOf
        <3>2. [client |-> c, id |-> p, way |-> "lock"] \in Locks
            BY <2>2
        <3>3. [client |-> c, id |-> p, way |-> "lock"] = LockOf(c)
            BY <2>2
        <3>4. step[c] # "idle" /\ UNCHANGED storeVars
              /\ request[c].kind = "UpdateProject" /\ project[p] # NULL
            BY <1>1, <1>3
        <3> QED BY <2>4, <2>7, <2>8, <3>1, <3>2, <3>3, <3>4, LockKeeps
    <2> QED BY <1>3, <2>6, <2>8
<1> QED BY <1>2, <1>3 DEF SelectProjectForUpdate

LEMMA InsertAccountKeeps ==
    ASSUME IInv, NEW c \in Clients, InsertAccount(c)
    PROVE  IInv'
<1>1. /\ step[c] = "insert account" /\ UNCHANGED storeVars
      /\ request[c].kind = "CreateBillingAccount" /\ request[c] \in Request
    BY Serving DEF InsertAccount, IInv
<1>2. CASE \E result : Finish(c, result)
    BY <1>1, <1>2, FinishKeeps
<1>3. CASE /\ Hold(c, request[c].account, "insert account", "commit")
           /\ billing_account[request[c].account] = NULL
    <2> DEFINE a == request[c].account
               new == [client |-> c, id |-> a, way |-> "insert account"]
    <2>1. a \in Accounts
        BY <1>1, RequestFields
    <2>2. new = LockOf(c) /\ new \in Locks
        BY <1>1, <2>1 DEF LockOf, Locks
    <2>3. TableOf(LockOf(c)) = "billing_account"
        <3>1. new.way = "insert account"
            OBVIOUS
        <3>2. LockOf(c).way = "insert account"
            BY <2>2, <3>1, Zenon
        <3> QED BY <3>2 DEF TableOf
    <2>4. \A h \in locks : h.client # c
        BY <1>1, NothingHeld
    <2>5. "commit" \in StepsOf(request[c].kind)
        BY <1>1 DEF StepsOf
    <2>6. \A h \in locks : h.id = a => TableOf(h) # TableOf(LockOf(c))
        BY <1>3, <2>3, <2>4 DEF InsertAccount, Held, TableOf
    <2> HIDE DEF new
    <2> QED BY <1>1, <1>3, <2>2, <2>4, <2>5, <2>6, HoldKeeps DEF new
<1> QED BY <1>2, <1>3 DEF InsertAccount

\* The steps that only answer.
LEMMA AnswerKeeps ==
    ASSUME IInv, NEW c \in Clients,
           \/ ReadSpend(c) \/ UpdateProjectRow(c)
           \/ ListProjects(c) \/ ListBillingAccounts(c)
           \/ FindBillingAccountById(c) \/ CallFails(c)
    PROVE  IInv'
<1>1. UNCHANGED storeVars /\ \E result : Finish(c, result)
    BY DEF ReadSpend, UpdateProjectRow, ListProjects, ListBillingAccounts,
       FindBillingAccountById, CallFails
<1> QED BY <1>1, FinishKeeps

-----------------------------------------------------------------------------
(* The steps that change the tables. *)

\* What a transaction commits, the database would accept as a statement of its
\* own at that moment.
LEMMA CommitIsStatement ==
    ASSUME IInv, NEW c \in Clients, step[c] = "commit", Apply(request[c])
    PROVE  /\ request[c] \in Request
           /\ \/ /\ request[c].kind = "CreateProject"
                 /\ CreateProject(request[c].id, request[c].account)
                 /\ Enabled(request[c].account)
              \/ /\ request[c].kind = "DeleteProject"
                 /\ DeleteProject(request[c].id)
              \/ /\ request[c].kind = "CreateBillingAccount"
                 /\ CreateBillingAccount(request[c].account)
<1>1. /\ request[c] \in Request
      /\ request[c].kind \in {"CreateProject", "DeleteProject", "CreateBillingAccount"}
    BY Serving DEF IInv
<1>2. LockOf(c) \in locks
    BY DEF IInv, LocksAreHeld
<1>3. CASE request[c].kind = "CreateProject"
    <2>1. LockOf(c).id = request[c].id /\ LockOf(c).way = "insert"
        BY <1>3 DEF LockOf, ProjectWrite
    <2>2. project[request[c].id] = NULL
        BY <1>2, <2>1 DEF IInv, WritesFit
    <2>3. Enabled(request[c].account)
        BY <1>3 DEF IInv, CheckedAccounts
    <2> QED BY <1>1, <1>3, <2>2, <2>3 DEF Apply, SetProject, CreateProject, Enabled
<1>4. CASE request[c].kind = "DeleteProject"
    <2>1. LockOf(c).id = request[c].id /\ LockOf(c).way = "delete"
        BY <1>4 DEF LockOf, ProjectWrite
    <2>2. project[request[c].id] # NULL /\ ~ HasSpend(request[c].id)
        BY <1>2, <2>1 DEF IInv, WritesFit
    <2> QED BY <1>1, <1>4, <2>2 DEF Apply, SetProject, DeleteProject, HasSpend
<1>5. CASE request[c].kind = "CreateBillingAccount"
    <2>1. LockOf(c).id = request[c].account /\ LockOf(c).way = "insert account"
        BY <1>5 DEF LockOf
    <2>2. billing_account[request[c].account] = NULL
        BY <1>2, <2>1 DEF IInv, WritesFit
    <2> QED BY <1>1, <1>5, <2>2 DEF Apply, CreateBillingAccount
<1> QED BY <1>1, <1>3, <1>4, <1>5

\* No other transaction holds the row that is committed.
LEMMA CommitIsAlone ==
    ASSUME IInv, NEW c \in Clients, step[c] = "commit",
           NEW h \in locks, h.client # c, h.id = LockOf(c).id
    PROVE  TableOf(h) # TableOf(LockOf(c))
<1>1. LockOf(c) \in locks /\ LockOf(c).client = c
    BY DEF IInv, LocksAreHeld, LockOf, ProjectWrite
<1> QED BY <1>1 DEF IInv, WritesFit

LEMMA CommitKeeps ==
    ASSUME IInv, NEW c \in Clients, NEW result, step[c] = "commit",
           Apply(request[c]), Finish(c, result)
    PROVE  IInv'
<1> USE DEF IInv
<1> DEFINE r == request[c]
<1>1. /\ HandlersTypeOK' /\ LocksAreHeld'
      /\ locks' = {h \in locks : h.client # c}
      /\ step'[c] = "idle"
      /\ \A d \in Clients \ {c} : step'[d] = step[d] /\ request'[d] = request[d]
    BY FinishHandlers
<1>2. r \in Request
    BY CommitIsStatement
<1>3. ASSUME StoreTypeOK' /\ UNCHANGED ledger
      PROVE  TypeOK' /\ \A p : HasSpend(p)' = HasSpend(p)
    BY <1>1, <1>3 DEF TypeOK, LedgerTypeOK, HandlersTypeOK, ledger, HasSpend
<1>4. ASSUME NEW p \in Projects, NEW row \in ProjectRow \cup {NULL}, SetProject(p, row),
             p = r.id, TableOf(LockOf(c)) = "project" /\ LockOf(c).id = p,
             row # NULL => Enabled(row.billing_account_id),
             StoreTypeOK' /\ UNCHANGED ledger
      PROVE  IInv'
    <2>1. /\ project' = [project EXCEPT ![p] = row] /\ billing_account' = billing_account
          /\ project \in [Projects -> ProjectRow \cup {NULL}]
        BY <1>4 DEF SetProject, TypeOK, StoreTypeOK
    <2>2. ProjectsFunded'
        BY <1>4, <2>1 DEF ProjectsFunded, Existing, Enabled
    <2>3. \A h \in locks' : h.id = p => h.way = "insert account"
        BY <1>1, <1>4, CommitIsAlone DEF TableOf
    <2>4. WritesFit'
        BY <1>1, <1>3, <1>4, <2>1, <2>3 DEF WritesFit, TableOf, TypeOK, Locks
    <2>5. CheckedAccounts'
        BY <1>1, <2>1 DEF CheckedAccounts, Enabled
    <2> QED BY <1>1, <1>3, <1>4, <2>2, <2>4, <2>5
<1>5. CASE r.kind = "CreateProject"
    <2>1. CreateProject(r.id, r.account) /\ Enabled(r.account)
        BY <1>5, CommitIsStatement
    <2>2. r.id \in Projects /\ r.account \in Accounts
        BY <1>2, <1>5, RequestFields
    <2>3. StoreTypeOK' /\ UNCHANGED ledger
        BY <2>1, <2>2, TableStepType DEF TableStep, TypeOK
    <2> DEFINE row == [billing_account_id |-> r.account]
    <2>4. row \in ProjectRow /\ row.billing_account_id = r.account
        BY <2>2 DEF ProjectRow
    <2>5. SetProject(r.id, row)
        BY <1>5 DEF Apply
    <2>6. TableOf(LockOf(c)) = "project" /\ LockOf(c).id = r.id
        BY <1>5 DEF LockOf, ProjectWrite, TableOf
    <2> HIDE DEF row
    <2> QED BY <2>1, <2>2, <2>3, <2>4, <2>5, <2>6, <1>4
<1>6. CASE r.kind = "DeleteProject"
    <2>1. DeleteProject(r.id) /\ r.id \in Projects
        BY <1>2, <1>6, CommitIsStatement, RequestFields
    <2>2. StoreTypeOK' /\ UNCHANGED ledger
        BY <2>1, TableStepType DEF TableStep, TypeOK
    <2>3. SetProject(r.id, NULL)
        BY <1>6 DEF Apply
    <2>4. TableOf(LockOf(c)) = "project" /\ LockOf(c).id = r.id
        BY <1>6 DEF LockOf, ProjectWrite, TableOf
    <2> QED BY <2>1, <2>2, <2>3, <2>4, <1>4
<1>7. CASE r.kind = "CreateBillingAccount"
    <2> DEFINE a == r.account
    <2>1. CreateBillingAccount(a) /\ a \in Accounts
        BY <1>2, <1>7, CommitIsStatement, RequestFields
    <2>2. StoreTypeOK' /\ UNCHANGED ledger
        BY <2>1, TableStepType DEF TableStep, TypeOK
    <2>3. /\ project' = project /\ billing_account[a] = NULL
          /\ \A b \in Accounts \ {a} : billing_account'[b] = billing_account[b]
        BY <2>1 DEF CreateBillingAccount, TypeOK, StoreTypeOK
    <2>4. \A b \in Accounts : Enabled(b) => Enabled(b)'
        BY <2>3 DEF Enabled
    <2>5. ProjectsFunded'
        <3>1. \A p \in Existing(project) : project[p].billing_account_id \in Accounts
            BY DEF TypeOK, StoreTypeOK, Existing, ProjectRow
        <3> QED BY <2>3, <2>4, <3>1 DEF ProjectsFunded, Existing, Enabled
    <2>6. TableOf(LockOf(c)) = "billing_account" /\ LockOf(c).id = a
        BY <1>7 DEF LockOf, TableOf
    <2>7. \A h \in locks' : h.id = a => h.way # "insert account"
        BY <1>1, <2>6, CommitIsAlone DEF TableOf
    <2>8. WritesFit'
        BY <1>1, <1>3, <2>2, <2>3, <2>7 DEF WritesFit, TableOf, TypeOK, Locks
    <2>9. CheckedAccounts'
        <3>1. \A d \in Clients : step[d] # "idle" /\ request[d].kind = "CreateProject"
                    => request[d].account \in Accounts
            BY RequestFields, Serving
        <3> QED BY <1>1, <2>4, <3>1 DEF CheckedAccounts
    <2> QED BY <1>1, <1>3, <2>2, <2>5, <2>8, <2>9
<1>8. r.kind \in {"CreateProject", "DeleteProject", "CreateBillingAccount"}
    BY Serving
<1> QED BY <1>5, <1>6, <1>7, <1>8

\* Enabling demand and charging a project disturb no transaction.
LEMMA EnvironmentKeeps ==
    ASSUME IInv, Environment
    PROVE  IInv'
<1> USE DEF IInv
<1>1. UNCHANGED <<step, request, locks>>
    BY DEF Environment, handlerVars
<1>2. LocksAreHeld'
    BY <1>1 DEF LocksAreHeld, LockOf, ProjectWrite
<1>3. ASSUME NEW a \in Accounts, EnableBillingAccountDemand(a)
      PROVE  IInv'
    <2>1. StoreTypeOK' /\ UNCHANGED <<clock, ledger>>
        BY <1>3, TableStepType DEF TableStep, TypeOK
    <2>2. TypeOK'
        BY <1>1, <2>1 DEF TypeOK, LedgerTypeOK, ledger
    <2>3. /\ project' = project
          /\ \A b \in Accounts : billing_account'[b] = NULL <=> billing_account[b] = NULL
          /\ \A b \in Accounts : Enabled(b) => Enabled(b)'
        <3>1. /\ project' = project /\ billing_account[a] # NULL
              /\ \A b \in Accounts \ {a} : billing_account'[b] = billing_account[b]
            BY <1>3 DEF EnableBillingAccountDemand, TypeOK, StoreTypeOK
        <3>2. PICK row \in BillingAccountRow :
                billing_account' = [billing_account EXCEPT ![a] = row]
            BY <1>3, AccountStep DEF TypeOK
        <3>3. billing_account'[a] = row /\ row # NULL
            BY <3>2, NoNullRow DEF TypeOK, StoreTypeOK
        <3>4. billing_account[a] \in BillingAccountRow
            BY <3>1 DEF TypeOK, StoreTypeOK
        <3>5. billing_account'[a].demand_enabled
            BY <1>3, <3>4 DEF EnableBillingAccountDemand, BillingAccountRow,
               TypeOK, StoreTypeOK
        <3> QED BY <3>1, <3>3, <3>5 DEF Enabled
    <2>4. ProjectsFunded'
        <3>1. \A p \in Existing(project) : project[p].billing_account_id \in Accounts
            BY DEF TypeOK, StoreTypeOK, Existing, ProjectRow
        <3> QED BY <2>3, <3>1 DEF ProjectsFunded, Existing, Enabled
    <2>5. WritesFit'
        BY <1>1, <2>1, <2>3 DEF WritesFit, TableOf, HasSpend, ledger, TypeOK, Locks
    <2>6. CheckedAccounts'
        <3>1. \A d \in Clients : step[d] # "idle" /\ request[d].kind = "CreateProject"
                    => request[d].account \in Accounts
            BY RequestFields, Serving
        <3> QED BY <1>1, <2>3, <3>1 DEF CheckedAccounts
    <2> QED BY <1>2, <2>2, <2>4, <2>5, <2>6
<1>4. ASSUME NEW p \in Projects, \A h \in locks : h.id = p => h.way \notin {"delete", "lock"},
             CreateProjectSpend(NilUid, p, 0, MonthStart[0], MonthStart[1])
      PROVE  IInv'
    <2>1. MonthStart[0] \in Nat /\ MonthStart[1] \in Nat
        BY CalendarAssumption
    <2>2. LedgerTypeOK({NilUid})' /\ UNCHANGED <<clock, tables>>
        BY <1>4, <2>1, ChargeStep DEF ChargeProject, TypeOK
    <2>3. TypeOK'
        BY <1>1, <2>2 DEF TypeOK, StoreTypeOK, clock, tables
    <2>4. ProjectsFunded' /\ CheckedAccounts'
        BY <1>1, <2>2 DEF ProjectsFunded, Existing, CheckedAccounts, Enabled, tables
    <2>5. \A q : HasSpend(q)' => HasSpend(q) \/ q = p
        <3>1. project_spend \in SUBSET SpendRows({NilUid}, Projects)
            BY DEF TypeOK, LedgerTypeOK
        <3> QED BY <1>4, <2>1, <3>1, UpsertRows DEF HasSpend, CreateProjectSpend
    <2>6. WritesFit'
        BY <1>1, <1>4, <2>2, <2>5 DEF WritesFit, TableOf, tables
    <2> QED BY <1>2, <2>3, <2>4, <2>6
<1> QED BY <1>3, <1>4 DEF Environment

-----------------------------------------------------------------------------
\* Every step keeps the invariant.
LEMMA NextIInv == IInv /\ [Next]_vars => IInv'
<1> SUFFICES ASSUME IInv, [Next]_vars PROVE IInv'
    OBVIOUS
<1>1. ASSUME NEW c \in Clients, NEW r \in Request, Receive(c, r)
      PROVE  IInv'
    BY <1>1, ReceiveKeeps
<1>2. ASSUME NEW c \in Clients, Serve(c)
      PROVE  IInv'
    <2>1. CASE Commit(c)
        BY <2>1, CommitKeeps DEF Commit
    <2> QED BY <1>2, <2>1, BeginTxKeeps, EnsureDemandEnabledKeeps,
            FindProjectExistsByIdKeeps, InsertProjectKeeps, FindProjectByIdKeeps,
            DeleteProjectRowKeeps, SelectProjectForUpdateKeeps,
            InsertAccountKeeps, AnswerKeeps DEF Serve
<1>3. ASSUME NEW c \in Clients, CommitAnswerLost(c) \/ CallFails(c)
      PROVE  IInv'
    BY <1>3, CommitKeeps, AnswerKeeps DEF CommitAnswerLost
<1>4. CASE UNCHANGED vars
    BY <1>4 DEF vars, storeVars, handlerVars, clock, tables, ledger, IInv, TypeOK,
       StoreTypeOK, LedgerTypeOK, ProjectsFunded, Existing, WritesFit, TableOf,
       HasSpend, LocksAreHeld, LockOf, ProjectWrite, CheckedAccounts, Enabled
<1> QED BY <1>1, <1>2, <1>3, <1>4, EnvironmentKeeps DEF Next

LEMMA IInvHolds == Spec => []IInv
BY InitIInv, NextIInv, PTL DEF Spec

\* Every table is well typed, and every handler is in a step of its request.
THEOREM TypeCorrect == Spec => []TypeOK
BY IInvHolds, PTL DEF IInv

\* No project lacks an account that is enabled for demand, however many clients
\* create, delete and fail together.
THEOREM ProjectsStayFunded == Spec => []ProjectsFunded
BY IInvHolds, PTL DEF IInv

\* A row is held by one transaction at a time, and what is held back until the
\* commit fits the tables all the time.
THEOREM HeldWritesFit == Spec => []WritesFit
BY IInvHolds, PTL DEF IInv

\* The handlers change the tables when they commit, and not otherwise.
LEMMA StepIsCommit ==
    ASSUME [Next]_vars
    PROVE  \/ UNCHANGED storeVars \/ Environment
           \/ \E c \in Clients : step[c] = "commit" /\ Apply(request[c])
<1>1. ASSUME NEW c \in Clients, Serve(c) \/ CommitAnswerLost(c) \/ CallFails(c)
      PROVE  UNCHANGED storeVars \/ \E d \in Clients : step[d] = "commit" /\ Apply(request[d])
    BY <1>1 DEF Serve, CommitAnswerLost, CallFails, BeginTx, EnsureDemandEnabled,
       FindProjectExistsById, InsertProject, FindProjectById, DeleteProjectRow,
       ReadSpend, SelectProjectForUpdate, UpdateProjectRow, ListProjects,
       ListBillingAccounts,
       FindBillingAccountById, InsertAccount, Commit
<1>2. ASSUME NEW c \in Clients, NEW r \in Request, Receive(c, r)
      PROVE  UNCHANGED storeVars
    BY <1>2 DEF Receive
<1>3. CASE UNCHANGED vars
    BY <1>3 DEF vars
<1> QED BY <1>1, <1>2, <1>3 DEF Next

\* What a step does to the tables: nothing, or one statement that the database
\* would accept on its own.
Statement ==
    \/ \E a \in Accounts : CreateBillingAccount(a) \/ EnableBillingAccountDemand(a)
    \/ \E p \in Projects :
        \/ DeleteProject(p)
        \/ \E a \in Accounts : CreateProject(p, a)
        \/ CreateProjectSpend(NilUid, p, 0, MonthStart[0], MonthStart[1])

LEMMA StepIsStatement ==
    ASSUME IInv, [Next]_vars
    PROVE  UNCHANGED storeVars \/ Statement
<1>1. ASSUME NEW c \in Clients, step[c] = "commit", Apply(request[c])
      PROVE  Statement
    BY <1>1, CommitIsStatement, RequestFields DEF Statement
<1>2. CASE Environment
    BY <1>2 DEF Environment, Statement
<1> QED BY <1>1, <1>2, StepIsCommit

\* A project is created, given to an account or deleted only by a request that
\* holds its row and asked for it, however many come together: two creators of
\* one id do not overwrite each other.
THEOREM HoldersChangeProjects == Spec => ChangedByItsHolder
<1> DEFINE ByHolder(p) ==
        \E h \in locks : /\ TableOf(h) = "project" /\ h.id = p
                         /\ Asks(request[h.client], p, project[p], project'[p])
<1>1. ASSUME IInv, NEW c \in Clients, step[c] = "commit", Apply(request[c]),
             NEW p \in Projects, project'[p] # project[p]
      PROVE  ByHolder(p)
    <2> DEFINE r == request[c]
               h == LockOf(c)
    <2>1. /\ r \in Request /\ r.kind \in {"CreateProject", "DeleteProject",
                                          "CreateBillingAccount"}
          /\ project \in [Projects -> ProjectRow \cup {NULL}]
        BY <1>1, Serving DEF IInv, TypeOK, StoreTypeOK
    <2>2. r.kind # "CreateBillingAccount"
        BY <1>1 DEF Apply
    <2>3. /\ h \in locks /\ h.client = c /\ h.id = r.id /\ TableOf(h) = "project"
          /\ h.way = IF r.kind = "CreateProject" THEN "insert" ELSE "delete"
        BY <1>1, <2>1, <2>2 DEF IInv, LocksAreHeld, LockOf, ProjectWrite, TableOf
    <2>4. r.kind = "CreateProject" => project[r.id] = NULL
        BY <1>1, <2>3 DEF IInv, WritesFit
    <2>5. r.kind = "DeleteProject" => project[r.id] # NULL
        BY <1>1, <2>1, <2>3 DEF IInv, WritesFit
    <2>6. project' = [project EXCEPT ![r.id] =
                        IF r.kind = "CreateProject"
                        THEN [billing_account_id |-> r.account] ELSE NULL]
        BY <1>1, <2>1, <2>2 DEF Apply, SetProject
    <2>7. r.id = p
        BY <1>1, <2>1, <2>6
    <2>8. Asks(r, p, project[p], project'[p])
        BY <2>1, <2>2, <2>4, <2>5, <2>6, <2>7 DEF Asks
    <2> QED BY <2>3, <2>7, <2>8
<1>2. ASSUME IInv, [Next]_vars
      PROVE  [\A p \in Projects : project'[p] # project[p] => ByHolder(p)]_project
    <2>1. Environment => UNCHANGED project
        BY DEF Environment, EnableBillingAccountDemand, CreateProjectSpend, tables
    <2>2. \/ UNCHANGED project
          \/ \E c \in Clients : step[c] = "commit" /\ Apply(request[c])
        BY <1>2, <2>1, StepIsCommit DEF storeVars, tables
    <2> QED BY <1>1, <1>2, <2>2
<1> QED BY <1>2, IInvHolds, PTL DEF Spec, ChangedByItsHolder

\* The services implement Querier: their transactions have the effect of single
\* statements in some order.
THEOREM TransactionsAreStatements == Spec => ActsAsQuerier
<1>1. Init => Q!StoreInit
    BY DEF Init, StoreInit, Q!StoreInit
<1>2. ASSUME IInv, [Next]_vars
      PROVE  [Q!Next]_(Q!storeVars)
    <2>1. CASE UNCHANGED storeVars
        BY <2>1 DEF storeVars, clock, tables, ledger, Q!storeVars, Q!clock,
           Q!tables, Q!ledger
    <2>2. ASSUME NEW a \in Accounts, CreateBillingAccount(a) \/ EnableBillingAccountDemand(a)
          PROVE  Q!Accounting
        BY <2>2 DEF Q!Accounting, CreateBillingAccount, EnableBillingAccountDemand,
           Q!CreateBillingAccount, Q!EnableBillingAccountDemand,
           clock, ledger, Q!clock, Q!ledger
    <2>3. ASSUME NEW p \in Projects, NEW a \in Accounts, DeleteProject(p) \/ CreateProject(p, a)
          PROVE  Q!Projecting
        BY <2>3 DEF Q!Projecting, DeleteProject, CreateProject,
           Q!DeleteProject, Q!CreateProject, clock, ledger, Q!clock, Q!ledger
    <2>4. ASSUME NEW p \in Projects, DeleteProject(p)
          PROVE  Q!Projecting
        BY <2>4 DEF Q!Projecting, DeleteProject, Q!DeleteProject,
           clock, ledger, Q!clock, Q!ledger
    <2>5. ASSUME NEW p \in Projects,
                 CreateProjectSpend(NilUid, p, 0, MonthStart[0], MonthStart[1])
          PROVE  Q!Charging
        <3>1. 0 \in Q!MonthNumbers /\ 0 + 1 = 1
            BY CalendarAssumption DEF Q!MonthNumbers
        <3>2. Q!CreateProjectSpend(NilUid, p, 0, MonthStart[0], MonthStart[0 + 1])
            BY <2>5, <3>1 DEF CreateProjectSpend, Q!CreateProjectSpend,
               DuplicateUid, Q!DuplicateUid, MissingParent, Q!MissingParent,
               Upsert, Q!Upsert, SameKey, Q!SameKey, SpendRow, Q!SpendRow,
               clock, tables, Q!clock, Q!tables
        <3> QED BY <3>1, <3>2 DEF Q!Charging
    <2> QED BY <1>2, <2>1, <2>2, <2>3, <2>4, <2>5, StepIsStatement
            DEF Statement, Q!Next
<1> QED BY <1>1, <1>2, IInvHolds, PTL DEF Spec, ActsAsQuerier, Q!Spec

-----------------------------------------------------------------------------
(* Waiting. *)

\* The ways of holding its row that a statement waits for.
WaitsOut(s) ==
    CASE s = "insert" -> {"insert", "delete"}
      [] s \in {"delete", "lock"} -> {"delete", "lock"}
      [] s = "insert account" -> {"insert account"}
      [] OTHER -> {}

RowOf(c) ==
    IF step[c] = "insert account" THEN request[c].account ELSE request[c].id

\* The next statement of c waits for the transaction of d.
WaitsFor(c, d) ==
    \E h \in locks :
        /\ h.client = d /\ d # c
        /\ h.id = RowOf(c) /\ h.way \in WaitsOut(step[c])

\* The transaction that is waited for waits for nobody.
NobodyWaitsInLine ==
    \A c, d, e \in Clients : WaitsFor(c, d) => ~ WaitsFor(d, e)

\* WaitsFor is what keeps a statement from being carried out: one that finds
\* its row taken is not.
LEMMA WaitsForIsWaiting ==
    ASSUME NEW c \in Clients, NEW d, WaitsFor(c, d)
    PROVE  /\ ~ InsertProject(c) /\ ~ DeleteProjectRow(c)
           /\ ~ SelectProjectForUpdate(c) /\ ~ InsertAccount(c)
<1>1. PICK h \in locks : /\ h.client # c
                         /\ h.id = RowOf(c) /\ h.way \in WaitsOut(step[c])
    BY DEF WaitsFor
<1>2. CASE step[c] = "insert"
    BY <1>1, <1>2 DEF WaitsOut, RowOf, Held, InsertProject, DeleteProjectRow,
       SelectProjectForUpdate, InsertAccount
<1>3. CASE step[c] \in {"delete", "lock"}
    BY <1>1, <1>3 DEF WaitsOut, RowOf, Held, InsertProject, DeleteProjectRow,
       SelectProjectForUpdate, InsertAccount
<1>4. CASE step[c] = "insert account"
    BY <1>1, <1>4 DEF WaitsOut, RowOf, Held, InsertProject, DeleteProjectRow,
       SelectProjectForUpdate, InsertAccount
<1> QED BY <1>1, <1>2, <1>3, <1>4 DEF WaitsOut

\* Transactions never wait for each other in a circle, nor even in a line: the
\* one that holds a row has no statement left that waits for another. So every
\* wait ends with one transaction, whatever requests come together.
THEOREM HoldersDoNotWait == Spec => []NobodyWaitsInLine
<1>1. IInv => NobodyWaitsInLine
    <2> SUFFICES ASSUME IInv, NEW c \in Clients, NEW d \in Clients,
                        NEW e \in Clients, WaitsFor(c, d), WaitsFor(d, e)
                 PROVE  FALSE
        BY DEF NobodyWaitsInLine
    <2>1. step[d] \in {"commit", "demand", "update"}
        BY DEF WaitsFor, IInv, LocksAreHeld
    <2>2. WaitsOut(step[d]) = {}
        BY <2>1 DEF WaitsOut
    <2> QED BY <2>2 DEF WaitsFor
<1> QED BY <1>1, IInvHolds, PTL
=============================================================================
