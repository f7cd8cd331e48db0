------------------------------- MODULE Services -------------------------------
(***************************************************************************)
(* The project and billing account services: gRPC handlers that serve      *)
(* several clients at once, each request in a Read Committed transaction   *)
(* of its own.  There is one action per call of the transaction.  A        *)
(* statement sees what has been committed; a row that another transaction  *)
(* has written or locked makes it wait, which here means that the action   *)
(* is not enabled.  A write is held by its transaction and changes the     *)
(* table when it is committed.                                             *)
(*                                                                         *)
(* Left out: requests refused for the form of their id, which read and     *)
(* change nothing, and what an answer holds beyond its result.             *)
(***************************************************************************)
EXTENDS Store

CONSTANTS
    Clients,        \* requests that can be under way together
    NilUid          \* the uid of the spend that the biller writes

Request ==
    [kind : {"CreateProject", "UpdateProject"}, id : Projects, account : Accounts]
    \cup [kind : {"DeleteProject", "GetProject", "GetProjectCurrentSpend",
                  "GetProjectSpendHistory"}, id : Projects]
    \cup [kind : {"CreateBillingAccount", "GetBillingAccount"}, account : Accounts]
    \cup [kind : {"ListProjects", "ListBillingAccounts"}]

ASSUME NoNullRequest == NULL \notin Request

VARIABLES
    step,           \* the call the handler makes next
    request,        \* the request being served
    locks,          \* the rows that open transactions wrote or locked
    answer          \* the last answer

handlerVars == <<step, request, locks, answer>>
vars == <<storeVars, handlerVars>>

Init ==
    /\ StoreInit
    /\ step = [c \in Clients |-> "idle"]
    /\ request = [c \in Clients |-> NULL]
    /\ locks = {}
    /\ answer = [c \in Clients |-> "none"]

GoTo(c, next) == step' = [step EXCEPT ![c] = next]

\* The handler goes on in its transaction.
Continue(c, next) ==
    /\ GoTo(c, next)
    /\ UNCHANGED <<request, locks, answer>>

\* Mutant: the transaction of a request that fails is not rolled back.
FinishWithoutRollback(c, result) ==
    /\ GoTo(c, "idle")
    /\ request' = [request EXCEPT ![c] = NULL]
    /\ answer' = [answer EXCEPT ![c] = result]
    /\ UNCHANGED locks

\* The handler returns; the deferred Rollback ends a transaction that was not
\* committed, and its locks with it.
Finish(c, result) ==
    /\ GoTo(c, "idle")
    /\ request' = [request EXCEPT ![c] = NULL]
    /\ answer' = [answer EXCEPT ![c] = result]
    /\ locks' = {h \in locks : h.client # c}

\* A statement on a row waits while another transaction holds the row in one
\* of these ways.
Held(c, id, ways) ==
    \E h \in locks : h.client # c /\ h.id = id /\ h.way \in ways

\* The statement is carried out, and the transaction holds the row from now on.
Hold(c, id, way, next) ==
    /\ locks' = locks \cup {[client |-> c, id |-> id, way |-> way]}
    /\ GoTo(c, next)
    /\ UNCHANGED <<request, answer>>

-----------------------------------------------------------------------------
(* Requests. *)

Receive(c, r) ==
    /\ step[c] = "idle"
    /\ GoTo(c, IF r.kind = "GetBillingAccount" THEN "account" ELSE "begin")
    /\ request' = [request EXCEPT ![c] = r]
    /\ answer' = [answer EXCEPT ![c] = "none"]
    /\ UNCHANGED <<storeVars, locks>>

FirstStatement(kind) ==
    CASE kind = "CreateProject" -> "demand"
      [] kind = "UpdateProject" -> "lock"
      [] kind = "CreateBillingAccount" -> "insert account"
      [] kind = "ListProjects" -> "list projects"
      [] kind = "ListBillingAccounts" -> "list accounts"
      [] OTHER -> "find"

BeginTx(c) ==
    /\ step[c] = "begin"
    /\ Continue(c, FirstStatement(request[c].kind))
    /\ UNCHANGED storeVars

\* Mutant: any account that exists will do.
EnsureExists(c) ==
    /\ step[c] = "demand"
    /\ LET row == billing_account[request[c].account]
       IN  IF row = NULL
           THEN Finish(c, "account not found")
           ELSE Continue(c, IF request[c].kind = "CreateProject" THEN "exists"
                            ELSE "update")
    /\ UNCHANGED storeVars

EnsureDemandEnabled(c) ==
    /\ step[c] = "demand"
    /\ LET row == billing_account[request[c].account]
       IN  \/ row = NULL /\ Finish(c, "account not found")
           \/ row # NULL /\ ~ row.demand_enabled /\ Finish(c, "permission denied")
           \/ row # NULL /\ row.demand_enabled
              /\ Continue(c, IF request[c].kind = "CreateProject" THEN "exists"
                             ELSE "update")
    /\ UNCHANGED storeVars

-----------------------------------------------------------------------------
(* CreateProject *)

FindProjectExistsById(c) ==
    /\ step[c] = "exists"
    /\ IF project[request[c].id] # NULL
       THEN Finish(c, "already exists")
       ELSE Continue(c, "insert")
    /\ UNCHANGED storeVars

\* Mutant: the insert neither waits nor looks, the check before it has to do.
InsertProjectBlindly(c) ==
    /\ step[c] = "insert"
    /\ Hold(c, request[c].id, "insert", "commit")
    /\ UNCHANGED storeVars

\* ON CONFLICT DO NOTHING returns no row, which is an error, if the id was
\* taken since the check; it waits for those about to create or delete it.
\* The account the project refers to has to exist.
InsertProject(c) ==
    /\ step[c] = "insert"
    /\ ~ Held(c, request[c].id, {"insert", "delete"})
    /\ IF \/ project[request[c].id] # NULL
          \/ billing_account[request[c].account] = NULL
       THEN Finish(c, "creation failed")
       ELSE Hold(c, request[c].id, "insert", "commit")
    /\ UNCHANGED storeVars

-----------------------------------------------------------------------------
(* DeleteProject, GetProject, GetProjectCurrentSpend, GetProjectSpendHistory *)

FindProjectById(c) ==
    /\ step[c] = "find"
    /\ IF project[request[c].id] = NULL
       THEN Finish(c, "not found")
       ELSE CASE request[c].kind = "GetProject" -> Finish(c, "ok")
              [] request[c].kind = "DeleteProject" -> Continue(c, "delete")
              [] OTHER -> Continue(c, "spend")
    /\ UNCHANGED storeVars

HasSpend(p) == \E r \in project_spend : r.id = p

\* Mutant: nothing keeps a project that has spend.
DeleteProjectRowWithSpend(c) ==
    /\ step[c] = "delete"
    /\ ~ Held(c, request[c].id, {"delete", "lock"})
    /\ IF project[request[c].id] = NULL
       THEN Finish(c, "could not be deleted")
       ELSE Hold(c, request[c].id, "delete", "commit")
    /\ UNCHANGED storeVars

\* No row is left if the project went away since it was found; the reference
\* of project_spend refuses to let go of a project that has spend.
DeleteProjectRow(c) ==
    /\ step[c] = "delete"
    /\ ~ Held(c, request[c].id, {"delete", "lock"})
    /\ CASE project[request[c].id] = NULL -> Finish(c, "could not be deleted")
         [] project[request[c].id] # NULL /\ HasSpend(request[c].id) ->
                Finish(c, "refused")
         [] OTHER -> Hold(c, request[c].id, "delete", "commit")
    /\ UNCHANGED storeVars

\* The error of either spend query is never read: no spend, or a query that
\* fails, is answered with an empty message and no error.
ReadSpend(c) ==
    /\ step[c] = "spend"
    /\ \/ Finish(c, "empty")
       \/ HasSpend(request[c].id) /\ Finish(c, "ok")
    /\ UNCHANGED storeVars

-----------------------------------------------------------------------------
(* UpdateProject *)

AfterLock(r) == IF r.account # r.id THEN "demand" ELSE "update"

\* FOR UPDATE.  The account in the request is compared with the id of the
\* project, and not with its account: the check of demand is passed over when
\* the two ids are the same.
SelectProjectForUpdate(c) ==
    /\ step[c] = "lock"
    /\ ~ Held(c, request[c].id, {"delete", "lock"})
    /\ IF project[request[c].id] = NULL
       THEN Finish(c, "not found")
       ELSE Hold(c, request[c].id, "lock", AfterLock(request[c]))
    /\ UNCHANGED storeVars

\* The parameters are built without the id, so no row has it: :one answers
\* that there is no row, which is an error.
UpdateProjectRow(c) ==
    /\ step[c] = "update"
    /\ Finish(c, "update failed")
    /\ UNCHANGED storeVars

-----------------------------------------------------------------------------
(* Lists and billing accounts. *)

\* Both lists ask for a hundred empty ids, and no row has an empty id.
ListProjects(c) ==
    /\ step[c] = "list projects"
    /\ Finish(c, "empty")
    /\ UNCHANGED storeVars

ListBillingAccounts(c) ==
    /\ step[c] = "list accounts"
    /\ Finish(c, "empty")
    /\ UNCHANGED storeVars

FindBillingAccountById(c) ==
    /\ step[c] = "account"
    /\ Finish(c, IF billing_account[request[c].account] = NULL
                 THEN "account not found" ELSE "ok")
    /\ UNCHANGED storeVars

\* The id is drawn at random; one that is taken gives no row, an error.
InsertAccount(c) ==
    /\ step[c] = "insert account"
    /\ ~ Held(c, request[c].account, {"insert account"})
    /\ IF billing_account[request[c].account] # NULL
       THEN Finish(c, "creation failed")
       ELSE Hold(c, request[c].account, "insert account", "commit")
    /\ UNCHANGED storeVars

-----------------------------------------------------------------------------
(* The end of a transaction. *)

\* Mutant: a deleted row stays, without its account.
SetProjectSoftly(p, row) ==
    /\ project' = IF row = NULL
                  THEN [project EXCEPT ![p].billing_account_id = NULL]
                  ELSE [project EXCEPT ![p] = row]
    /\ UNCHANGED <<clock, billing_account, order, lease, ledger>>

SetProject(p, row) ==
    /\ project' = [project EXCEPT ![p] = row]
    /\ UNCHANGED <<clock, billing_account, order, lease, ledger>>

\* What was checked when the statement was carried out is not checked again.
Apply(r) ==
    CASE r.kind = "CreateProject" ->
            SetProject(r.id, [billing_account_id |-> r.account])
      [] r.kind = "DeleteProject" -> SetProject(r.id, NULL)
      [] r.kind = "CreateBillingAccount" ->
            /\ billing_account' = [billing_account EXCEPT ![r.account] =
                    [create_time |-> now, demand_enabled |-> FALSE,
                     supply_enabled |-> FALSE]]
            /\ UNCHANGED <<clock, project, order, lease, ledger>>

Commit(c) ==
    /\ step[c] = "commit"
    /\ Apply(request[c])
    /\ Finish(c, "ok")

\* The transaction is committed and the answer lost: the client is told that
\* the request has failed.
CommitAnswerLost(c) ==
    /\ step[c] = "commit"
    /\ Apply(request[c])
    /\ Finish(c, "commit failed")

\* A call fails, the client gives up, or the process dies: the database rolls
\* back what was not committed.
CallFails(c) ==
    /\ step[c] \notin {"idle", "spend"}
    /\ Finish(c, IF step[c] = "commit" THEN "commit failed" ELSE "failed")
    /\ UNCHANGED storeVars

-----------------------------------------------------------------------------
(* The surroundings. *)

\* Demand is enabled, and accounts charged to projects, outside the services.
\* The biller's insert locks the project it refers to, so it waits as well.
Environment ==
    /\ \/ \E a \in Accounts : EnableBillingAccountDemand(a)
       \/ \E p \in Projects :
            /\ \A h \in locks : h.id = p => h.way \notin {"delete", "lock"}
            /\ CreateProjectSpend(NilUid, p, 0, MonthStart[0], MonthStart[1])
    /\ UNCHANGED handlerVars

Serve(c) ==
    \/ BeginTx(c) \/ EnsureDemandEnabled(c)
    \/ FindProjectExistsById(c) \/ InsertProject(c)
    \/ FindProjectById(c) \/ DeleteProjectRow(c) \/ ReadSpend(c)
    \/ SelectProjectForUpdate(c) \/ UpdateProjectRow(c)
    \/ ListProjects(c) \/ ListBillingAccounts(c) \/ FindBillingAccountById(c)
    \/ InsertAccount(c) \/ Commit(c)

Next ==
    \/ \E c \in Clients :
        \/ \E r \in Request : Receive(c, r)
        \/ Serve(c)
        \/ CommitAnswerLost(c) \/ CallFails(c)
    \/ Environment

Spec == Init /\ [][Next]_vars

\* A handler goes on, and the database serves those who wait for a row in turn.
FairSpec == Spec /\ \A c \in Clients : SF_vars(Serve(c))

-----------------------------------------------------------------------------
(* Correctness. *)

Steps == {"idle", "begin", "demand", "exists", "insert", "find", "delete",
          "spend", "lock", "update", "list projects", "list accounts",
          "account", "insert account", "commit"}
Locks ==
    [client : Clients, id : Projects, way : {"insert", "delete", "lock"}]
    \cup [client : Clients, id : Accounts, way : {"insert account"}]

\* Where a request of each kind may be.
StepsOf(kind) ==
    CASE kind = "CreateProject" -> {"begin", "demand", "exists", "insert", "commit"}
      [] kind = "UpdateProject" -> {"begin", "lock", "demand", "update"}
      [] kind = "DeleteProject" -> {"begin", "find", "delete", "commit"}
      [] kind = "GetProject" -> {"begin", "find"}
      [] kind = "CreateBillingAccount" -> {"begin", "insert account", "commit"}
      [] kind = "GetBillingAccount" -> {"account"}
      [] kind = "ListProjects" -> {"begin", "list projects"}
      [] kind = "ListBillingAccounts" -> {"begin", "list accounts"}
      [] OTHER -> {"begin", "find", "spend"}

\* The types of the tables, and of the handlers: each is in one of the steps
\* of the request it serves, or idle with no request.
TypeOK ==
    /\ StoreTypeOK
    /\ LedgerTypeOK({NilUid})
    /\ step \in [Clients -> Steps]
    /\ request \in [Clients -> Request \cup {NULL}]
    /\ locks \subseteq Locks
    /\ \A c \in Clients :
          IF step[c] = "idle" THEN request[c] = NULL
          ELSE request[c] # NULL /\ step[c] \in StepsOf(request[c].kind)

\* No project without a billing account that is enabled for demand, although
\* the account is checked in one statement and the project stored in another.
ProjectsFunded ==
    \A p \in Existing(project) :
        LET row == billing_account[project[p].billing_account_id]
        IN  row # NULL /\ row.demand_enabled

TableOf(h) == IF h.way = "insert account" THEN "billing_account" ELSE "project"

\* A row is in the hands of one transaction at a time, and what the
\* transaction did still fits the table when it commits: the id it creates is
\* free, the row it deletes or locked is there, and no spend refers to the row
\* it deletes.
WritesFit ==
    \A h \in locks :
        /\ \A g \in locks : g.id = h.id /\ TableOf(g) = TableOf(h) => g = h
        /\ h.way = "insert" => project[h.id] = NULL
        /\ h.way \in {"delete", "lock"} => project[h.id] # NULL
        /\ h.way = "delete" => ~ HasSpend(h.id)
        /\ h.way = "insert account" => billing_account[h.id] = NULL

\* What request r would make of project p, of which the row is before.
Asks(r, p, before, after) ==
    /\ r.id = p
    /\ CASE r.kind = "CreateProject" ->
                before = NULL /\ after = [billing_account_id |-> r.account]
         [] r.kind = "UpdateProject" ->
                before # NULL /\ after = [billing_account_id |-> r.account]
         [] r.kind = "DeleteProject" -> before # NULL /\ after = NULL
         [] OTHER -> FALSE

\* A project is changed by a request that holds its row, and as that request
\* asked.  Two clients that create one id may both pass the check that it is
\* free: the second does not take the project over to its account, as an update
\* may.
ChangedByItsHolder ==
    [][\A p \in Projects :
          project'[p] # project[p] =>
             \E h \in locks :
                /\ TableOf(h) = "project" /\ h.id = p
                /\ Asks(request[h.client], p, project[p], project'[p])]_project

Q == INSTANCE Querier WITH Uids <- {NilUid}, Amounts <- {0}

\* Concurrent transactions do to the database what single statements could do,
\* one after another: everything shown of Querier holds of the services.
ActsAsQuerier == Q!Spec

\* Every request is answered: none waits for ever on the row of a transaction
\* that was given up.
RequestsAnswered == \A c \in Clients : step[c] # "idle" ~> step[c] = "idle"

-----------------------------------------------------------------------------
(* What the repository says of the program, and the program does not do. *)

\* project_test.go: UpdateProject "should successfully return an updated
\* project": a project that was found and locked has a row to update.
UpdateFindsItsRow == \A c \in Clients : answer[c] # "update failed"
=============================================================================
