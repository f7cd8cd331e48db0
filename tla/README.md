# A TLA+ specification of biller

`biller` is the compute back end that keeps billing accounts, projects, orders
and leases in PostgreSQL, serves them over gRPC, and runs a background task, the
*biller*, that turns the leases of a month into spend. This directory holds
TLA+ modules translated from that code, TLC configurations that check them on
small instances, and proofs that TLAPS checks for every instance.

## 1. Inventory

| component | source | state | operations | status |
|---|---|---|---|---|
| Biller | `svc/compute/billingaccount/biller.go` | none between runs; in a run: the accounts, orders and leases read so far, the window, three levels of sums | `Run`, `calculateDemandSpend` | modelled: `Metering`, `Biller` |
| Store | `svc/compute/store` (migrations, queries, generated code) | four tables, three spend tables, their constraints | every statement of `queries/*.sql` | modelled: `Store`, `Querier` |
| Background service | `lib/service/background.go`, `prometheus.go`, `util.go` | configuration, ticker or timer, contexts | `Run`, `run` | modelled: `Background` |
| Project service | `svc/compute/project/project.go` | requests under way, their transactions | 7 handlers | modelled: `Services` |
| Billing account service | `svc/compute/billingaccount/billingaccount.go` | requests under way, their transactions | 3 handlers, two checks | modelled: `Services` |
| Transactions | `svc/compute/store/tx.go` | row locks, uncommitted writes | `BeginTx`, `ExecWithTx` | `BeginTx` with the services |
| Server lifecycle | `lib/service/service.go`, `grpc.go`, `grpcgateway.go`, `util.go` | listeners, contexts, health, the gateway's connection, calls under way | `Run` and its deferred functions, limits of calls | modelled: `Server` |
| Entry point, database client | `svc/compute/main.go`, `lib/ff`, `lib/postgresql` | flags, pool | `run`, `FillUsingPrefix`, `NewClient` | modelled: `Server` |
| Generated gateway and stubs | `*.pb.gw.go`, `*_grpc.pb.go` | none | routes, translation of requests, dispatch | modelled: `Gateway` |
| Version service | `lib/service/grpcversion` | none | `GetVersion` | a call without database in `Gateway` |
| Generated messages, ids, decimals, logs, panic interceptor | `*.pb.go`, `lib/resource`, `lib/conv`, `lib/logger`, `lib/errorhandler` | none | | not modelled |

How they interact: `main.go` starts the process either as the server (gRPC
services and gateway) or, with `-runner biller`, as a background service whose
task is the biller. Server and biller are different processes that share only
the database. The background service calls `Biller.Run` every 24 hours with a
context that has a deadline. `Biller.Run` calls the querier some
`2 + accounts * (2 + 3 * orders)` times, each call a transaction of its own, and
other processes change the tables in between. (Orders and leases are created by
code outside this repository, through the same statements.)

In the server, a request comes over HTTP to the gateway, whose generated code
makes a message of its body, path and query and calls the gRPC server of the
same process over a client connection; gRPC clients call that server too. A call
passes the interceptors and the generated handler and reaches a service, which
opens a transaction on the pool that `main` has made. `Service.Run` starts all
listeners, waits in `select` for a signal or the end of a listener, and stops
gateway, gRPC server and Prometheus server in its deferred functions; the pool is
closed when it returns.

What is hard here, with the full list at its lines in `PROJECT.json`
(`hazards`):

* **Interleaving and stale reads.** A run lists accounts, then orders, then
  leases, and writes between the lists; leases end, projects disappear and the
  month turns meanwhile.
* **Partial failure, retries, crashes.** Nothing undoes the writes of a run that
  stops half way, and a write whose answer is lost is made again by the next
  run. Only the upsert keeps that harmless.
* **Boundaries.** A month is a half-open interval in the query, and an interval
  closed at its last nanosecond in the arithmetic.
* **Two constraints on one insert**: a primary key that the caller supplies and
  a unique index that the upsert uses.
* **Transactions at Read Committed.** Each statement of a handler sees what was
  committed when it began; a check and the write it is for are two statements,
  and rows are locked in between, or not.
* **Shutting down.** Main, the listeners, handlers, clients and signals meet in
  any order; a step that waits may wait for ever, one that does not may cut off
  an answer, and one failure nobody looks at leaves a server that serves nothing.
* **Timing.** Deadlines that pass while a tick is due, missed ticks, random
  choice between a tick and cancellation.

What makes each component correct: *metering*: a lease is charged the time it
ran, no more and (but for a nanosecond) no less; *store*: references and keys
hold whatever clients do; *biller*: the three levels agree, parts are written
before the whole, windows are months, runs end, and rows catch up with the
leases; *services*: transactions act as single statements, projects have an
account that is enabled, requests are answered; *background*: missed ticks are
not made up for in a burst, a timed-out task is run again, and the loop ends
when it is told to; *gateway*: the call made is the one asked for; *server*: not
ready before requests are refused, no answer cut off that could be given, nothing
at work when the pool is closed, no crash by a request over HTTP, an
end when told to stop.

## 2. Modules

```
Metering ── Store ─┬─ Querier ── MCQuerier          Background ── MCBackground
   │          │    │     └─ QuerierProofs                └─ BackgroundProofs
   │          │    ├─ Biller ─── MCBiller
   │          │    │     └─ BillerProofs
   │          │    └─ Services ─ MCServices    (an instance of Querier is its
   │          │          └─ ServicesProofs      abstract specification)
   └──────────┴── StoreProofs   (used by the proofs of the three clients)
SumProofs               (used by BillerProofs)

Gateway ── Server ── MCServer
   │          └─ ServerProofs
   └─ GatewayProofs  (used by ServerProofs)
```

**Metering** is the arithmetic on one lease: the filter of
`ListLeasesForTimeRangeByOrderId` and the clipping in `calculateDemandSpend`,
next to a reference definition, the set of instants at which the lease is
running.

**Store** is the database. A table maps ids to rows, `NULL` meaning no row; a
spend table is a set of rows. Every statement that changes a table is an action;
its guard is the constraint that would refuse it (`ON CONFLICT DO NOTHING`
leaves the table as it is and is a stutter). `Upsert`, `DuplicateUid` and
`MissingParent` say what PostgreSQL does with an insert into a spend table: a
hit in the unique index updates, otherwise the uid must be new and the parent
must exist. `now` is the database's and the biller's clock, `MonthStart` an
arbitrary calendar, so a month may have any length.

**Querier** is every client of `store.Querier` at once: any statement, any
argument, any order. It is the most general environment of the tables.

**Biller** is `Run` and `calculateDemandSpend` with other clients of the
database. `pc` names the querier call made next; one action is one call and
what the code does in memory until the next one.

| `pc` | next call in the code | actions |
|---|---|---|
| `idle` | `ListAllBillingAccounts` (32) | `RunListAccounts`, `ListAccountsFails` |
| `window` | `time.Now` (42) | `RunSetWindow` |
| `accounts` | `ListOrdersByBillingAccountId` (78) or return (214) | `ListOrders`, `RunReturn`, `CallFails` |
| `orders` | `ListLeasesForTimeRangeByOrderId` (97) or `CreateBillingAccountSpend` (204) | `ListLeases`, `WriteAccountSpend`, `RefuseAccountSpend`, `CallFails`, `AnswerLost` |
| `leases` | the loop over leases (110), then `CreateOrderSpend` (183) | `AddLease`, `AddLeaseFails`, `WriteOrderSpend`, `RefuseOrderSpend`, ... |
| `project_spend` | `CreateProjectSpend` (193) | `WriteProjectSpend`, `RefuseProjectSpend`, ... |

`acctSpend`, `projectSpend` and `orderSpend` are the three structs of
`DemandSpend`; an absent map entry is `NULL`. `Leave` is every way out of a
run: the locals are gone and `outcome` records why. All but one kind of error is
logged and swallowed by `Run`, as line 47 does. `Crash` may happen at any
step. Only the row columns the biller reads are changed by `Environment`
(`EndOrder`, `Enable...` and `UpdateProject` change columns it never reads).

**Services** is the handlers of both gRPC services, any number of requests at a
time. `step` names the call a request makes next; one action is one call of its
transaction. A write is made when its statement is carried out, is held in
`locks` (one record per row a transaction wrote or locked, as in `pg_locks`) and
changes the table at `Commit`; `Held` is what makes a statement on the same row
wait. `Finish` is every way out of a handler, with its deferred `Rollback`.

| request | steps after `begin` | actions |
|---|---|---|
| `CreateProject` | `demand`, `exists`, `insert`, `commit` | `EnsureDemandEnabled`, `FindProjectExistsById`, `InsertProject`, `Commit` |
| `UpdateProject` | `lock`, `demand`, `update` | `SelectProjectForUpdate`, `EnsureDemandEnabled`, `UpdateProjectRow` |
| `DeleteProject` | `find`, `delete`, `commit` | `FindProjectById`, `DeleteProjectRow`, `Commit` |
| `GetProject`, spend reads | `find`, `spend` | `FindProjectById`, `ReadSpend` |
| `CreateBillingAccount` | `insert account`, `commit` | `InsertAccount`, `Commit` |
| lists, `GetBillingAccount` | `list ...`; `account` | `ListProjects`, `ListBillingAccounts`, `FindBillingAccountById` |

`CallFails` may end any of them and `CommitAnswerLost` any commit. `Environment`
is what other processes do to the rows the handlers read: demand is enabled (no
handler does that) and the biller charges a project.

**Background** is `BackgroundService.Run`. Time is kept in countdowns (deadline
of the task, `time.After`, the ticker), so no bound on time is needed. The
ticker holds one tick and drops those that find it full. `mode` says which of
the two loops is running; when the sleep loop ends and an interval is set too,
`Run` falls through to the interval loop, and so does the model. The goroutine at
`select` may be held up as long as the scheduler likes; with `PromptSelect` it takes
a case that is ready before time passes, so that a counterexample is not the
scheduler's doing.

**Gateway** is the generated code on both ends of a call, without state. A
message is a function from the fields it sets, so an absent field is one outside
its domain. There is one operator per generated `request_...` function, with its
steps in their order: decode the body, read the mask off the body, set the id of
the path, set what the query names unless the filter has it. A body that is empty
decodes to an empty project, because the decoder makes the message before it reads
(`DecodeProject`); a query may name a field of a field too, and `update_mask.paths`
adds to the mask (`NestedFields`). `MissesProject` is a message whose handler panics,
`LacksIds` one whose handler refuses it before it uses the database. `Translate` is the
mux with its patterns, `..._ServiceDesc` and `..._Handler` are the other end, where
a message is decoded as the type of its method.

**Server** is one process from its command line to its exit. `main` names what
the goroutine of `main` does next:

| `main` | code | actions |
|---|---|---|
| `configure`, `connect`, `dispatch` | `main.go` 46-63, 67-85, 91-155 | `Configure`, `NewClient`, `Dispatch` |
| `start`, `check`, `mark` | `service.go` 75-112 | `Start`, `Check`, `Ready` |
| `select`, `drain` | `service.go` 115-135 | `SelectListener`, `SelectSignal`, `Drained` |
| `stopGateway`, `httpDrain`, `closeConn` | `grpcgateway.go` 147-155, `util.go` 35-44 | `StopGateway`, `HTTPDrained`, `CloseConn` |
| `stopGRPC`, `grpcDrain` | `grpc.go` 155-158 | `StopGRPC`, `GRPCDrained` |
| `stopPrometheus`, `closePool` | `prometheus.go` 64, `main.go` 82 | `StopPrometheus`, `ClosePool` |

The listeners' goroutines are `HTTPServerEnds`, `Listen`, `GRPCListenFails` and
`GRPCServeFails`; `Signal` may come at any time and kills the process when it is
not caught. A call over HTTP has two sides, `http` (its connection and the
gateway's handler: `Accept`, `Read`, `Drop`, `Forward`, `Relay`) and `rpc` (its
handler in the gRPC server: `BeginTx`, `Panic`, `Finish`, `Return`); a direct call
(`Send`) and a stream (`Watch`, `EndWatch`) have only the second. What a handler
does in its transaction is `Services`; here it has one open or has not. `age` is
what the limits of a call are compared with, and `ContextDone` is which of them,
or which cancellation, ends it. `Background` is what `Dispatch` leads to with the
biller as runner, and not part of this module.

The definitions marked *Mutant* are single mistakes a change to the code could
make. No specification uses them: each replaces the definition that follows it
in one run, to show that the property checked there would notice.

## 3. Runs

| run | instance | shows | states, about |
|---|---|---|---|
| `QuerierConstraints` | 1 account, project, order; 2 uids, 2 months | types, references, both keys, rows persist, whatever clients do | 250 000 |
| `BillerAmounts` | 1 order, 2 leases, months of 3 and 1 instants, 1 fault | charge = running time less the nanosecond given away, for leases that may end again; no excessive charge, windows are months, memory fits the database | 740 000 |
| `BillerHierarchy` | 2 orders, 2 leases, prices 1 and 2 (2 aborts), 1 fault | sums agree, parts before the whole, order rows are what their leases cost when listed, one row per table | 1 200 000 |
| `BillerConverges` | 1 of each, 2 faults, fairness | every run ends; rows catch up | 120 000 |
| `Background` | 6 configurations, fairness | no bursts, re-run after a timeout, stops, keeps running | 2 300 |
| `Services` | 2 clients, 2 accounts, a project with the id of one of them, fairness | funded projects, one holder per row, projects changed by their holder only, refinement of `Querier`, every request answered | 42 000 |
| `Server` | a call over HTTP, a direct one and a stream; 4 requests, 2 messages, 5 command lines, 2 environments; 1 listener failure; fairness | the gateway asks for what was asked, readiness and drains, no answer cut, nothing left at the end, no crash by a request over HTTP, an end | 305 000 |
| `BillerRefused` | 2 orders | **violated**: rows are refused | |
| `BackgroundParentCancel` | an interval, `PromptSelect` | **violated**: called again after cancellation | |
| `BackgroundSignals` | an interval, `PromptSelect` | **violated**: signals stay caught | |
| `ServicesUpdate` | 1 client | **violated**: an update finds no row | |
| `ServerListeners` | no calls, 1 listener failure, fairness | **violated**: the service waits on without its gRPC server | |

The bounds and why they are enough:

* `Months`, `MonthStart`: two neighbouring months, one of them longer than an
  instant, let a lease begin and end before, in, at either edge of and after a
  month, and a run go on into the next one. Time stops at the end of the last
  month (`Tick`); everything else goes on. One month of two instants is enough
  for properties that compare amounts with amounts.
* Two leases are enough to disagree about a sum and two orders to disagree
  about a project or an account. One account and one project are in
  these runs: what several of them could break in a run's memory or in the keys of
  the spend tables (`MemoryInStep`, `LedgerHoldsOneRow`, `WindowsAreMonths`,
  `WrittenBottomUp`) is proved for any number.
* `MaxFaults`: two faults are a failed run and a failed retry. Where it is 1, it
  is to keep the run small; a fault returns to `idle`, so that two of them visit
  no memory that one does not.
* Symmetry is used for leases, in runs without liveness; no definition tells them
  apart.
* `Services`: two clients on one project and one account id are every pair of
  transactions that can meet on a row; a third one would wait as the second
  does. The project's id is that of an account, so that the comparison of the two
  in `UpdateProject` goes both ways. The clock stands still, no handler reads it.
* `Server`: each call is made once. One call of each kind meets every stage of
  main; calls do not meet each other but in what main waits for, and that is a
  conjunction over calls. The requests are a creation with no body, a `PATCH` whose
  path, body and query name three projects and whose query adds to the mask, one with
  a mask and no body, and a `PUT` that cannot be decoded; one of the direct messages
  has no project; the limits are 1, 1, 2, 2 and 2 ticks for 2, 10, 15,
  30 and 30 seconds: what counts is that the grace period of the gateway is at least
  the time to read a request and to answer it, and that requests have no shorter
  limit than their answers (`TimesAssumption`). `ListenerFailures` is 1: after the
  first one that is noticed, another changes nothing that main does.
* `CHECK_DEADLOCK FALSE` only for `Background` and `Server`, which end.

Fairness. `BillerConverges` assumes weak fairness of the biller's own steps: the
Go runtime runs its goroutine, calls return, and the background service starts
the next run (that it does is `KeepsRunning`). Nothing is assumed of the other
clients; `LedgerConverges` speaks of executions in which they and the clock
become quiet. `Services` assumes strong fairness of each handler's next call: its
goroutine runs, and PostgreSQL serves those who wait for a row in turn; nothing
is assumed of failures, so no request counts as answered by giving up.
`Background` assumes that time passes, that a task returns once
its context is done (the biller passes its context to each call), that `select`
takes a ready case, and strong fairness of the done cases: `select` draws
uniformly among ready cases, so it does not always pick the tick.
`Server` assumes weak fairness of main's steps, of time, of the gateway's steps on
a request (`Drop` stands for the limit on reading one), and of what a handler does
by itself: it panics, it returns, and it gives up a statement once its context is
done, because every statement gets that context. It assumes nothing of how long
statements take, of clients, or of signals; so `StopsWhenTold` needs a limit for
each call, and has the exception of a stream that is never closed.

## 4. What the code does not do

1. **One row per spend table** (`BillerRefused`, `biller.go:183`). The writes do
   not set `Uid`, and the statements insert it, so every row has the zero UUID
   as its primary key. The first row of each table is updated for ever; the
   second (another order, or the same one in the next month) is refused, the
   whole run ends and `Run` returns nil. `LedgerHoldsOneRow` is the proved
   consequence.
2. **Cancellation** (`BackgroundParentCancel`, `background.go:120`). A task that is
   called on a cancelled context and lasts until the next tick, as one that does not
   look at its context does, returns to a `select` in which the tick and the done
   context are ready together. `select` may take the tick, and the task is called
   again, against what the test says; the test's own task returns before the tick.
   The goroutine is never late in the run (`PromptSelect`).
3. **Signals** (`BackgroundSignals`, `background.go:93`). Both loops return an
   error, so the line that resets signal handling is dead.
4. **Updates** (`ServicesUpdate`, `project.go:199`). The parameters of the update
   lack the id of the project, so it matches no row and the handler always
   fails, after it has locked the row and checked the account.

5. **A listener nobody misses** (`ServerListeners`, `grpc.go:135`). An error of
   `Serve` is assigned to a variable of its own, the function returns the nil error
   of `net.Listen`, and the error group does not cancel its context: the service
   waits on, with the status `SERVING`.

Met while modelling, and part of the models without a run of their own: both
lists ask for a hundred empty ids and are always empty (`project.go:157`,
`billingaccount.go:97`); the errors of the spend queries are never read
(`project.go:244`, `273`); the window of the biller ends with the first
nanosecond of the next month and not, as the comment says, with the last of its
own (`biller.go:41-44`); the usage text of `-runner` names two runners that do not
exist (`main.go:56`); the configuration is used before the error of parsing it is
looked at (`postgresql.go:81`); `GracefulStop` has no limit (`grpc.go:157`), so
that a stream of the health service that its client keeps open keeps the process;
after the end of a listener the status is not taken back (`service.go:116-121`),
which is why `DrainsBeforeItStops` speaks of signals only; and two accounts with
orders in one project would write its row in turn (`biller.go:193`).

## 5. Proofs

Assumptions, all named and evaluated by TLC in the runs: `NullAssumption` and
`NoNullRow` (`NULL` is neither a number nor a row), `PricesAssumption` (prices
are natural numbers), `CalendarAssumption` (months follow one another),
`AmountsAssumption`, `BillerAssumption`, `BackgroundAssumption`,
`NoNullRequest`, `RequestsAssumption` (a request has an id where its pattern has
one, and its query does not both set the mask and add to it), `SettingsAssumption` (a grace period is a number or does not parse),
`CallsAssumption` (a call is of one kind), `TimesAssumption` (above).

* `StoreProofs`: bounds of a duration (`DurationBounds`), what two neighbouring
  windows charge against one (`WindowsSplit`), and the charge as the size of the set
  of running instants (`ChargedIsRunningTime`); then lemmas about single statements:
  what an upsert keeps and stores, and which of types, times, references and keys
  each step preserves.
* `SumProofs`: the sum of a function over a finite set, as the community modules
  define it, by a recursive function that takes the elements as `CHOOSE` gives them.
  No induction theorem of the library can be used, so each induction is a minimal
  counterexample (`MinimalNumber`, `MinimalSubset`, from the well-foundedness of
  `<` and of the strict subsets of a finite set). `AddsExists` and `AddsUnique` show
  that the recursion defines one function; `SumAdd` that it does not matter when an
  element is taken, `SumGrows` and `SumReindex` what the biller needs of it.
* `QuerierProofs`: types, ordered leases, exact metering, references, keys and
  persistence of rows, for every client.
* `BillerProofs`: the inductive invariant is
  `IInv == StoreInv /\ RunInv /\ WrittenBottomUp`. The wanted properties are not
  inductive alone: that no amount is negative (`TypeOK`) needs that the leases in
  hand satisfy the filter of the query for the window they were selected with
  (`MemoryInStep`) and that leases are ordered (`LeaseTimesOrdered`), by
  `DurationBounds`. That parts are written first (`WrittenBottomUp`) needs that
  the order in hand exists and has its entries, and that keys are unique, so
  that an upsert changes no other row. `LedgerHoldsOneRow` follows from the type
  of the rows, whose uid is the zero uid, and `KeysUnique`; nothing else rests on it.
* `BillerProofs`, the amounts. On top of `IInv`:
  * `HierarchyInv`, for `HierarchyAgrees`: the orders a run has taken up are finitely
    many, are there, and are not among those left (`OrdersOnce`), or taking one up
    would set an amount to zero that the sums above it contain.
  * `AccountInv`, for `AccountRowIsSumOfOrders`: the orders listed for an account are
    all that can have a row, since only this biller writes them and accounts of orders
    do not change. With `WrittenBottomUp` and `KeysUnique`, the rows and the amounts
    in memory correspond one to one, and `SumReindex` equates their sums. The proof
    does not use that a table has one row; in the run the sum has one term at most,
    because of the constant uid (4.1).
  * `CostInv`, for `NoOvercharge`: the rows of leases in memory are of different
    leases, which are in the table still with all their cost depends on
    (`LeasesInStep`), and the amount of the order in hand is at most the full cost of
    the leases added up so far (`Added`). What others do only adds leases
    (`CostNeverFalls`).
  * `FiniteInv`: tables and memory are finite, so that the leases in memory can be
    added up: what an order comes to (`Due`, the amount added up and the leases left)
    is set by the one query that lists its leases and changed by nothing until its row
    is written (`OrdersChargedAsListed`). A new row is thus exact for the moment of that
    query. `StepsLeadToTheEnd` is the safety part of `RunsEnd`: each step of a run ends it or leaves less to do, in a
    lexicographic order of accounts, orders, leases and calls (`Nearer`), and no other
    client gives it more to do. What stays with TLC is that a step can be taken.
* `BillerProofs`, refinement: every write of a run is a statement of `Querier` for the
  zero uid, a natural amount and a calendar month (`RunStatement`), so the biller and
  the clients around it implement `Querier` (`BillerIsAClient`).
* `ServicesProofs`: the inductive invariant adds two things to the checked
  properties. `LocksAreHeld`: a handler that is about to commit or update holds
  its row, and no lock outlives its transaction, so that `WritesFit` speaks of
  what is committed next. `CheckedAccounts`: an account checked by
  `CreateProject` is still enabled when it commits, because no statement disables
  one. From it, `CommitIsStatement` shows that what a transaction commits would
  be accepted as a statement of its own, and with it
  `TransactionsAreStatements`: every step is one of `Querier` or leaves the
  database alone. What `QuerierProofs` shows of `Querier` thus holds of the
  services. `HoldersDoNotWait` follows from `LocksAreHeld`: a transaction that is
  waited for waits for nobody, so there is no deadlock among transactions.
  `ChangedByItsHolder` follows from `LocksAreHeld` and `WritesFit`; it allows what an
  update would do to a project if it found its row, as it is meant to.
* `BackgroundProofs`: the invariant relates the ticker's countdown to the times
  since the last two starts: while no tick is waiting, the last start is within
  the time since the last tick, and the deadline is not before the next tick.
* `GatewayProofs`: whatever the body and the query of a request, its call acts on
  what the path names (`TranslationKeeps`), and whatever the body, no call it forwards
  lacks the project that its handler reads (`GatewayCallsHaveProject`).
* `ServerProofs`: every safety property of the `Server` run, for any calls,
  requests, settings and limits. None of them is inductive. `CutsNoAnswer` needs
  `WaitIsLongEnough`: while main waits for the gateway's requests, a connection is
  as old as the wait, and a request is as old as the wait less the time that reading
  it took, or its answer could not be written any more; at the end of the wait that
  gives `NobodyWaits`, from `TimesAssumption`. `LeavesNothingBehind` needs that in
  addition to `HandlersDone`, which rests on the gRPC server taking no call after
  `GracefulStop`. `CrashExplained`, that nothing over HTTP makes a process
  with a database panic, needs `GatewayCallsTranslated`, by `GatewayCallsHaveProject`; `DrainsBeforeItStops` needs what holds at each stage
  between (`DrainStages`), `ForwardsWhatWasAsked` that a request is kept until it is
  forwarded (`HTTPStages`), with `TranslationKeeps`. `MainStep`, `ListenerStep`,
  `TickStep`, `GatewayStep`, `DirectStep` and `HandlerStep` are one lemma per
  actor, with one step per action.

Every safety property that a passing run checks is proved. Only model-checked:
liveness under fairness (`RunsEnd`, `LedgerConverges`, `Stops`, `KeepsRunning`,
`RequestsAnswered`, `StopsWhenTold`), which needs `ENABLED`. Two theorems about runs
of the system state what no TLC run lists: `StepsLeadToTheEnd` and `HoldersDoNotWait`
are the parts of `RunsEnd` and `RequestsAnswered` that are safety.

## 6. Abstractions

* Prices are natural numbers per nanosecond and products are exact. The path of
  both factors through `float64`, text and `apd.Decimal` and the rounding of
  `NUMERIC(65,18)` is left out; that a product below the smallest exponent is an
  error and ends the run is kept (`TinyPrices`). Negative prices, which the
  schema allows and nothing produces, are left out.
* The unit of time is a nanosecond in the arithmetic and one instant in TLC; the
  microseconds of `TIMESTAMPTZ` are not distinguished. The biller's clock and
  the database's are one, in one time zone.
* One biller process; a second one would be another client that writes spend.
* A transaction's locks are those of the rows it writes or selects for update;
  the share lock that an insert takes on a billing account never conflicts,
  because accounts are not deleted. A handler whose process dies is one whose
  call fails. Requests refused for the form of their id are left out.
* Ids, quantities, descriptions and infrastructure types are not told apart.
* `AddLease` takes the leases in any order; the code takes the order of the
  query, which states none.
* A connection to the gateway carries one request, and a call is made once: its
  retry is another call. An idle connection is closed by `Shutdown` at once and is
  not modelled. `Shutdown` of the Prometheus server is one step. An HTTP server that
  does not listen yet is one that does not take a connection.
* Listeners fail before `select` has returned; afterwards nobody asks, and their
  failure is that calls do not come.
* A request without an id that its handler needs is refused before the database is
  used; the form of an id is not modelled, so a call whose id has the wrong form is
  taken for one that goes on to the database.
* A query that names both `update_mask` and `update_mask.paths` is left out: the
  runtime takes the parameters in no fixed order, and so does not say which mask
  comes out.
* The gateway's client connection reaches the gRPC server, or the call fails; that
  it tries again while a server starts is another call.
* A second signal kills the process as soon as the first one was received, and
  any signal before the listeners are started. When a listener has ended, signals
  stay caught and do nothing.

## 7. Not modelled

* **Generated messages** (`*.pb.go`): descriptors and accessors. The one thing about
  them that the program depends on, which fields a message has, is in `Gateway`.
* **Generated code nobody calls**: `local_request_*`, `Register...HandlerServer`,
  `Register...HandlerFromEndpoint`, the gateway of the version service, the
  `Unimplemented...` servers.
* **`lib/resource`, `lib/conv`**: functions on characters and on the text of floats;
  a model of them would be a transliteration. Where they can refuse, the models
  may (`AddLeaseFails`; requests refused for the form of their id change nothing).
* **`lib/logger`, `lib/errorhandler`**: wording of logs, and interceptors that are
  installed nowhere.
* **Certificates, gauges, the query logger** of `postgresql.go`, and TLS of both
  servers: `main` sets none of it.
* **`/healthz`** of the gateway, and the answers of the health service: `health` is the
  status it reports.
* **Uncalled statements**: `ExecWithTx`, `EnsureSupplyEnabled`, the time-range
  look-ups of spend.
* **Rounding** of amounts, and the end of a month that no run bills because the
  biller's window is the month in which it runs (`main.go:98`).

## 8. Plan

Done: metering, store, querier, biller, services, background service, gateway and
server; every safety property of their runs proved; the services and the biller as
implementations of `Querier`.

Left, in this order:

1. The safety parts of the other liveness properties: how far a shutdown of the server
   still has to go, and how long the background loop can wait.
2. `Background` with `Biller` as its task: deadlines in the middle of a run.
3. A biller with distinct uids, as the schema's default would give, and the project
   that two accounts share.
4. `Services` inside `Server`: today they meet in `BeginTx` and `Finish` only.
