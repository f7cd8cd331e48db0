-------------------------------- MODULE Server --------------------------------
(***************************************************************************)
(* The compute server from its command line to its exit: the goroutine of  *)
(* main, the listeners it starts, the calls they serve and the order in    *)
(* which everything is stopped.                                            *)
(*                                                                         *)
(* A call is made once.  Some come over HTTP, through the gateway and its  *)
(* client connection; some are made to the gRPC server itself; and some    *)
(* are streams, as the Watch of the health service, that last as long as   *)
(* the client wants.  What a handler does in its transaction is the module *)
(* Services; here it has one open or has not.  Time passes in ticks, and   *)
(* only the order of the limits matters.                                   *)
(***************************************************************************)
EXTENDS Gateway, FiniteSets

CONSTANTS
    GatewayCalls, DirectCalls, WatchCalls,
    Requests,               \* what may come over HTTP
    Messages,               \* what may be sent to the gRPC server itself
    CommandLines,           \* the arguments, a function from flags to values
    Environments,           \* the variables that are set, by the name of their flag
    ReadHeaderTimeout,      \* until the first request of a connection has come
    WriteTimeout,           \* until the answer has to be written
    GatewayGracePeriod,     \* how long the gateway is given to shut down
    HandlerTimeout,         \* the gateway's limit of a request
    RPCTimeout,             \* the server's limit of a call
    ListenerFailures        \* how many listeners fail: a bound

Calls == GatewayCalls \cup DirectCalls \cup WatchCalls
Unary == GatewayCalls \cup DirectCalls
HTTPListeners == {"gateway", "prometheus"}
Listeners == HTTPListeners \cup {"grpc"}

Flags == {"runner", "pg-pass", "shutdown-grace-period"}

ASSUME RequestsAssumption == \A r \in Requests : WellFormed(r)

ASSUME SettingsAssumption ==
    \A given \in CommandLines \cup Environments :
        /\ DOMAIN given \subseteq Flags
        /\ "shutdown-grace-period" \in DOMAIN given
           => given["shutdown-grace-period"] \in Nat \cup {Malformed}

ASSUME CallsAssumption ==
    /\ GatewayCalls \cap DirectCalls = {}
    /\ WatchCalls \cap Unary = {}

\* 2 s, 10 s, 15 s and 30 s twice.
ASSUME TimesAssumption ==
    /\ {ReadHeaderTimeout, WriteTimeout, GatewayGracePeriod, HandlerTimeout,
        RPCTimeout} \subseteq Nat
    /\ ReadHeaderTimeout + WriteTimeout <= GatewayGracePeriod
    /\ ReadHeaderTimeout <= HandlerTimeout
    /\ WriteTimeout <= HandlerTimeout

\* No limit is longer.
Expired == IF HandlerTimeout < RPCTimeout THEN RPCTimeout ELSE HandlerTimeout

VARIABLES
    main,           \* what main does next, or how the process ended
    settings,       \* the flags
    listener,       \* of each listener, how far it is
    groupDone,      \* the context of the error group of the gRPC servers is done
    signalled,      \* the signal context is done
    reason,         \* why the service stops
    health,         \* the status the health service reports
    pool,           \* the connections to the database
    conn,           \* the gateway's connection to the gRPC server
    timer,          \* time spent waiting by main
    http,           \* of a call to the gateway, how far its HTTP side is
    request,        \* the HTTP request, until the gateway has dealt with it
    rpc,            \* how far the handler of a call is
    call,           \* the call, while the handler is at work on it
    age             \* time since the connection was accepted or the request came,
                    \* Expired when nobody waits for an answer any more

stageVars == <<settings, groupDone, signalled, reason, health, pool, conn>>
mainVars == <<main, stageVars, listener, timer>>
callVars == <<http, request, rpc, call, age>>
vars == <<mainVars, callVars>>

Ended == {"failed", "background", "exited", "killed", "crashed"}
Running == main \notin Ended

\* Everything after the service has been told to stop its gRPC server.
GRPCStopped == {"grpcDrain", "stopPrometheus", "closePool"} \cup Ended

-----------------------------------------------------------------------------
(* Configuration. *)

Defaults == [f \in Flags |-> IF f = "shutdown-grace-period" THEN 0 ELSE ""]

\* Mutant: the environment comes before the arguments.
FillEnvironmentFirst(args, env) ==
    IF \E f \in DOMAIN args : args[f] = Malformed
    THEN Malformed
    ELSE [f \in Flags |-> IF f \in DOMAIN env THEN env[f]
                          ELSE IF f \in DOMAIN args THEN args[f] ELSE Defaults[f]]

\* A flag given as an argument keeps its value, and its variable is not looked
\* at; a value that does not parse ends the program.
FillUsingPrefix(args, env) ==
    IF \/ \E f \in DOMAIN args : args[f] = Malformed
       \/ \E f \in DOMAIN env \ DOMAIN args : env[f] = Malformed
    THEN Malformed
    ELSE [f \in Flags |-> IF f \in DOMAIN args THEN args[f]
                          ELSE IF f \in DOMAIN env THEN env[f] ELSE Defaults[f]]

Configure ==
    /\ main = "configure"
    /\ \E args \in CommandLines, env \in Environments :
          LET filled == FillUsingPrefix(args, env)
          IN  \/ /\ filled = Malformed
                 /\ main' = "failed"
                 /\ UNCHANGED settings
              \/ /\ filled # Malformed
                 /\ main' = "connect"
                 /\ settings' = filled
    /\ UNCHANGED <<listener, groupDone, signalled, reason, health, pool, conn,
                   timer, callVars>>

\* The logger is set in the parsed configuration before the error of parsing is
\* looked at: with a password that breaks the DSN, as a backslash at its end
\* does, that is a nil pointer.
ParseConfigFails == settings["pg-pass"] = "backslash"

\* A database that does not answer is an error that main only logs.
NewClient ==
    /\ main = "connect"
    /\ \/ /\ ParseConfigFails
          /\ main' = "crashed"
          /\ UNCHANGED pool
       \/ /\ ~ ParseConfigFails
          /\ main' = "dispatch"
          /\ pool' \in {"none", "open"}
    /\ UNCHANGED <<settings, listener, groupDone, signalled, reason, health, conn,
                   timer, callVars>>

newGRPCService == health' = "NOT_SERVING"

newGRPCGateway == conn' = "open"

\* The runner decides what the process is: the biller in the background, which
\* is the module Background, or the server; the deferred Close of the pool ends
\* a process whose runner is unknown.
Dispatch ==
    /\ main = "dispatch"
    /\ \/ /\ settings["runner"] = ""
          /\ main' = "start"
          /\ newGRPCService
          /\ newGRPCGateway
          /\ UNCHANGED pool
       \/ /\ settings["runner"] = "biller"
          /\ main' = "background"
          /\ UNCHANGED <<health, conn, pool>>
       \/ /\ settings["runner"] \notin {"", "biller"}
          /\ main' = "failed"
          /\ pool' = IF pool = "open" THEN "closed" ELSE pool
          /\ UNCHANGED <<health, conn>>
    /\ UNCHANGED <<settings, listener, groupDone, signalled, reason, timer, callVars>>

-----------------------------------------------------------------------------
(* Service.Run. *)

\* Signals are caught from here on, and the listeners get goroutines.  That an
\* HTTP server does not listen yet shows only in a call it does not take.
Start ==
    /\ main = "start"
    /\ main' = "check"
    /\ listener' = [l \in Listeners |-> IF l = "grpc" THEN "starting" ELSE "listening"]
    /\ UNCHANGED <<stageVars, timer, callVars>>

\* A context that select waits for is done because a listener has ended.
ListenerDone ==
    \/ \E l \in HTTPListeners : listener[l] = "ended"
    \/ groupDone

Check ==
    /\ main = "check"
    /\ main' = IF ListenerDone \/ signalled THEN "select" ELSE "mark"
    /\ UNCHANGED <<stageVars, listener, timer, callVars>>

Ready ==
    /\ main = "mark"
    /\ main' = "select"
    /\ health' = "SERVING"
    /\ UNCHANGED <<settings, listener, groupDone, signalled, reason, pool, conn,
                   timer, callVars>>

\* The deferred functions run at once, and the status stays what it is.
SelectListener ==
    /\ main = "select"
    /\ ListenerDone
    /\ main' = "stopGateway"
    /\ reason' = "listener"
    /\ UNCHANGED <<settings, listener, groupDone, signalled, health, pool, conn,
                   timer, callVars>>

\* Mutant: the status is left alone.
SelectSignalStayReady ==
    /\ main = "select"
    /\ signalled
    /\ main' = "drain"
    /\ reason' = "signal"
    /\ timer' = 0
    /\ UNCHANGED <<settings, listener, groupDone, signalled, health, pool, conn,
                   callVars>>

\* notReady, and signals are no longer caught: the next one kills the process.
\* If a listener has ended as well, select takes either branch.
SelectSignal ==
    /\ main = "select"
    /\ signalled
    /\ main' = "drain"
    /\ reason' = "signal"
    /\ health' = "NOT_SERVING"
    /\ timer' = 0
    /\ UNCHANGED <<settings, listener, groupDone, signalled, pool, conn, callVars>>

Drained ==
    /\ main = "drain"
    /\ timer >= settings["shutdown-grace-period"]
    /\ main' = "stopGateway"
    /\ UNCHANGED <<stageVars, listener, timer, callVars>>

-----------------------------------------------------------------------------
(* The deferred functions: the gateway, the gRPC server, the Prometheus    *)
(* server, the pool.                                                       *)

\* http.Server.Shutdown: no new connection.
StopGateway ==
    /\ main = "stopGateway"
    /\ main' = "httpDrain"
    /\ listener' = [listener EXCEPT !["gateway"] = "ended"]
    /\ timer' = 0
    /\ UNCHANGED <<stageVars, callVars>>

\* Mutant: Shutdown does not wait.
HTTPNotDrained ==
    /\ main = "httpDrain"
    /\ main' = "closeConn"
    /\ UNCHANGED <<stageVars, listener, timer, callVars>>

\* Shutdown returns when no connection is new or in use, or in the end anyway.
HTTPDrained ==
    /\ main = "httpDrain"
    /\ \/ \A c \in GatewayCalls : http[c] \notin {"connected", "active", "calling"}
       \/ timer >= GatewayGracePeriod
    /\ main' = "closeConn"
    /\ UNCHANGED <<stageVars, listener, timer, callVars>>

CloseConn ==
    /\ main = "closeConn"
    /\ main' = "stopGRPC"
    /\ conn' = "closed"
    /\ UNCHANGED <<settings, listener, groupDone, signalled, reason, health, pool,
                   timer, callVars>>

\* GracefulStop: no new call.
StopGRPC ==
    /\ main = "stopGRPC"
    /\ main' = "grpcDrain"
    /\ listener' = [listener EXCEPT !["grpc"] = "ended"]
    /\ UNCHANGED <<stageVars, timer, callVars>>

InProgress == {"begun", "inTx", "finished"}

\* Mutant: Stop in the place of GracefulStop.
GRPCNotDrained ==
    /\ main = "grpcDrain"
    /\ main' = "stopPrometheus"
    /\ UNCHANGED <<stageVars, listener, timer, callVars>>

\* GracefulStop returns when no handler is left; nothing limits it.
GRPCDrained ==
    /\ main = "grpcDrain"
    /\ \A c \in Calls : rpc[c] \notin InProgress
    /\ main' = "stopPrometheus"
    /\ UNCHANGED <<stageVars, listener, timer, callVars>>

StopPrometheus ==
    /\ main = "stopPrometheus"
    /\ main' = "closePool"
    /\ listener' = [listener EXCEPT !["prometheus"] = "ended"]
    /\ UNCHANGED <<stageVars, timer, callVars>>

\* Close waits for the connections that are in use.
ClosePool ==
    /\ main = "closePool"
    /\ \A c \in Calls : rpc[c] # "inTx"
    /\ main' = "exited"
    /\ pool' = IF pool = "open" THEN "closed" ELSE pool
    /\ UNCHANGED <<settings, listener, groupDone, signalled, reason, health, conn,
                   timer, callVars>>

-----------------------------------------------------------------------------
(* The listeners, and signals. *)

\* After select nobody asks whether a listener has failed, and one that does
\* only fails to take calls, which need not come anyway.
Fail(l) ==
    /\ main \in {"check", "mark", "select"}
    /\ Cardinality({k \in Listeners : listener[k] = "ended"}) < ListenerFailures
    /\ listener' = [listener EXCEPT ![l] = "ended"]

\* ListenAndServe returns, and the context that startHTTPServer made is done.
HTTPServerEnds(l) ==
    /\ listener[l] = "listening"
    /\ Fail(l)
    /\ UNCHANGED <<main, stageVars, timer, callVars>>

Listen ==
    /\ Running
    /\ listener["grpc"] = "starting"
    /\ listener' = [listener EXCEPT !["grpc"] = "listening"]
    /\ UNCHANGED <<main, stageVars, timer, callVars>>

\* net.Listen fails: its error ends the error group.
GRPCListenFails ==
    /\ listener["grpc"] = "starting"
    /\ Fail("grpc")
    /\ groupDone' = TRUE
    /\ UNCHANGED <<main, settings, signalled, reason, health, pool, conn, timer,
                   callVars>>

\* Serve fails: its error is another variable than the one that is returned.
\* Connections that were accepted stay.
GRPCServeFails ==
    /\ listener["grpc"] = "listening"
    /\ Fail("grpc")
    /\ UNCHANGED <<main, stageVars, timer, callVars>>

\* Nothing of the process is left.
Die(how) ==
    /\ main' = how
    /\ listener' = [l \in Listeners |-> "off"]
    /\ groupDone' = FALSE /\ signalled' = FALSE /\ reason' = "none"
    /\ health' = "NOT_SERVING" /\ pool' = "none" /\ conn' = "none"
    /\ timer' = 0
    /\ http' = [c \in Calls |-> "done"]
    /\ request' = [c \in Calls |-> NULL]
    /\ rpc' = [c \in Calls |-> "done"]
    /\ call' = [c \in Calls |-> NULL]
    /\ age' = [c \in Calls |-> Expired]
    /\ UNCHANGED settings

\* Until Run has the listeners a signal ends the process.  From then on it is
\* caught, until select has received one: the second signal kills.
Signal ==
    \/ /\ main \in {"check", "mark", "select"}
       /\ ~ signalled
       /\ signalled' = TRUE
       /\ UNCHANGED <<main, settings, groupDone, reason, health, pool, conn,
                      listener, timer, callVars>>
    \/ /\ Running
       /\ main \notin {"check", "mark", "select"}
       /\ reason # "listener"
       /\ Die("killed")

-----------------------------------------------------------------------------
(* Calls over HTTP. *)

\* The gRPC server takes calls until GracefulStop: on the connections it has if
\* Serve has failed, on none if there never was a listener.
GRPCUp ==
    /\ main \notin GRPCStopped
    /\ listener["grpc"] \in {"listening", "ended"}
    /\ ~ groupDone

\* Mutant: the server does not limit a call.
ContextDoneUnlimited(c) ==
    c \in GatewayCalls /\ (age[c] >= HandlerTimeout \/ conn = "closed")

\* The context of a call: the client is gone or has its answer, a limit is
\* reached, or the gateway has closed its connection.
ContextDone(c) ==
    \/ age[c] >= RPCTimeout
    \/ c \in GatewayCalls /\ (age[c] >= HandlerTimeout \/ conn = "closed")

\* The client gives up or has its answer.
Expire(c) == age' = [age EXCEPT ![c] = Expired]

Accept(c) ==
    /\ Running
    /\ listener["gateway"] = "listening"
    /\ http[c] = "idle"
    /\ http' = [http EXCEPT ![c] = "connected"]
    /\ UNCHANGED <<mainVars, request, rpc, call, age>>

Read(c, r) ==
    /\ Running
    /\ http[c] = "connected"
    /\ http' = [http EXCEPT ![c] = "active"]
    /\ request' = [request EXCEPT ![c] = r]
    /\ age' = [age EXCEPT ![c] = 0]
    /\ UNCHANGED <<mainVars, rpc, call>>

\* The client closes the connection, or ReadHeaderTimeout does.
Drop(c) ==
    /\ Running
    /\ http[c] = "connected"
    /\ http' = [http EXCEPT ![c] = "done"]
    /\ Expire(c)
    /\ UNCHANGED <<mainVars, request, rpc, call>>

\* The gateway writes what it has, which reaches the client until WriteTimeout;
\* the end of the request cancels its call.
Write(c) ==
    /\ http' = [http EXCEPT ![c] = "done"]
    /\ Expire(c)

\* The call of the client stub starts a handler.
Invoke(c, m) ==
    /\ rpc' = [rpc EXCEPT ![c] = "begun"]
    /\ call' = [call EXCEPT ![c] = m]

Forward(c) ==
    /\ Running
    /\ http[c] = "active"
    /\ LET m == Translate(request[c])
       IN  \/ /\ m # NULL
              /\ GRPCUp
              /\ ~ ContextDone(c)
              /\ Invoke(c, m)
              /\ http' = [http EXCEPT ![c] = "calling"]
              /\ UNCHANGED age
           \/ /\ m = NULL \/ ~ GRPCUp \/ ContextDone(c)
              /\ Write(c)
              /\ UNCHANGED <<rpc, call>>
    /\ request' = [request EXCEPT ![c] = NULL]
    /\ UNCHANGED mainVars

\* The answer of the call, or the end of its context, whichever comes first.
Relay(c) ==
    /\ Running
    /\ http[c] = "calling"
    /\ rpc[c] = "done" \/ ContextDone(c)
    /\ Write(c)
    /\ UNCHANGED <<mainVars, request, rpc, call>>

-----------------------------------------------------------------------------
(* Calls to the gRPC server itself. *)

Send(c, m) ==
    /\ GRPCUp
    /\ rpc[c] = "none"
    /\ Invoke(c, m)
    /\ UNCHANGED <<mainVars, http, request, age>>

\* A stream passes none of the unary interceptors: it has no limit.
Watch(c) ==
    /\ GRPCUp
    /\ rpc[c] = "none"
    /\ rpc' = [rpc EXCEPT ![c] = "begun"]
    /\ UNCHANGED <<mainVars, http, request, call, age>>

EndWatch(c) ==
    /\ Running
    /\ rpc[c] = "begun"
    /\ rpc' = [rpc EXCEPT ![c] = "done"]
    /\ UNCHANGED <<mainVars, http, request, call, age>>

\* A client gives up; HTTP and gRPC both cancel the context of its call.
Leave(c) ==
    /\ Running
    /\ http[c] \in {"active", "calling"} \/ rpc[c] \in InProgress
    /\ Expire(c)
    /\ UNCHANGED <<mainVars, http, request, rpc, call>>

-----------------------------------------------------------------------------
(* Handlers. *)

BeginTx(c) ==
    /\ Running
    /\ rpc[c] = "begun"
    /\ UsesDatabase(call[c])
    /\ pool = "open"
    /\ ~ ContextDone(c)
    /\ rpc' = [rpc EXCEPT ![c] = "inTx"]
    /\ UNCHANGED <<mainVars, http, request, call, age>>

\* Nothing recovers a panic: neither a field of no project can be read nor the
\* methods of a nil querier called.
Panics(c) ==
    /\ rpc[c] = "begun"
    /\ MissesProject(call[c]) \/ (pool = "none" /\ UsesDatabase(call[c]))

Panic(c) ==
    /\ Running
    /\ Panics(c)
    /\ Die("crashed")

\* The transaction is committed or rolled back, the request is refused, as one is
\* that lacks an id, or no handler has the method.
Finish(c) ==
    /\ Running
    /\ rpc[c] \in {"begun", "inTx"}
    /\ ~ Panics(c)
    /\ rpc' = [rpc EXCEPT ![c] = "finished"]
    /\ call' = [call EXCEPT ![c] = NULL]
    /\ UNCHANGED <<mainVars, http, request, age>>

\* The answer passes the interceptors; whoever called directly has it.
Return(c) ==
    /\ Running
    /\ rpc[c] = "finished"
    /\ rpc' = [rpc EXCEPT ![c] = "done"]
    /\ IF c \in DirectCalls THEN Expire(c) ELSE UNCHANGED age
    /\ UNCHANGED <<mainVars, http, request, call>>

-----------------------------------------------------------------------------
(* Time. *)

\* The age of a call counts while a limit waits for it.
Ages(c) ==
    /\ http[c] \in {"connected", "active", "calling"} \/ rpc[c] \in InProgress
    /\ age[c] < Expired

TimerLimit == IF main = "drain" THEN settings["shutdown-grace-period"]
              ELSE IF main = "httpDrain" THEN GatewayGracePeriod ELSE 0

\* A connection does not outlive ReadHeaderTimeout without a request.
Tick ==
    /\ Running
    /\ \A c \in GatewayCalls : http[c] = "connected" => age[c] < ReadHeaderTimeout
    /\ age' = [c \in Calls |-> IF c \in Unary /\ Ages(c) THEN age[c] + 1 ELSE age[c]]
    /\ timer' = IF timer < TimerLimit THEN timer + 1 ELSE timer
    /\ UNCHANGED <<main, stageVars, listener, http, request, rpc, call>>

-----------------------------------------------------------------------------
Init ==
    /\ main = "configure"
    /\ settings = Defaults
    /\ listener = [l \in Listeners |-> "off"]
    /\ groupDone = FALSE
    /\ signalled = FALSE
    /\ reason = "none"
    /\ health = "NOT_SERVING"
    /\ pool = "none"
    /\ conn = "none"
    /\ timer = 0
    /\ http = [c \in Calls |-> "idle"]
    /\ request = [c \in Calls |-> NULL]
    /\ rpc = [c \in Calls |-> "none"]
    /\ call = [c \in Calls |-> NULL]
    /\ age = [c \in Calls |-> 0]

Main ==
    \/ Configure \/ NewClient \/ Dispatch
    \/ Start \/ Check \/ Ready \/ SelectListener \/ SelectSignal \/ Drained
    \/ StopGateway \/ HTTPDrained \/ CloseConn \/ StopGRPC \/ GRPCDrained
    \/ StopPrometheus \/ ClosePool

Listening ==
    \/ Listen
    \/ \E l \in HTTPListeners : HTTPServerEnds(l)
    \/ GRPCListenFails \/ GRPCServeFails

Next ==
    \/ Main
    \/ Listening
    \/ Signal
    \/ Tick
    \/ \E c \in GatewayCalls :
          \/ Accept(c) \/ Drop(c) \/ Forward(c) \/ Relay(c)
          \/ \E r \in Requests : Read(c, r)
    \/ \E c \in DirectCalls, m \in Messages : Send(c, m)
    \/ \E c \in WatchCalls : Watch(c) \/ EndWatch(c)
    \/ \E c \in Unary :
          Leave(c) \/ BeginTx(c) \/ Finish(c) \/ Panic(c) \/ Return(c)

Spec == Init /\ [][Next]_vars

\* Main goes on, time passes, and what a goroutine can do by itself it does: a
\* handler panics, sees that its context is done and returns.  A statement may
\* wait for ever, a client need not leave, and no signal has to come.
FairSpec ==
    /\ Spec
    /\ WF_vars(Main)
    /\ WF_vars(Tick)
    /\ \A c \in GatewayCalls : WF_vars(Drop(c)) /\ WF_vars(Forward(c)) /\ WF_vars(Relay(c))
    /\ \A c \in Unary :
          WF_vars(ContextDone(c) /\ Finish(c)) /\ WF_vars(Panic(c)) /\ WF_vars(Return(c))

-----------------------------------------------------------------------------
(* Correctness. *)

MainStages ==
    {"configure", "connect", "dispatch", "start", "check", "mark", "select",
     "drain", "stopGateway", "httpDrain", "closeConn", "stopGRPC",
     "grpcDrain", "stopPrometheus", "closePool"} \cup Ended

\* Main and the service are at a known place, a call is known to its handler
\* and its client before it is answered, and nobody waits for longer than the
\* limits.
TypeOK ==
    /\ main \in MainStages
    /\ DOMAIN settings = Flags /\ settings["shutdown-grace-period"] \in Nat
    /\ listener \in [Listeners -> {"off", "starting", "listening", "ended"}]
    /\ groupDone \in BOOLEAN /\ signalled \in BOOLEAN
    /\ reason \in {"none", "listener", "signal"}
    /\ health \in {"NOT_SERVING", "SERVING"}
    /\ pool \in {"none", "open", "closed"} /\ conn \in {"none", "open", "closed"}
    /\ timer \in Nat
    /\ http \in [Calls -> {"idle", "connected", "active", "calling", "done"}]
    /\ request \in [Calls -> Requests \cup {NULL}]
    /\ rpc \in [Calls -> InProgress \cup {"none", "done"}]
    /\ age \in [Calls -> 0 .. Expired]

\* What the gateway calls is what the client asked for.
ForwardsWhatWasAsked ==
    [][\A c \in GatewayCalls :
          rpc[c] = "none" /\ rpc'[c] = "begun" => Keeps(request[c], call'[c])]_vars

\* Nothing that comes over HTTP crashes a process that has its database: whatever
\* the body, a call of the gateway has the project that its handler reads.  Only
\* a client of the gRPC server can leave it out of its message.
CrashExplained ==
    [][Running /\ main' = "crashed" =>
          \/ pool = "none"
          \/ \E c \in DirectCalls : rpc[c] = "begun" /\ MissesProject(call[c])]_vars

\* On a signal the service is not ready for all of the grace period before it
\* stops taking requests.
DrainsBeforeItStops ==
    [][main = "stopGateway" /\ main' = "httpDrain" /\ reason = "signal"
       => health = "NOT_SERVING" /\ timer >= settings["shutdown-grace-period"]]_vars

\* The gateway's connection is closed only over requests whose answers could
\* not be delivered any more.
CutsNoAnswer ==
    [][conn = "open" /\ conn' = "closed" =>
       \A c \in GatewayCalls :
          http[c] \in {"active", "calling"} => age[c] >= WriteTimeout]_vars

\* When the pool is closed no handler is at work, and a request that is not
\* answered is one that could not be answered any more.
LeavesNothingBehind ==
    pool = "closed" =>
        /\ \A c \in Calls : rpc[c] \notin InProgress
        /\ \A c \in GatewayCalls :
              http[c] \in {"active", "calling"} => age[c] >= WriteTimeout

Watched == \E c \in WatchCalls : rpc[c] = "begun"

ToldToStop == main = "select" /\ (signalled \/ ListenerDone)

\* The process ends after a signal, and after the end of any listener that its
\* context is told of, however long statements take; only a stream that its
\* client never closes can keep it.
StopsWhenTold == ToldToStop ~> ~ Running \/ []Watched

-----------------------------------------------------------------------------
(* What the repository says of the program, and the program does not do. *)

\* service.go: "wait until any of the listeners stop or a signal is received".
WaitsForAnyListener ==
    \A l \in Listeners :
        (main = "select" /\ listener[l] = "ended") ~> main # "select"
=============================================================================
