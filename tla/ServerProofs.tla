----------------------------- MODULE ServerProofs -----------------------------
(***************************************************************************)
(* The server, for any calls, requests and limits.                         *)
(***************************************************************************)
EXTENDS Server, GatewayProofs

EarlyStages == {"configure", "connect", "dispatch", "start", "failed", "background"}

\* Before Run starts the listeners there is nothing to call.
NothingYet ==
    main \in EarlyStages =>
        /\ \A l \in Listeners : listener[l] = "off"
        /\ \A c \in Calls : http[c] = "idle" /\ rpc[c] = "none"

\* The pool is open from its client to the end of the process.
PoolStages ==
    /\ main \in {"configure", "connect"} => pool = "none"
    /\ pool = "closed" => main \in {"failed", "exited"}

\* The status while main waits for load balancers, and how long it has waited.
DrainStages ==
    reason = "signal" =>
        /\ main \in {"drain", "stopGateway"} => health = "NOT_SERVING"
        /\ main = "stopGateway" => timer >= settings["shutdown-grace-period"]

AfterGateway ==
    {"httpDrain", "closeConn", "stopGRPC", "grpcDrain", "stopPrometheus",
     "closePool", "exited"}

\* The gateway does not take a connection once it is shut down.
GatewayStopped == main \in AfterGateway => listener["gateway"] = "ended"

\* How far the two sides of a call over HTTP can be apart.
HTTPStages ==
    \A c \in GatewayCalls :
        /\ http[c] = "idle" => age[c] = 0
        /\ http[c] \in {"idle", "connected", "active"} => rpc[c] = "none"
        /\ http[c] = "connected" => age[c] <= ReadHeaderTimeout
        /\ http[c] = "active" => request[c] \in Requests

\* Main waits for connections and their requests no longer than they get: a
\* connection is as old as the wait, a request as what is left of it.
WaitIsLongEnough ==
    main = "httpDrain" =>
        \A c \in GatewayCalls :
            /\ http[c] = "connected" => age[c] >= timer
            /\ http[c] \in {"active", "calling"} =>
                  age[c] + ReadHeaderTimeout >= timer \/ age[c] >= WriteTimeout

\* After the wait nobody is left who could get an answer.
NobodyWaits ==
    main \in AfterGateway \ {"httpDrain"} =>
        \A c \in GatewayCalls :
            /\ http[c] = "connected" => WriteTimeout = 0
            /\ http[c] \in {"active", "calling"} => age[c] >= WriteTimeout

\* No handler is left, and none starts.
HandlersDone ==
    main \in {"stopPrometheus", "closePool", "exited"} =>
        \A c \in Calls : rpc[c] \notin InProgress

\* What a handler was given by the gateway is what a translation yields.
GatewayCallsTranslated ==
    \A c \in GatewayCalls : rpc[c] = "begun" => ~ MissesProject(call[c])

CallIsFunction == DOMAIN call = Calls /\ call = [c \in Calls |-> call[c]]

IInv ==
    /\ TypeOK /\ CallIsFunction
    /\ NothingYet /\ PoolStages /\ DrainStages /\ GatewayStopped /\ HTTPStages
    /\ WaitIsLongEnough /\ NobodyWaits /\ HandlersDone /\ GatewayCallsTranslated

-----------------------------------------------------------------------------
(* What the steps have in common. *)

LEMMA Limits ==
    /\ Expired \in Nat /\ ReadHeaderTimeout \in Nat /\ WriteTimeout \in Nat
    /\ GatewayGracePeriod \in Nat /\ HandlerTimeout \in Nat /\ RPCTimeout \in Nat
    /\ ReadHeaderTimeout <= Expired /\ WriteTimeout <= Expired
    /\ ReadHeaderTimeout + WriteTimeout <= GatewayGracePeriod
BY TimesAssumption DEF Expired

\* The stages of main keep their invariants while main and the service do not
\* change, and a call that is made shows that they are past the beginning.
LEMMA CallsLeaveMain ==
    ASSUME IInv, UNCHANGED mainVars
    PROVE  /\ PoolStages' /\ DrainStages' /\ GatewayStopped'
           /\ main \notin EarlyStages => NothingYet'
BY DEF IInv, mainVars, stageVars, PoolStages, DrainStages, GatewayStopped, NothingYet

\* Calls keep theirs while only main goes on, to a stage that asks for no more.
LEMMA MainLeavesCalls ==
    ASSUME IInv, UNCHANGED callVars
    PROVE  CallIsFunction' /\ HTTPStages' /\ GatewayCallsTranslated'
BY DEF IInv, callVars, CallIsFunction, HTTPStages, GatewayCallsTranslated

\* Nothing is left to be wrong of a process that has died.
LEMMA Death ==
    ASSUME IInv, NEW how \in {"killed", "crashed"}, Die(how)
    PROVE  IInv'
<1> USE Limits DEF Die
<1>1. main' = how
    OBVIOUS
<1>2. CallIsFunction'
    BY DEF CallIsFunction
<1>3. TypeOK'
    <2>1. /\ listener' \in [Listeners -> {"off", "starting", "listening", "ended"}]
          /\ http' \in [Calls -> {"idle", "connected", "active", "calling", "done"}]
          /\ request' \in [Calls -> Requests \cup {NULL}]
          /\ rpc' \in [Calls -> InProgress \cup {"none", "done"}]
        OBVIOUS
    <2>2. age' \in [Calls -> 0 .. Expired]
        OBVIOUS
    <2> QED BY <1>1, <2>1, <2>2 DEF IInv, TypeOK, MainStages, Ended
<1>4. HTTPStages' /\ GatewayCallsTranslated'
    BY DEF HTTPStages, GatewayCallsTranslated, Calls, Unary
<1>5. NothingYet' /\ PoolStages' /\ DrainStages' /\ GatewayStopped'
      /\ WaitIsLongEnough' /\ NobodyWaits' /\ HandlersDone'
    BY <1>1 DEF NothingYet, EarlyStages, PoolStages, DrainStages, GatewayStopped,
       AfterGateway, WaitIsLongEnough, NobodyWaits, HandlersDone
<1> QED BY <1>2, <1>3, <1>4, <1>5 DEF IInv

-----------------------------------------------------------------------------
(* Main. *)

\* Whatever the arguments and the environment, a grace period that is not
\* refused is a number.
LEMMA FilledSettings ==
    ASSUME NEW args \in CommandLines, NEW env \in Environments,
           FillUsingPrefix(args, env) # Malformed
    PROVE  /\ DOMAIN FillUsingPrefix(args, env) = Flags
           /\ FillUsingPrefix(args, env)["shutdown-grace-period"] \in Nat
<1> DEFINE grace == "shutdown-grace-period"
<1>1. FillUsingPrefix(args, env)
      = [f \in Flags |-> IF f \in DOMAIN args THEN args[f]
                         ELSE IF f \in DOMAIN env THEN env[f] ELSE Defaults[f]]
    BY DEF FillUsingPrefix
<1>2. /\ grace \in DOMAIN args => args[grace] # Malformed
      /\ grace \in DOMAIN env \ DOMAIN args => env[grace] # Malformed
    BY DEF FillUsingPrefix
<1>3. /\ grace \in DOMAIN args => args[grace] \in Nat \cup {Malformed}
      /\ grace \in DOMAIN env => env[grace] \in Nat \cup {Malformed}
    BY SettingsAssumption
<1>4. grace \in Flags /\ Defaults[grace] = 0
    BY DEF Flags, Defaults
<1> QED BY <1>1, <1>2, <1>3, <1>4

\* Each step of main leads from what holds at one stage to what holds at the next.
LEMMA MainStep ==
    ASSUME IInv, Main
    PROVE  IInv'
<1> USE Limits DEF IInv, stageVars, callVars, TypeOK, Listeners, HTTPListeners, Calls,
           Unary, MainStages, Ended, EarlyStages, AfterGateway, InProgress
<1>0. HTTPStages' /\ GatewayCallsTranslated' /\ CallIsFunction'
    BY MainLeavesCalls DEF Main, Configure, NewClient, Dispatch, Start, Check, Ready,
       SelectListener, SelectSignal, Drained, StopGateway, HTTPDrained, CloseConn,
       StopGRPC, GRPCDrained, StopPrometheus, ClosePool
<1>1. CASE Configure
    <2>1. UNCHANGED <<listener, groupDone, signalled, reason, health, pool, conn, timer,
                      callVars>>
        BY <1>1 DEF Configure
    <2>2. PICK args \in CommandLines, env \in Environments :
              LET filled == FillUsingPrefix(args, env)
              IN  \/ filled = Malformed /\ main' = "failed" /\ UNCHANGED settings
                  \/ filled # Malformed /\ main' = "connect" /\ settings' = filled
        BY <1>1 DEF Configure
    <2>3. main = "configure" /\ main' \in {"failed", "connect"}
        BY <1>1, <2>2 DEF Configure
    <2>4. DOMAIN settings' = Flags /\ settings'["shutdown-grace-period"] \in Nat
        BY <2>2, FilledSettings
    <2>5. TypeOK'
        BY <2>1, <2>3, <2>4
    <2>6. NothingYet' /\ PoolStages' /\ DrainStages' /\ GatewayStopped'
          /\ WaitIsLongEnough' /\ NobodyWaits' /\ HandlersDone'
        BY <2>1, <2>3 DEF NothingYet, PoolStages, DrainStages, GatewayStopped,
           WaitIsLongEnough, NobodyWaits, HandlersDone
    <2> QED BY <1>0, <2>5, <2>6
<1>2. CASE NewClient
    BY <1>0, <1>2 DEF NewClient, NothingYet, PoolStages, DrainStages,
       GatewayStopped, WaitIsLongEnough, NobodyWaits, HandlersDone
<1>3. CASE Dispatch
    BY <1>0, <1>3 DEF Dispatch, NothingYet, PoolStages, DrainStages,
       GatewayStopped, WaitIsLongEnough, NobodyWaits, HandlersDone,
       newGRPCService, newGRPCGateway
<1>4. CASE Start
    BY <1>0, <1>4 DEF Start, NothingYet, PoolStages, DrainStages,
       GatewayStopped, WaitIsLongEnough, NobodyWaits, HandlersDone
<1>5. CASE Check
    BY <1>0, <1>5 DEF Check, NothingYet, PoolStages, DrainStages,
       GatewayStopped, WaitIsLongEnough, NobodyWaits, HandlersDone
<1>6. CASE Ready
    BY <1>0, <1>6 DEF Ready, NothingYet, PoolStages, DrainStages,
       GatewayStopped, WaitIsLongEnough, NobodyWaits, HandlersDone
<1>7. CASE SelectListener
    BY <1>0, <1>7 DEF SelectListener, NothingYet, PoolStages, DrainStages,
       GatewayStopped, WaitIsLongEnough, NobodyWaits, HandlersDone
<1>8. CASE SelectSignal
    BY <1>0, <1>8 DEF SelectSignal, NothingYet, PoolStages, DrainStages,
       GatewayStopped, WaitIsLongEnough, NobodyWaits, HandlersDone
<1>9. CASE Drained
    BY <1>0, <1>9 DEF Drained, NothingYet, PoolStages, DrainStages,
       GatewayStopped, WaitIsLongEnough, NobodyWaits, HandlersDone
<1>10. CASE StopGateway
    BY <1>0, <1>10 DEF StopGateway, NothingYet, PoolStages, DrainStages,
       GatewayStopped, WaitIsLongEnough, NobodyWaits, HandlersDone, HTTPStages
<1>11. CASE HTTPDrained
    BY <1>0, <1>11 DEF HTTPDrained, NothingYet, PoolStages, DrainStages,
       GatewayStopped, WaitIsLongEnough, NobodyWaits, HandlersDone, HTTPStages
<1>12. CASE CloseConn
    BY <1>0, <1>12 DEF CloseConn, NothingYet, PoolStages, DrainStages,
       GatewayStopped, WaitIsLongEnough, NobodyWaits, HandlersDone
<1>13. CASE StopGRPC
    BY <1>0, <1>13 DEF StopGRPC, NothingYet, PoolStages, DrainStages,
       GatewayStopped, WaitIsLongEnough, NobodyWaits, HandlersDone
<1>14. CASE GRPCDrained
    BY <1>0, <1>14 DEF GRPCDrained, NothingYet, PoolStages, DrainStages,
       GatewayStopped, WaitIsLongEnough, NobodyWaits, HandlersDone
<1>15. CASE StopPrometheus
    BY <1>0, <1>15 DEF StopPrometheus, NothingYet, PoolStages, DrainStages,
       GatewayStopped, WaitIsLongEnough, NobodyWaits, HandlersDone
<1>16. CASE ClosePool
    BY <1>0, <1>16 DEF ClosePool, NothingYet, PoolStages, DrainStages,
       GatewayStopped, WaitIsLongEnough, NobodyWaits, HandlersDone
<1> QED BY <1>1, <1>2, <1>3, <1>4, <1>5, <1>6, <1>7, <1>8, <1>9, <1>10, <1>11,
       <1>12, <1>13, <1>14, <1>15, <1>16 DEF Main

-----------------------------------------------------------------------------
(* Listeners, signals and time. *)

LEMMA ListenerStep ==
    ASSUME IInv, Listening \/ Signal
    PROVE  IInv'
<1> USE DEF IInv, stageVars
<1>0. ASSUME UNCHANGED callVars, UNCHANGED <<main, timer>>
      PROVE  /\ CallIsFunction' /\ HTTPStages' /\ GatewayCallsTranslated'
             /\ WaitIsLongEnough' /\ NobodyWaits' /\ HandlersDone'
    BY <1>0, MainLeavesCalls DEF WaitIsLongEnough, NobodyWaits, HandlersDone, callVars
<1>1. ASSUME NEW l \in HTTPListeners, HTTPServerEnds(l)
      PROVE  IInv'
    <2>1. TypeOK' /\ NothingYet' /\ PoolStages' /\ DrainStages' /\ GatewayStopped'
        BY <1>1 DEF HTTPServerEnds, Fail, TypeOK, NothingYet, EarlyStages, PoolStages,
           DrainStages, GatewayStopped, AfterGateway, Listeners, callVars
    <2> QED BY <1>0, <1>1, <2>1 DEF HTTPServerEnds
<1>2. CASE Listen
    <2>1. TypeOK' /\ NothingYet' /\ PoolStages' /\ DrainStages' /\ GatewayStopped'
        BY <1>2 DEF Listen, TypeOK, NothingYet, EarlyStages, PoolStages,
           DrainStages, GatewayStopped, AfterGateway, Listeners, HTTPListeners, callVars
    <2> QED BY <1>0, <1>2, <2>1 DEF Listen
<1>3. CASE GRPCListenFails
    <2>1. TypeOK' /\ NothingYet' /\ PoolStages' /\ DrainStages' /\ GatewayStopped'
        BY <1>3 DEF GRPCListenFails, Fail, TypeOK, NothingYet, EarlyStages, PoolStages,
           DrainStages, GatewayStopped, AfterGateway, Listeners, callVars
    <2> QED BY <1>0, <1>3, <2>1 DEF GRPCListenFails
<1>4. CASE GRPCServeFails
    <2>1. TypeOK' /\ NothingYet' /\ PoolStages' /\ DrainStages' /\ GatewayStopped'
        BY <1>4 DEF GRPCServeFails, Fail, TypeOK, NothingYet, EarlyStages, PoolStages,
           DrainStages, GatewayStopped, AfterGateway, Listeners, callVars
    <2> QED BY <1>0, <1>4, <2>1 DEF GRPCServeFails
<1>5. CASE Signal
    <2>1. CASE Die("killed")
        BY <2>1, Death
    <2>2. CASE /\ main \in {"check", "mark", "select"} /\ signalled' = TRUE
               /\ UNCHANGED <<main, settings, groupDone, reason, health, pool, conn,
                              listener, timer, callVars>>
        <3>1. TypeOK' /\ NothingYet' /\ PoolStages' /\ DrainStages' /\ GatewayStopped'
            BY <2>2 DEF TypeOK, NothingYet, EarlyStages, PoolStages, DrainStages,
               GatewayStopped, AfterGateway, callVars
        <3> QED BY <1>0, <2>2, <3>1
    <2> QED BY <1>5, <2>1, <2>2 DEF Signal
<1> QED BY <1>1, <1>2, <1>3, <1>4, <1>5 DEF Listening

\* Time makes nobody younger than main's wait.
LEMMA TickStep ==
    ASSUME IInv, Tick
    PROVE  IInv'
<1> USE Limits DEF IInv
<1>1. UNCHANGED <<main, stageVars, listener, http, request, rpc, call>>
    BY DEF Tick
<1>2. timer \in Nat /\ (timer' = timer \/ timer' = timer + 1)
    BY DEF TypeOK, Tick
<1>3. ASSUME NEW c \in Calls
      PROVE  /\ age[c] \in 0 .. Expired /\ age'[c] \in 0 .. Expired
             /\ c \in GatewayCalls =>
                   /\ http[c] \in {"connected", "active", "calling"} =>
                         age'[c] = age[c] + 1 \/ (age'[c] = age[c] /\ age[c] = Expired)
                   /\ http[c] = "idle" => age'[c] = age[c]
                   /\ http[c] = "connected" => age[c] < ReadHeaderTimeout
    <2>1. age[c] \in 0 .. Expired
        BY DEF TypeOK
    <2>2. age'[c] = IF c \in Unary /\ Ages(c) THEN age[c] + 1 ELSE age[c]
        BY DEF Tick
    <2>3. age'[c] \in 0 .. Expired
        BY <2>1, <2>2 DEF Ages
    <2>4. ASSUME c \in GatewayCalls, http[c] \in {"connected", "active", "calling"}
          PROVE  age'[c] = age[c] + 1 \/ (age'[c] = age[c] /\ age[c] = Expired)
        BY <2>1, <2>2, <2>4 DEF Ages, Unary
    <2>5. ASSUME c \in GatewayCalls, http[c] = "idle"
          PROVE  age'[c] = age[c]
        BY <2>2, <2>5 DEF Ages, HTTPStages, InProgress
    <2> QED BY <2>1, <2>3, <2>4, <2>5 DEF Tick
<1>4. TypeOK' /\ CallIsFunction'
    BY <1>1, <1>2, <1>3 DEF TypeOK, CallIsFunction, stageVars, Tick
<1>5. NothingYet' /\ PoolStages' /\ GatewayStopped' /\ HandlersDone'
      /\ GatewayCallsTranslated'
    BY <1>1 DEF NothingYet, PoolStages, GatewayStopped, HandlersDone,
       GatewayCallsTranslated, stageVars
<1>6. DrainStages'
    <2>1. settings["shutdown-grace-period"] \in Nat
        BY DEF TypeOK
    <2>2. timer' \in Nat /\ timer' >= timer
        BY <1>2
    <2> QED BY <1>1, <1>2, <2>1, <2>2 DEF DrainStages, stageVars
<1>7. HTTPStages'
    BY <1>1, <1>3 DEF HTTPStages, Calls, Unary
<1>8. WaitIsLongEnough' /\ NobodyWaits'
    <2> SUFFICES ASSUME NEW c \in GatewayCalls
        PROVE  /\ main = "httpDrain" =>
                     /\ http[c] = "connected" => age'[c] >= timer'
                     /\ http[c] \in {"active", "calling"} =>
                           age'[c] + ReadHeaderTimeout >= timer' \/ age'[c] >= WriteTimeout
               /\ main \in AfterGateway \ {"httpDrain"} =>
                     /\ http[c] = "connected" => WriteTimeout = 0
                     /\ http[c] \in {"active", "calling"} => age'[c] >= WriteTimeout
        BY <1>1 DEF WaitIsLongEnough, NobodyWaits
    <2>1. c \in Calls
        BY DEF Calls, Unary
    <2>2. /\ age[c] \in 0 .. Expired /\ age'[c] \in 0 .. Expired
          /\ http[c] \in {"connected", "active", "calling"} =>
                age'[c] = age[c] + 1 \/ (age'[c] = age[c] /\ age[c] = Expired)
          /\ http[c] = "connected" => age[c] < ReadHeaderTimeout
        BY <1>3, <2>1
    <2>3. CASE main = "httpDrain"
        <3>1. /\ http[c] = "connected" => age[c] >= timer
              /\ http[c] \in {"active", "calling"} =>
                    age[c] + ReadHeaderTimeout >= timer \/ age[c] >= WriteTimeout
            BY <2>3 DEF WaitIsLongEnough
        <3> QED BY <1>2, <2>2, <2>3, <3>1
    <2>4. CASE main \in AfterGateway \ {"httpDrain"}
        <3>1. /\ http[c] = "connected" => WriteTimeout = 0
              /\ http[c] \in {"active", "calling"} => age[c] >= WriteTimeout
            BY <2>4 DEF NobodyWaits
        <3> QED BY <2>2, <2>4, <3>1
    <2> QED BY <2>3, <2>4
<1> QED BY <1>4, <1>5, <1>6, <1>7, <1>8

-----------------------------------------------------------------------------
(* Calls. *)

\* Calls over HTTP.
LEMMA GatewayStep ==
    ASSUME IInv, NEW c \in GatewayCalls,
           \/ Accept(c) \/ Drop(c) \/ Forward(c) \/ Relay(c)
           \/ \E r \in Requests : Read(c, r)
    PROVE  IInv'
<1> USE Limits DEF IInv, Running
<1> c \in Calls /\ GatewayCalls \subseteq Calls
    BY DEF Calls, Unary
<1>1. ASSUME Accept(c)
      PROVE  IInv'
    <2> USE <1>1 DEF Accept
    <2>1. main \notin EarlyStages /\ UNCHANGED mainVars
        BY DEF NothingYet, EarlyStages, Listeners, HTTPListeners, InProgress
    <2>2. TypeOK' /\ CallIsFunction'
        BY <2>1 DEF TypeOK, CallIsFunction, InProgress, mainVars, stageVars
    <2>3. HTTPStages' /\ GatewayCallsTranslated'
        BY DEF TypeOK, HTTPStages, GatewayCallsTranslated, InProgress,
           CallIsFunction
    <2>4. WaitIsLongEnough' /\ NobodyWaits' /\ HandlersDone'
        BY <2>1 DEF TypeOK, WaitIsLongEnough, NobodyWaits, HandlersDone, GatewayStopped,
           HTTPStages, AfterGateway, GRPCStopped, Ended, InProgress, mainVars
    <2> QED BY <2>1, <2>2, <2>3, <2>4, CallsLeaveMain
<1>2. ASSUME NEW r \in Requests, Read(c, r)
      PROVE  IInv'
    <2> USE <1>2 DEF Read
    <2>1. main \notin EarlyStages /\ UNCHANGED mainVars
        BY DEF NothingYet, EarlyStages, Listeners, HTTPListeners, InProgress
    <2>2. TypeOK' /\ CallIsFunction'
        BY <2>1 DEF TypeOK, CallIsFunction, InProgress, mainVars, stageVars
    <2>3. HTTPStages' /\ GatewayCallsTranslated'
        BY DEF TypeOK, HTTPStages, GatewayCallsTranslated, InProgress,
           CallIsFunction
    <2>4. WaitIsLongEnough' /\ NobodyWaits' /\ HandlersDone'
        BY <2>1 DEF TypeOK, WaitIsLongEnough, NobodyWaits, HandlersDone, GatewayStopped,
           HTTPStages, AfterGateway, GRPCStopped, Ended, InProgress, mainVars
    <2> QED BY <2>1, <2>2, <2>3, <2>4, CallsLeaveMain
<1>3. ASSUME Drop(c)
      PROVE  IInv'
    <2> USE <1>3 DEF Drop, Expire
    <2>1. main \notin EarlyStages /\ UNCHANGED mainVars
        BY DEF NothingYet, EarlyStages, Listeners, HTTPListeners, InProgress
    <2>2. TypeOK' /\ CallIsFunction'
        BY <2>1 DEF TypeOK, CallIsFunction, InProgress, mainVars, stageVars
    <2>3. HTTPStages' /\ GatewayCallsTranslated'
        BY DEF TypeOK, HTTPStages, GatewayCallsTranslated, InProgress,
           CallIsFunction
    <2>4. WaitIsLongEnough' /\ NobodyWaits' /\ HandlersDone'
        BY <2>1 DEF TypeOK, WaitIsLongEnough, NobodyWaits, HandlersDone, GatewayStopped,
           HTTPStages, AfterGateway, GRPCStopped, Ended, InProgress, mainVars
    <2> QED BY <2>1, <2>2, <2>3, <2>4, CallsLeaveMain
<1>4. ASSUME Forward(c)
      PROVE  IInv'
    <2> USE <1>4 DEF Forward, Write, Invoke, GRPCUp, Expire
    <2>1. main \notin EarlyStages /\ UNCHANGED mainVars
        BY DEF NothingYet, EarlyStages, Listeners, HTTPListeners, InProgress
    <2>2. TypeOK' /\ CallIsFunction'
        BY <2>1 DEF TypeOK, CallIsFunction, InProgress, mainVars, stageVars
    <2>3. HTTPStages' /\ GatewayCallsTranslated'
        BY GatewayCallsHaveProject DEF TypeOK, HTTPStages, GatewayCallsTranslated,
           InProgress, CallIsFunction
    <2>4. WaitIsLongEnough' /\ NobodyWaits' /\ HandlersDone'
        BY <2>1 DEF TypeOK, WaitIsLongEnough, NobodyWaits, HandlersDone, GatewayStopped,
           HTTPStages, AfterGateway, GRPCStopped, Ended, InProgress, mainVars
    <2> QED BY <2>1, <2>2, <2>3, <2>4, CallsLeaveMain
<1>5. ASSUME Relay(c)
      PROVE  IInv'
    <2> USE <1>5 DEF Relay, Write, Expire
    <2>1. main \notin EarlyStages /\ UNCHANGED mainVars
        BY DEF NothingYet, EarlyStages, Listeners, HTTPListeners, InProgress
    <2>2. TypeOK' /\ CallIsFunction'
        BY <2>1 DEF TypeOK, CallIsFunction, InProgress, mainVars, stageVars
    <2>3. HTTPStages' /\ GatewayCallsTranslated'
        BY DEF TypeOK, HTTPStages, GatewayCallsTranslated, InProgress,
           CallIsFunction
    <2>4. WaitIsLongEnough' /\ NobodyWaits' /\ HandlersDone'
        BY <2>1 DEF TypeOK, WaitIsLongEnough, NobodyWaits, HandlersDone, GatewayStopped,
           HTTPStages, AfterGateway, GRPCStopped, Ended, InProgress, mainVars
    <2> QED BY <2>1, <2>2, <2>3, <2>4, CallsLeaveMain
<1> QED BY <1>1, <1>2, <1>3, <1>4, <1>5

\* Calls to the gRPC server itself.
LEMMA DirectStep ==
    ASSUME IInv, NEW c \in DirectCalls \cup WatchCalls,
           \/ c \in DirectCalls /\ \E m \in Messages : Send(c, m)
           \/ c \in WatchCalls /\ (Watch(c) \/ EndWatch(c))
    PROVE  IInv'
<1> USE Limits DEF IInv, Running
<1> c \in Calls /\ GatewayCalls \subseteq Calls
    BY DEF Calls, Unary
<1> c \notin GatewayCalls
    BY CallsAssumption DEF Unary
<1>1. ASSUME NEW m \in Messages, Send(c, m), c \in DirectCalls
      PROVE  IInv'
    <2> USE <1>1 DEF Send, Invoke, GRPCUp
    <2>1. main \notin EarlyStages /\ UNCHANGED mainVars
        BY DEF NothingYet, EarlyStages, Listeners, HTTPListeners, InProgress
    <2>2. TypeOK' /\ CallIsFunction'
        BY <2>1 DEF TypeOK, CallIsFunction, InProgress, mainVars, stageVars
    <2>3. HTTPStages' /\ GatewayCallsTranslated'
        BY DEF TypeOK, HTTPStages, GatewayCallsTranslated, InProgress,
           CallIsFunction
    <2>4. WaitIsLongEnough' /\ NobodyWaits' /\ HandlersDone'
        BY <2>1 DEF TypeOK, WaitIsLongEnough, NobodyWaits, HandlersDone, GatewayStopped,
           HTTPStages, AfterGateway, GRPCStopped, Ended, InProgress, mainVars
    <2> QED BY <2>1, <2>2, <2>3, <2>4, CallsLeaveMain
<1>2. ASSUME Watch(c), c \in WatchCalls
      PROVE  IInv'
    <2> USE <1>2 DEF Watch, GRPCUp
    <2>1. main \notin EarlyStages /\ UNCHANGED mainVars
        BY DEF NothingYet, EarlyStages, Listeners, HTTPListeners, InProgress
    <2>2. TypeOK' /\ CallIsFunction'
        BY <2>1 DEF TypeOK, CallIsFunction, InProgress, mainVars, stageVars
    <2>3. HTTPStages' /\ GatewayCallsTranslated'
        BY DEF TypeOK, HTTPStages, GatewayCallsTranslated, InProgress,
           CallIsFunction
    <2>4. WaitIsLongEnough' /\ NobodyWaits' /\ HandlersDone'
        BY <2>1 DEF TypeOK, WaitIsLongEnough, NobodyWaits, HandlersDone, GatewayStopped,
           HTTPStages, AfterGateway, GRPCStopped, Ended, InProgress, mainVars
    <2> QED BY <2>1, <2>2, <2>3, <2>4, CallsLeaveMain
<1>3. ASSUME EndWatch(c), c \in WatchCalls
      PROVE  IInv'
    <2> USE <1>3 DEF EndWatch
    <2>1. main \notin EarlyStages /\ UNCHANGED mainVars
        BY DEF NothingYet, EarlyStages, Listeners, HTTPListeners, InProgress
    <2>2. TypeOK' /\ CallIsFunction'
        BY <2>1 DEF TypeOK, CallIsFunction, InProgress, mainVars, stageVars
    <2>3. HTTPStages' /\ GatewayCallsTranslated'
        BY DEF TypeOK, HTTPStages, GatewayCallsTranslated, InProgress,
           CallIsFunction
    <2>4. WaitIsLongEnough' /\ NobodyWaits' /\ HandlersDone'
        BY <2>1 DEF TypeOK, WaitIsLongEnough, NobodyWaits, HandlersDone, GatewayStopped,
           HTTPStages, AfterGateway, GRPCStopped, Ended, InProgress, mainVars
    <2> QED BY <2>1, <2>2, <2>3, <2>4, CallsLeaveMain
<1> QED BY <1>1, <1>2, <1>3

\* Handlers.
LEMMA HandlerStep ==
    ASSUME IInv, NEW c \in Unary,
           Leave(c) \/ BeginTx(c) \/ Finish(c) \/ Panic(c) \/ Return(c)
    PROVE  IInv'
<1> USE Limits DEF IInv, Running
<1> c \in Calls /\ GatewayCalls \subseteq Calls
    BY DEF Calls, Unary
<1>1. ASSUME Leave(c)
      PROVE  IInv'
    <2> USE <1>1 DEF Leave, Expire
    <2>1. main \notin EarlyStages /\ UNCHANGED mainVars
        BY DEF NothingYet, EarlyStages, Listeners, HTTPListeners, InProgress
    <2>2. TypeOK' /\ CallIsFunction'
        BY <2>1 DEF TypeOK, CallIsFunction, InProgress, mainVars, stageVars
    <2>3. HTTPStages' /\ GatewayCallsTranslated'
        BY DEF TypeOK, HTTPStages, GatewayCallsTranslated, InProgress,
           CallIsFunction
    <2>4. WaitIsLongEnough' /\ NobodyWaits' /\ HandlersDone'
        BY <2>1 DEF TypeOK, WaitIsLongEnough, NobodyWaits, HandlersDone, GatewayStopped,
           HTTPStages, AfterGateway, GRPCStopped, Ended, InProgress, mainVars
    <2> QED BY <2>1, <2>2, <2>3, <2>4, CallsLeaveMain
<1>2. ASSUME BeginTx(c)
      PROVE  IInv'
    <2> USE <1>2 DEF BeginTx
    <2>1. main \notin EarlyStages /\ UNCHANGED mainVars
        BY DEF NothingYet, EarlyStages, Listeners, HTTPListeners, InProgress
    <2>2. TypeOK' /\ CallIsFunction'
        BY <2>1 DEF TypeOK, CallIsFunction, InProgress, mainVars, stageVars
    <2>3. HTTPStages' /\ GatewayCallsTranslated'
        BY DEF TypeOK, HTTPStages, GatewayCallsTranslated, InProgress,
           CallIsFunction
    <2>4. WaitIsLongEnough' /\ NobodyWaits' /\ HandlersDone'
        BY <2>1 DEF TypeOK, WaitIsLongEnough, NobodyWaits, HandlersDone, GatewayStopped,
           HTTPStages, AfterGateway, GRPCStopped, Ended, InProgress, mainVars
    <2> QED BY <2>1, <2>2, <2>3, <2>4, CallsLeaveMain
<1>3. ASSUME Finish(c)
      PROVE  IInv'
    <2> USE <1>3 DEF Finish
    <2>1. main \notin EarlyStages /\ UNCHANGED mainVars
        BY DEF NothingYet, EarlyStages, Listeners, HTTPListeners, InProgress
    <2>2. TypeOK' /\ CallIsFunction'
        BY <2>1 DEF TypeOK, CallIsFunction, InProgress, mainVars, stageVars
    <2>3. HTTPStages' /\ GatewayCallsTranslated'
        BY DEF TypeOK, HTTPStages, GatewayCallsTranslated, InProgress,
           CallIsFunction
    <2>4. WaitIsLongEnough' /\ NobodyWaits' /\ HandlersDone'
        BY <2>1 DEF TypeOK, WaitIsLongEnough, NobodyWaits, HandlersDone, GatewayStopped,
           HTTPStages, AfterGateway, GRPCStopped, Ended, InProgress, mainVars
    <2> QED BY <2>1, <2>2, <2>3, <2>4, CallsLeaveMain
<1>4. ASSUME Return(c)
      PROVE  IInv'
    <2> USE <1>4 DEF Return, Expire
    <2>1. main \notin EarlyStages /\ UNCHANGED mainVars
        BY DEF NothingYet, EarlyStages, Listeners, HTTPListeners, InProgress
    <2>2. TypeOK' /\ CallIsFunction'
        BY <2>1 DEF TypeOK, CallIsFunction, InProgress, mainVars, stageVars
    <2>3. HTTPStages' /\ GatewayCallsTranslated'
        BY DEF TypeOK, HTTPStages, GatewayCallsTranslated, InProgress,
           CallIsFunction
    <2>4. WaitIsLongEnough' /\ NobodyWaits' /\ HandlersDone'
        BY <2>1 DEF TypeOK, WaitIsLongEnough, NobodyWaits, HandlersDone, GatewayStopped,
           HTTPStages, AfterGateway, GRPCStopped, Ended, InProgress, mainVars
    <2> QED BY <2>1, <2>2, <2>3, <2>4, CallsLeaveMain
<1>5. ASSUME Panic(c)
      PROVE  IInv'
    BY <1>5, Death DEF Panic
<1> QED BY <1>1, <1>2, <1>3, <1>4, <1>5

-----------------------------------------------------------------------------
(* Which steps do it. *)

LEMMA ConnCloses ==
    ASSUME IInv, [Next]_vars, conn = "open", conn' = "closed"
    PROVE  main = "closeConn"
BY DEF Next, vars, mainVars, stageVars, callVars, Main, Listening,
   Configure, NewClient, Dispatch, newGRPCService, newGRPCGateway, Start, Check, Ready,
   SelectListener, SelectSignal, Drained, StopGateway, HTTPDrained, CloseConn,
   StopGRPC, GRPCDrained, StopPrometheus, ClosePool,
   HTTPServerEnds, Listen, GRPCListenFails, GRPCServeFails, Signal, Die, Tick,
   Accept, Drop, Forward, Relay, Read, Send, Watch, EndWatch, Leave, BeginTx,
   Finish, Panic, Return

\* Main crashes in NewClient, before there is a pool; otherwise a handler does.
LEMMA OnlyPanics ==
    ASSUME IInv, [Next]_vars, Running, main' = "crashed", pool # "none"
    PROVE  \E c \in Unary : Panics(c)
BY DEF IInv, PoolStages, Running, Ended, Next, vars, mainVars, stageVars, callVars, Main,
   Listening, Configure, NewClient, Dispatch, Start, Check, Ready,
   SelectListener, SelectSignal, Drained, StopGateway, HTTPDrained, CloseConn,
   StopGRPC, GRPCDrained, StopPrometheus, ClosePool,
   HTTPServerEnds, Listen, GRPCListenFails, GRPCServeFails, Signal, Die, Tick,
   Accept, Drop, Forward, Relay, Read, Send, Watch, EndWatch, Leave, BeginTx,
   Finish, Panic, Return

\* Only Forward starts a handler for a call of the gateway.
LEMMA GatewayBegins ==
    ASSUME IInv, [Next]_vars, NEW c \in GatewayCalls, rpc[c] = "none", rpc'[c] = "begun"
    PROVE  /\ http[c] = "active" /\ Translate(request[c]) # NULL
           /\ call'[c] = Translate(request[c])
<1>1. c \in Calls /\ c \notin DirectCalls /\ c \notin WatchCalls
    BY CallsAssumption DEF Calls, Unary
<1>2. rpc' # rpc
    OBVIOUS
<1>3. ~ UNCHANGED vars /\ ~ Main /\ ~ Listening /\ ~ Signal /\ ~ Tick
    BY <1>1, <1>2 DEF vars, mainVars, stageVars, callVars, Main, Listening,
       Configure, NewClient, Dispatch, Start, Check, Ready,
       SelectListener, SelectSignal, Drained, StopGateway, HTTPDrained, CloseConn,
       StopGRPC, GRPCDrained, StopPrometheus, ClosePool,
       HTTPServerEnds, Listen, GRPCListenFails, GRPCServeFails, Signal, Die, Tick
<1>4. PICK d \in GatewayCalls : Forward(d)
    BY <1>1, <1>2, <1>3 DEF IInv, TypeOK, Next, Accept, Drop, Relay, Read, Write, Send,
       Invoke, Watch, EndWatch, Leave, BeginTx, Finish, Return, Panic, Die, Unary, Calls
<1>5. /\ http[d] = "active" /\ Translate(request[d]) # NULL
      /\ rpc' = [rpc EXCEPT ![d] = "begun"]
      /\ call' = [call EXCEPT ![d] = Translate(request[d])]
    BY <1>2, <1>4 DEF Forward, Invoke
<1>6. d = c
    BY <1>1, <1>5 DEF IInv, TypeOK
<1> QED BY <1>1, <1>5, <1>6 DEF IInv, CallIsFunction

-----------------------------------------------------------------------------
(* The server. *)

LEMMA InitIInv == Init => IInv
<1> SUFFICES ASSUME Init PROVE IInv
    OBVIOUS
<1> USE Limits DEF Init
<1>1. TypeOK
    <2>1. age \in [Calls -> 0 .. Expired]
        OBVIOUS
    <2>2. Defaults["shutdown-grace-period"] = 0 /\ DOMAIN Defaults = Flags
        BY DEF Defaults, Flags
    <2>3. /\ listener \in [Listeners -> {"off", "starting", "listening", "ended"}]
          /\ http \in [Calls -> {"idle", "connected", "active", "calling", "done"}]
          /\ request \in [Calls -> Requests \cup {NULL}]
          /\ rpc \in [Calls -> InProgress \cup {"none", "done"}]
        OBVIOUS
    <2>4. main \in MainStages
        BY DEF MainStages
    <2>5. settings["shutdown-grace-period"] = 0 /\ DOMAIN settings = Flags
        BY <2>2
    <2> HIDE DEF Init
    <2>6. /\ groupDone \in BOOLEAN /\ signalled \in BOOLEAN
          /\ reason \in {"none", "listener", "signal"}
          /\ health \in {"NOT_SERVING", "SERVING"}
          /\ pool \in {"none", "open", "closed"} /\ conn \in {"none", "open", "closed"}
          /\ timer \in Nat
        BY DEF Init
    <2> QED BY <2>1, <2>3, <2>4, <2>5, <2>6 DEF TypeOK
<1>2. CallIsFunction
    BY DEF CallIsFunction
<1>3. HTTPStages /\ GatewayCallsTranslated
    BY DEF HTTPStages, GatewayCallsTranslated, Calls, Unary
<1>4. NothingYet /\ PoolStages /\ DrainStages /\ GatewayStopped
      /\ WaitIsLongEnough /\ NobodyWaits /\ HandlersDone
    BY DEF NothingYet, PoolStages, DrainStages, GatewayStopped, AfterGateway,
       WaitIsLongEnough, NobodyWaits, HandlersDone
<1> QED BY <1>1, <1>2, <1>3, <1>4 DEF IInv

LEMMA StutterIInv == IInv /\ UNCHANGED vars => IInv'
BY DEF vars, mainVars, stageVars, callVars, IInv, TypeOK, CallIsFunction, NothingYet,
   PoolStages, DrainStages, GatewayStopped, HTTPStages, WaitIsLongEnough, NobodyWaits,
   HandlersDone, GatewayCallsTranslated

LEMMA NextIInv == IInv /\ [Next]_vars => IInv'
<1> SUFFICES ASSUME IInv, [Next]_vars PROVE IInv'
    OBVIOUS
<1>1. CASE Main
    BY <1>1, MainStep
<1>2. CASE Listening \/ Signal
    BY <1>2, ListenerStep
<1>3. CASE Tick
    BY <1>3, TickStep
<1>4. ASSUME NEW c \in GatewayCalls,
             \/ Accept(c) \/ Drop(c) \/ Forward(c) \/ Relay(c)
             \/ \E r \in Requests : Read(c, r)
      PROVE  IInv'
    BY <1>4, GatewayStep
<1>5. ASSUME NEW c \in DirectCalls, NEW m \in Messages, Send(c, m)
      PROVE  IInv'
    BY <1>5, DirectStep
<1>6. ASSUME NEW c \in WatchCalls, Watch(c) \/ EndWatch(c)
      PROVE  IInv'
    BY <1>6, DirectStep
<1>7. ASSUME NEW c \in Unary,
             Leave(c) \/ BeginTx(c) \/ Finish(c) \/ Panic(c) \/ Return(c)
      PROVE  IInv'
    BY <1>7, HandlerStep
<1>8. CASE UNCHANGED vars
    BY <1>8, StutterIInv
<1> QED BY <1>1, <1>2, <1>3, <1>4, <1>5, <1>6, <1>7, <1>8 DEF Next

\* In every state of the server, whatever its calls, requests, settings and
\* limits, the parts of the inductive invariant hold.
THEOREM ServerInv == Spec => []IInv
BY InitIInv, NextIInv, PTL DEF Spec

\* The states of main, of the listeners and of the calls are the known ones,
\* and nobody waits for longer than the limits.
THEOREM ServerTypeOK == Spec => []TypeOK
<1>1. IInv => TypeOK
    BY DEF IInv
<1> QED BY <1>1, ServerInv, PTL

\* The pool is closed by main.go's deferred Close, after the service's deferred
\* functions: then no handler is at work, and no request waits that could still
\* have been answered.
THEOREM ServerLeavesNothingBehind == Spec => []LeavesNothingBehind
<1>1. ASSUME IInv PROVE LeavesNothingBehind
    <2>1. CASE main = "failed"
        BY <1>1, <2>1 DEF IInv, NothingYet, EarlyStages, Calls, Unary, InProgress,
           LeavesNothingBehind
    <2>2. CASE main = "exited"
        BY <1>1, <2>2 DEF IInv, HandlersDone, NobodyWaits, AfterGateway,
           LeavesNothingBehind
    <2> QED BY <1>1, <2>1, <2>2 DEF IInv, PoolStages, LeavesNothingBehind
<1> QED BY <1>1, ServerInv, PTL

\* grpcgateway.go shuts the HTTP server down and then closes its connection: only
\* over requests whose answers WriteTimeout keeps from their clients.
THEOREM ServerCutsNoAnswer == Spec => CutsNoAnswer
<1>1. ASSUME IInv, [Next]_vars
      PROVE  conn = "open" /\ conn' = "closed" =>
             \A c \in GatewayCalls :
                http[c] \in {"active", "calling"} => age[c] >= WriteTimeout
    <2> SUFFICES ASSUME conn = "open", conn' = "closed"
                 PROVE  \A c \in GatewayCalls :
                            http[c] \in {"active", "calling"} => age[c] >= WriteTimeout
        OBVIOUS
    <2>1. main = "closeConn"
        BY <1>1, ConnCloses
    <2> QED BY <1>1, <2>1 DEF IInv, NobodyWaits, AfterGateway
<1> QED BY <1>1, ServerInv, PTL DEF Spec, CutsNoAnswer

\* After a signal the gateway is shut down when the service has not been ready
\* for all of shutdown-grace-period.
THEOREM ServerDrainsBeforeItStops == Spec => DrainsBeforeItStops
<1>1. ASSUME IInv, [Next]_vars, main = "stopGateway", main' = "httpDrain", reason = "signal"
      PROVE  health = "NOT_SERVING" /\ timer >= settings["shutdown-grace-period"]
    BY <1>1 DEF IInv, DrainStages
<1> QED BY <1>1, ServerInv, PTL DEF Spec, DrainsBeforeItStops

\* A call of the gateway that reaches its handler asks for what came over HTTP.
THEOREM ServerForwardsWhatWasAsked == Spec => ForwardsWhatWasAsked
<1>1. ASSUME IInv, [Next]_vars
      PROVE  \A c \in GatewayCalls :
                rpc[c] = "none" /\ rpc'[c] = "begun" => Keeps(request[c], call'[c])
    <2> SUFFICES ASSUME NEW c \in GatewayCalls, rpc[c] = "none", rpc'[c] = "begun"
                 PROVE  Keeps(request[c], call'[c])
        OBVIOUS
    <2>1. /\ http[c] = "active" /\ Translate(request[c]) # NULL
          /\ call'[c] = Translate(request[c])
        BY <1>1, GatewayBegins
    <2>2. request[c] \in Requests
        BY <1>1, <2>1 DEF IInv, HTTPStages
    <2>3. WellFormed(request[c])
        BY <2>2, RequestsAssumption
    <2> QED BY <2>1, <2>3, TranslationKeeps
<1> QED BY <1>1, ServerInv, PTL DEF Spec, ForwardsWhatWasAsked

\* A process that has its database panics only while a message without its project
\* is handled that a client sent to the gRPC server itself: nothing that comes over
\* HTTP makes it panic.
THEOREM ServerCrashExplained == Spec => CrashExplained
<1>1. ASSUME IInv, [Next]_vars
      PROVE  Running /\ main' = "crashed" =>
                \/ pool = "none"
                \/ \E c \in DirectCalls : rpc[c] = "begun" /\ MissesProject(call[c])
    <2> SUFFICES ASSUME Running, main' = "crashed", pool # "none"
                 PROVE  \E c \in DirectCalls :
                           rpc[c] = "begun" /\ MissesProject(call[c])
        OBVIOUS
    <2>1. PICK c \in Unary : Panics(c)
        BY <1>1, OnlyPanics
    <2>2. rpc[c] = "begun" /\ MissesProject(call[c])
        BY <1>1, <2>1 DEF Panics
    <2> QED BY <1>1, <2>2 DEF IInv, GatewayCallsTranslated, Unary
<1> QED BY <1>1, ServerInv, PTL DEF Spec, CrashExplained

=============================================================================
