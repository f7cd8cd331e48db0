--------------------------- MODULE BackgroundProofs ---------------------------
(***************************************************************************)
(* The safety properties of the background service, for every set of       *)
(* configurations and every default timeout.                               *)
(*                                                                         *)
(* The inductive invariant ties the two countdowns of an interval loop to  *)
(* the times since the last two starts of the task.  With I the interval   *)
(* and phase == I - tickIn the time since the last tick (or the start of   *)
(* the ticker): while the channel is empty the task was last started       *)
(* within the phase and the time before at least a phase ago, and its      *)
(* deadline is not before the next tick; once a tick is in the channel,    *)
(* the last start is at least a phase ago and the one before it at least   *)
(* an interval.                                                            *)
(***************************************************************************)
EXTENDS Background, TLAPS

EmptyChannel ==
    /\ sinceStart <= config.Interval - tickIn
    /\ sincePrevious >= config.Interval - tickIn
    /\ config.Timeout >= config.Interval => left >= tickIn

FullChannel ==
    /\ sinceStart >= config.Interval - tickIn
    /\ sincePrevious = config.Interval

TickerInv ==
    Ticking =>
        /\ tickIn >= 1
        /\ IF ticked THEN FullChannel ELSE EmptyChannel

ModeInv == pc = "start" => mode = "sleep"

\* TypeOK in two parts: the flags and the rest.
FlagsOK ==
    /\ ticked \in BOOLEAN /\ cancelled \in BOOLEAN
    /\ promDone \in BOOLEAN /\ caught \in BOOLEAN

CountdownsOK ==
    /\ pc \in {"start", "running", "select", "returned"}
    /\ mode \in {"sleep", "interval"}
    /\ config \in Config
    /\ left \in Nat
    /\ sleepLeft \in 0 .. config.Sleep
    /\ tickIn \in 0 .. config.Interval
    /\ sinceStart \in 0 .. config.Interval
    /\ sincePrevious \in 0 .. config.Interval
    /\ lateRuns \in 0 .. 2

IInv == TypeOK /\ ModeInv /\ TickerInv

-----------------------------------------------------------------------------

\* The service starts in a state the invariant allows.
LEMMA InitIInv == Init => IInv
<1> SUFFICES ASSUME Init PROVE IInv
    OBVIOUS
<1>1. config \in Config
    BY BackgroundAssumption DEF Init
<1>2. config.Sleep \in Nat /\ config.Interval \in Nat
    BY <1>1 DEF Config
<1>3. FlagsOK
    BY DEF Init, FlagsOK
<1>4. CountdownsOK
    BY <1>1, <1>2 DEF Init, CountdownsOK
<1>5. ModeInv /\ TickerInv
    BY DEF Init, ModeInv, TickerInv, Ticking, Looping
<1> QED BY <1>3, <1>4, <1>5 DEF IInv, TypeOK, FlagsOK, CountdownsOK

\* Filling in a missing timeout keeps the rest of the configuration.
LEMMA TimeoutFilledIn ==
    ASSUME config \in Config, NEW default \in Nat,
           config' = [config EXCEPT !.Timeout = OrDefault(@, default)]
    PROVE  /\ config' \in Config
           /\ config'.Sleep = config.Sleep
           /\ config'.Interval = config.Interval
           /\ config'.Timeout =
                IF config.Timeout = 0 THEN default ELSE config.Timeout
BY DEF Config, OrDefault

\* Entering the interval loop begins with an empty channel and a whole interval
\* to go.
LEMMA IntervalLoopKeepsIInv ==
    ASSUME TypeOK, BeginIntervalLoop
    PROVE  IInv'
<1>1. /\ config' \in Config
      /\ config'.Sleep = config.Sleep
      /\ config'.Interval = config.Interval
      /\ config'.Timeout =
            IF config.Timeout = 0 THEN config.Interval ELSE config.Timeout
    BY TimeoutFilledIn DEF TypeOK, Config, BeginIntervalLoop
<1>2. config.Interval \in Nat \ {0} /\ config'.Timeout \in Nat
    BY <1>1 DEF TypeOK, Config, BeginIntervalLoop
<1>3. TypeOK'
    <2>1. config.Sleep \in Nat
        BY DEF TypeOK, Config
    <2>2. lateRuns' \in 0 .. 2
        BY DEF TypeOK, BeginIntervalLoop, CallTask
    <2>3. FlagsOK'
        BY DEF TypeOK, FlagsOK, BeginIntervalLoop
    <2>4. CountdownsOK'
        BY <1>1, <1>2, <2>1, <2>2 DEF TypeOK, CountdownsOK, BeginIntervalLoop,
           CallTask
    <2> QED BY <2>3, <2>4 DEF TypeOK, FlagsOK, CountdownsOK
<1>4. ModeInv' /\ TickerInv'
    BY <1>1, <1>2 DEF TypeOK, BeginIntervalLoop, CallTask, ModeInv, TickerInv,
       Ticking, Looping, EmptyChannel
<1> QED BY <1>3, <1>4 DEF IInv

\* Every step keeps the invariant.
LEMMA StepKeepsIInv == IInv /\ [Next]_vars => IInv'
<1> SUFFICES ASSUME IInv, [Next]_vars PROVE IInv'
    OBVIOUS
<1> USE DEF IInv, TypeOK, ModeInv, TickerInv, Ticking, Looping
<1>0. /\ config.Sleep \in Nat /\ config.Interval \in Nat
      /\ config.Timeout \in Nat
    BY DEF Config
<1>1. CASE BeginSleepLoop
    <2>1. /\ config' \in Config
          /\ config'.Sleep = config.Sleep
          /\ config'.Interval = config.Interval
        BY <1>1, TimeoutFilledIn, BackgroundAssumption DEF BeginSleepLoop
    <2>2. config'.Timeout \in Nat
        BY <2>1 DEF Config
    <2>3. lateRuns' \in 0 .. 2
        BY <1>1 DEF BeginSleepLoop, CallTask
    <2>4. FlagsOK'
        BY <1>1 DEF BeginSleepLoop, FlagsOK
    <2>5. CountdownsOK'
        BY <1>0, <1>1, <2>1, <2>2, <2>3 DEF BeginSleepLoop, CallTask, CountdownsOK
    <2>6. ModeInv' /\ TickerInv'
        BY <1>1 DEF BeginSleepLoop, CallTask
    <2> QED BY <2>4, <2>5, <2>6 DEF FlagsOK, CountdownsOK
<1>2. CASE RunInterval
    BY <1>2, IntervalLoopKeepsIInv DEF RunInterval
<1>3. CASE RunMisconfigured
    BY <1>3 DEF RunMisconfigured, timers, history
<1>4. CASE TaskReturns
    BY <1>0, <1>4 DEF TaskReturns, history, EmptyChannel, FullChannel
<1>5. CASE SelectTimer
    <2>1. lateRuns' \in 0 .. 2
        BY <1>5 DEF SelectTimer, CallTask
    <2>2. FlagsOK'
        BY <1>5 DEF SelectTimer, FlagsOK
    <2>3. CountdownsOK'
        BY <1>0, <1>5, <2>1 DEF SelectTimer, CallTask, CountdownsOK
    <2>4. ModeInv' /\ TickerInv'
        BY <1>0, <1>5 DEF SelectTimer, CallTask, TimerReady, EmptyChannel,
           FullChannel
    <2> QED BY <2>2, <2>3, <2>4 DEF FlagsOK, CountdownsOK
<1>6. CASE SelectDone
    <2>1. CASE mode = "sleep" /\ config.Interval # 0
        BY <1>6, <2>1, IntervalLoopKeepsIInv DEF SelectDone
    <2>2. CASE ~ (mode = "sleep" /\ config.Interval # 0)
        BY <1>6, <2>2 DEF SelectDone, timers, history
    <2> QED BY <2>1, <2>2
<1>7. CASE Cancel
    BY <1>7 DEF Cancel, timers, history, EmptyChannel, FullChannel
<1>8. CASE PrometheusStops
    BY <1>8 DEF PrometheusStops, timers, history, EmptyChannel, FullChannel
<1>9. CASE Elapse
    <2>1. left' \in Nat /\ sleepLeft' \in 0 .. config.Sleep
        BY <1>0, <1>9 DEF Elapse, CountDown
    <2>2. /\ sinceStart' \in 0 .. config.Interval
          /\ sincePrevious' \in 0 .. config.Interval
        BY <1>0, <1>9 DEF Elapse, CountUp
    <2>3. tickIn' \in 0 .. config.Interval
        BY <1>0, <1>9 DEF Elapse, CountDown
    <2>4. FlagsOK'
        BY <1>9 DEF Elapse, FlagsOK
    <2>5. CountdownsOK'
        BY <1>9, <2>1, <2>2, <2>3 DEF Elapse, CountdownsOK
    <2>6. TypeOK' /\ ModeInv'
        BY <1>9, <2>4, <2>5 DEF Elapse, FlagsOK, CountdownsOK
    <2>7. CASE mode = "interval" /\ tickIn = 1
        BY <1>0, <1>9, <2>6, <2>7 DEF Elapse, CountDown, CountUp, EmptyChannel,
           FullChannel
    <2>8. CASE ~ (mode = "interval" /\ tickIn = 1)
        BY <1>0, <1>9, <2>6, <2>8 DEF Elapse, CountDown, CountUp, EmptyChannel,
           FullChannel
    <2> QED BY <2>7, <2>8
<1>10. CASE UNCHANGED vars
    BY <1>10 DEF vars, timers, history, EmptyChannel, FullChannel
<1> QED BY <1>1, <1>2, <1>3, <1>4, <1>5, <1>6, <1>7, <1>8, <1>9, <1>10
        DEF Next, Service

-----------------------------------------------------------------------------
(* The properties. *)

\* Whatever the configuration, every countdown stays within its limit.
THEOREM TypeCorrect == Spec => []TypeOK
<1>1. IInv => TypeOK
    BY DEF IInv
<1> QED BY InitIInv, StepKeepsIInv, <1>1, PTL DEF Spec

\* However late the task returns, missed ticks are made up for by one run: a
\* third run never begins less than an interval after the first.
THEOREM MissedTicksAreDropped == Spec => []NoBurst
<1>1. IInv => NoBurst
    BY DEF IInv, TickerInv, NoBurst, FullChannel
<1> QED BY InitIInv, StepKeepsIInv, <1>1, PTL DEF Spec

\* With a timeout of an interval or more, a task that reaches its deadline
\* finds the next tick waiting.
THEOREM TimedOutIsRerun == Spec => []TimedOutRunsAgain
<1>1. IInv => TimedOutRunsAgain
    BY DEF IInv, TypeOK, TickerInv, TimedOutRunsAgain, EmptyChannel, Ticking
<1> QED BY InitIInv, StepKeepsIInv, <1>1, PTL DEF Spec
=============================================================================
