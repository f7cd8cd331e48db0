------------------------------ MODULE Background ------------------------------
(***************************************************************************)
(* BackgroundService.Run: the task is run, then again after a sleep or at  *)
(* the ticks of a ticker, until a signal, the cancellation of the parent   *)
(* context or the end of the prometheus server.  Time is measured in       *)
(* countdowns, so the model needs no bound on it.  A timer that is due     *)
(* goes off with the clock, as the runtime's timers do.  The goroutine may *)
(* be as late as it likes in noticing, or, with PromptSelect, it takes a   *)
(* case that is ready before the clock moves on: what goes wrong then is   *)
(* not the scheduler's doing.                                              *)
(***************************************************************************)
EXTENDS Integers

CONSTANTS
    Configs,            \* BackgroundServiceConfigs; a duration of 0 is unset
    DefaultTimeout,     \* 10 * time.Minute
    HasPrometheus,      \* config.PrometheusServer # nil
    PromptSelect        \* the goroutine at select is not held up

Config == [Sleep : Nat, Interval : Nat, Timeout : Nat]

ASSUME BackgroundAssumption ==
    /\ Configs \subseteq Config
    /\ DefaultTimeout \in Nat \ {0}
    /\ HasPrometheus \in BOOLEAN
    /\ PromptSelect \in BOOLEAN

VARIABLES
    pc,             \* "start", "running" (the task), "select" or "returned"
    mode,           \* the loop: over time.After ("sleep") or a ticker ("interval")
    config,         \* s.config, whose Timeout Run fills in
    left,           \* time to the deadline of the task's context
    sleepLeft,      \* time to the channel of time.After
    tickIn,         \* time to the next tick
    ticked,         \* a tick is in ticker.C, which holds one
    cancelled,      \* signalCtx is done
    promDone,       \* promServerCtx is done
    caught,         \* signals are caught: stopSignalCtx was not called
    sinceStart,     \* since the task was started, and since the time before;
    sincePrevious,  \* both stop at config.Interval
    lateRuns        \* runs of the task begun on a done context; stops at 2

timers == <<left, sleepLeft, tickIn, ticked>>
history == <<sinceStart, sincePrevious, lateRuns>>
vars == <<pc, mode, config, timers, cancelled, promDone, caught, history>>

OrDefault(value, default) == IF value = 0 THEN default ELSE value

Init ==
    /\ pc = "start"
    /\ mode = "sleep"
    /\ config \in Configs
    /\ left = 0 /\ sleepLeft = 0 /\ tickIn = 0 /\ ticked = FALSE
    /\ cancelled = FALSE /\ promDone = FALSE
    /\ caught = TRUE
    /\ sinceStart = config.Interval /\ sincePrevious = config.Interval
    /\ lateRuns = 0

\* The head of the loop: a context with a deadline, and the task is called.
CallTask(limit) ==
    /\ pc' = "running"
    /\ left' = limit
    /\ sinceStart' = 0
    /\ sincePrevious' = sinceStart
    /\ lateRuns' = IF cancelled /\ lateRuns < 2 THEN lateRuns + 1 ELSE lateRuns

BeginSleepLoop ==
    /\ pc = "start"
    /\ config.Sleep # 0
    /\ config' = [config EXCEPT !.Timeout = OrDefault(@, DefaultTimeout)]
    /\ CallTask(config'.Timeout)
    /\ UNCHANGED <<mode, sleepLeft, tickIn, ticked, cancelled, promDone, caught>>

\* The second if of Run: entered from the top, or when the first loop is done.
BeginIntervalLoop ==
    /\ config.Interval # 0
    /\ mode' = "interval"
    /\ config' = [config EXCEPT !.Timeout = OrDefault(@, config.Interval)]
    /\ tickIn' = config.Interval
    /\ ticked' = FALSE
    /\ CallTask(config'.Timeout)
    /\ UNCHANGED <<sleepLeft, cancelled, promDone, caught>>

RunInterval ==
    /\ pc = "start"
    /\ config.Sleep = 0
    /\ BeginIntervalLoop

\* "background service must either have an interval or a sleep duration"
RunMisconfigured ==
    /\ pc = "start"
    /\ config.Sleep = 0 /\ config.Interval = 0
    /\ pc' = "returned"
    /\ UNCHANGED <<mode, config, timers, cancelled, promDone, caught, history>>

ContextDone == left = 0 \/ cancelled

\* Mutant: the pause after the task is the interval of the other loop.
TaskReturnsWrongPause ==
    /\ pc = "running"
    /\ pc' = "select"
    /\ sleepLeft' = IF mode = "sleep" THEN config.Interval ELSE sleepLeft
    /\ UNCHANGED <<mode, config, left, tickIn, ticked, cancelled, promDone,
                   caught, history>>

\* Mutant: next() makes a new ticker each time, as it does a timer.
TaskReturnsNewTicker ==
    /\ pc = "running"
    /\ pc' = "select"
    /\ sleepLeft' = IF mode = "sleep" THEN config.Sleep ELSE sleepLeft
    /\ tickIn' = IF mode = "interval" THEN config.Interval ELSE tickIn
    /\ ticked' = FALSE
    /\ UNCHANGED <<mode, config, left, cancelled, promDone, caught, history>>

\* The task returns, in time or not; next() makes a new timer for a sleep.
TaskReturns ==
    /\ pc = "running"
    /\ pc' = "select"
    /\ sleepLeft' = IF mode = "sleep" THEN config.Sleep ELSE sleepLeft
    /\ UNCHANGED <<mode, config, left, tickIn, ticked, cancelled, promDone,
                   caught, history>>

TimerReady == IF mode = "sleep" THEN sleepLeft = 0 ELSE ticked

\* Mutant: the tick that starts the task stays in the channel.
SelectTimerKeepsTick ==
    /\ pc = "select"
    /\ TimerReady
    /\ CallTask(config.Timeout)
    /\ UNCHANGED <<mode, config, sleepLeft, tickIn, ticked, cancelled, promDone,
                   caught>>

\* Mutant: the context and its deadline are made once, before the loop.
SelectTimerOldContext ==
    /\ pc = "select"
    /\ TimerReady
    /\ ticked' = FALSE
    /\ CallTask(left)
    /\ UNCHANGED <<mode, config, sleepLeft, tickIn, cancelled, promDone, caught>>

\* case <-next()
SelectTimer ==
    /\ pc = "select"
    /\ TimerReady
    /\ ticked' = FALSE
    /\ CallTask(config.Timeout)
    /\ UNCHANGED <<mode, config, sleepLeft, tickIn, cancelled, promDone, caught>>

\* Mutant: the end of the prometheus server is not one of the cases.
SelectCancelled ==
    /\ pc = "select"
    /\ cancelled
    /\ IF mode = "sleep" /\ config.Interval # 0
       THEN BeginIntervalLoop
       ELSE /\ pc' = "returned"
            /\ UNCHANGED <<mode, config, timers, cancelled, promDone, caught,
                           history>>

\* case <-signalCtx.Done() and case <-promServerCtx.Done(): the loop returns an
\* error.  After the sleep loop, Run goes on to the interval loop if there is
\* one.  The error is returned before stopSignalCtx would be called.
SelectDone ==
    /\ pc = "select"
    /\ cancelled \/ promDone
    /\ IF mode = "sleep" /\ config.Interval # 0
       THEN BeginIntervalLoop
       ELSE /\ pc' = "returned"
            /\ UNCHANGED <<mode, config, timers, cancelled, promDone, caught,
                           history>>

-----------------------------------------------------------------------------
(* The surroundings. *)

\* SIGINT, SIGTERM or the parent context.
Cancel ==
    /\ ~ cancelled
    /\ cancelled' = TRUE
    /\ UNCHANGED <<pc, mode, config, timers, promDone, caught, history>>

PrometheusStops ==
    /\ HasPrometheus /\ ~ promDone
    /\ promDone' = TRUE
    /\ UNCHANGED <<pc, mode, config, timers, cancelled, caught, history>>

CountDown(n) == IF n = 0 THEN 0 ELSE n - 1
CountUp(n) == IF n < config.Interval THEN n + 1 ELSE n

\* A case of the select can proceed.
SelectReady == pc = "select" /\ (TimerReady \/ cancelled \/ promDone)

\* One unit of time.  A tick that finds the last one in the channel is dropped.
Elapse ==
    /\ pc \in {"running", "select"}
    /\ PromptSelect => ~ SelectReady
    /\ left' = CountDown(left)
    /\ sleepLeft' = CountDown(sleepLeft)
    /\ IF mode = "interval" /\ tickIn = 1
       THEN tickIn' = config.Interval /\ ticked' = TRUE
       ELSE tickIn' = CountDown(tickIn) /\ UNCHANGED ticked
    /\ sinceStart' = CountUp(sinceStart)
    /\ sincePrevious' = CountUp(sincePrevious)
    /\ UNCHANGED <<pc, mode, config, cancelled, promDone, caught, lateRuns>>

Service ==
    \/ BeginSleepLoop \/ RunInterval \/ RunMisconfigured
    \/ TaskReturns \/ SelectTimer \/ SelectDone

Next == Service \/ Cancel \/ PrometheusStops \/ Elapse

Spec == Init /\ [][Next]_vars

(***************************************************************************)
(* Time passes; the goroutine runs; a task returns once its context is     *)
(* done; and select, which chooses at random among the cases that are      *)
(* ready, does not pass over one that is ready time and again.             *)
(***************************************************************************)
FairSpec ==
    /\ Spec
    /\ WF_vars(Elapse)
    /\ WF_vars(BeginSleepLoop \/ RunInterval \/ RunMisconfigured)
    /\ WF_vars(TaskReturns /\ ContextDone)
    /\ WF_vars(SelectTimer \/ SelectDone)
    /\ SF_vars(SelectDone)

-----------------------------------------------------------------------------
(* Correctness. *)

TypeOK ==
    /\ pc \in {"start", "running", "select", "returned"}
    /\ mode \in {"sleep", "interval"}
    /\ config \in Config
    /\ left \in Nat
    /\ sleepLeft \in 0 .. config.Sleep
    /\ tickIn \in 0 .. config.Interval
    /\ ticked \in BOOLEAN /\ cancelled \in BOOLEAN /\ promDone \in BOOLEAN
    /\ caught \in BOOLEAN
    /\ sinceStart \in 0 .. config.Interval
    /\ sincePrevious \in 0 .. config.Interval
    /\ lateRuns \in 0 .. 2

Looping == pc \in {"running", "select"}
Ticking == Looping /\ mode = "interval"

\* A late task is caught up with by one run only, although the ticker may have
\* ticked many times: whenever a tick is there to start the task again, the
\* start before the last one is at least an interval ago, so three runs never
\* begin within one interval.
NoBurst == Ticking /\ ticked => sincePrevious = config.Interval

\* "If not complete in that time, it is cancelled and logged, and we re-run it":
\* unless the timeout is below the interval, the next tick is there by the time
\* the deadline of the task has passed, and the task is re-run without a wait.
TimedOutRunsAgain ==
    Ticking /\ config.Timeout >= config.Interval /\ left = 0 => ticked

\* A signal, the parent context or the end of the prometheus server ends Run.
Stops == cancelled \/ promDone ~> pc = "returned"

\* Until then the task is run again and again.
KeepsRunning ==
    \/ []<>(pc = "running" /\ left = config.Timeout)
    \/ <>(cancelled \/ promDone \/ pc = "returned")

-----------------------------------------------------------------------------
(* What the repository says of the program, and the program does not do. *)

\* background_test.go: "If the parent context is cancelled the task should only
\* be called once".  A task that lasts until the next tick is called again.
CalledOnceWhenCancelled == lateRuns <= 1

\* "reset signal handling so signals are no longer caught", when Run stops.
SignalHandlingReset == pc = "returned" => ~ caught
=============================================================================
