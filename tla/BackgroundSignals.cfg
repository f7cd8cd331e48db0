CONSTANTS
    Configs <- IntervalOnly
    DefaultTimeout = 4
    HasPrometheus = TRUE
    PromptSelect = TRUE
SPECIFICATION Spec
INVARIANT SignalHandlingReset
CHECK_DEADLOCK FALSE
