CONSTANTS
    Configs <- IntervalOnly
    DefaultTimeout = 4
    HasPrometheus = TRUE
    PromptSelect = TRUE
SPECIFICATION Spec
INVARIANT CalledOnceWhenCancelled
CHECK_DEADLOCK FALSE
