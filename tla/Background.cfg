CONSTANTS
    Configs <- AllConfigs
    DefaultTimeout = 4
    HasPrometheus = TRUE
    PromptSelect = FALSE
SPECIFICATION FairSpec
INVARIANTS TypeOK NoBurst TimedOutRunsAgain
PROPERTIES Stops KeepsRunning
CHECK_DEADLOCK FALSE
