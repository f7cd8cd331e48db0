CONSTANTS
    NULL = NULL
    Malformed = Malformed
    GatewayCalls = {g}
    DirectCalls = {d}
    WatchCalls = {w}
    Requests <- SomeRequests
    Messages <- SomeMessages
    CommandLines <- SomeCommandLines
    Environments <- SomeEnvironments
    ReadHeaderTimeout = 1
    WriteTimeout = 1
    GatewayGracePeriod = 2
    HandlerTimeout = 2
    RPCTimeout = 2
    ListenerFailures = 1
SPECIFICATION FairSpec
INVARIANTS TypeOK LeavesNothingBehind
PROPERTIES ForwardsWhatWasAsked CrashExplained DrainsBeforeItStops CutsNoAnswer StopsWhenTold
CHECK_DEADLOCK FALSE
