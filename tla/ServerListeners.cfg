CONSTANTS
    NULL = NULL
    Malformed = Malformed
    GatewayCalls = {}
    DirectCalls = {}
    WatchCalls = {}
    Requests <- SomeRequests
    Messages <- SomeMessages
    CommandLines <- SomeCommandLines
    Environments <- SomeEnvironments
    ReadHeaderTimeout = 1
    WriteTimeout = 1
    GatewayGracePeriod = 2
    HandlerTimeout = 2
    RPCTimeout = 2
    ListenerFailures = 1
SPECIFICATION FairSpec
PROPERTY WaitsForAnyListener
CHECK_DEADLOCK FALSE
