SPECIFICATION LimiterSpec
CONSTANTS
    Clients = {"10.0.0.1", "10.0.0.2", "10.0.0.3"}
    Limit = 2
    Window = 2
    MaxTrackedKeys = 1
    MaxNow = 4
    MaxLog = 4
INVARIANTS
    NeverOverLimit
    OutgrownOnlyByLiveClients
PROPERTY
    ImplementsSlidingWindow
CHECK_DEADLOCK FALSE
