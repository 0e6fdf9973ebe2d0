\* An address with and without a token, the limiter, the deduplication, the
\* monitor and a log directory that comes and goes.  The run stops where the
\* bounded clock, log and calls are used up, so deadlock is not checked.
SPECIFICATION GatewaySpec
CONSTANTS
    TargetOrder <- MCTargetOrder
    Triggers = {"otel-collector"}
    DirConfigured = TRUE
    DirMayChange = TRUE
    MaxChanges = 1
    MaxRestarts = 0
    Clients = {"ip1"}
    Limit = 1
    Window = 1
    MaxTrackedKeys = 2
    MaxNow = 2
    MaxLog = 2
    DedupeWindow = 2
    MaxCalls = 3
    Apps = {}
    FallbackService = "frontend"
    MaxAppServices = 1
    Endpoint = TRUE
    MaxRecords = 3
    Users = {"user"}
    Bodies = {"crash", "slow"}
    MaxBatchEvents = 2
INVARIANTS DuplicateHasOriginal EventsLogExact
CHECK_DEADLOCK FALSE
