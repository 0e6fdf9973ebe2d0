\* One caller behind two proxies, bodies at and over the limit, an outage of the
\* collector, SIGTERM, a crash, a restart.
SPECIFICATION LifecycleSpec
CONSTANTS
    TargetOrder <- MCTargetOrder
    Triggers = {"otel-collector"}
    Collector = "otel-collector"
    DirConfigured = TRUE
    DirMayChange = FALSE
    MaxChanges = 2
    MaxRestarts = 1
    Clients = {"client"}
    Proxy = "proxy"
    Hops = 2
    Forgeries <- MCForgeries
    BodyLimit = 2
    Sizes = {2, 3}
    Apps = {web, shop}
    FallbackService = frontend
    MaxAppServices = 1
    Endpoint = TRUE
    MaxRecords = 2
SYMMETRY AppSymmetry
INVARIANTS RefusedIffTooLarge ChargedToItsSender NoSilentLoss StopsClean
    ProvidersBounded Attributed
CHECK_DEADLOCK FALSE
