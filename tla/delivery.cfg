\* Two events of one signature, two identities, a gateway that remembers one
\* signature, another sender, timeouts, lost answers, and one restart.
SPECIFICATION DeliverySpec
CONSTANTS
    Sigs = {"a"}
    BatchSize = 2
    MaxQueue = 2
    PruneAbove = 5
    Enabled = TRUE
    MaxEvents = 2
    PhoneWindow = 0
    Identities = {address, user}
    Others <- MCOthers
    Signatures <- MCSignatures
    DedupeWindow = 1
    MaxTrackedKeys = 1
    MaxNow = 1
    MaxCalls = 3
    MaxLate = 1
    MaxRestarts = 1
SYMMETRY IdentitySymmetry
INVARIANTS StoredTwiceOnlyIf SentIsStored MetInOrder SlipsThroughOnlyUnderFlood
CHECK_DEADLOCK FALSE
