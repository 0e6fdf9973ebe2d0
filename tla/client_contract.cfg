\* What callers see without page hides: order, eviction, backing off and
\* deduplication, with three signatures and a moving clock.
SPECIFICATION ContractSpec
CONSTANTS
    Sigs = {s1, s2, s3}
    EventBytes = {2}
    MaxBatch = 2
    MaxQueue = 3
    MaxRequestBytes = 8
    UnloadChunkBytes = 6
    EmptyBodyBytes = 1
    DedupeWindow = 2
    DedupeMaxEntries = 2
    Enabled = TRUE
    Transport = "fetch"
    ClockSteps = {1}
    MaxNow = 2
    MaxEvents = 5
    MaxPageHides = 0
INVARIANTS InOrder ForgetsOnlyUnderFlood
PROPERTIES EvictsOldest NoEagerFlushAfterFailure
