\* One client whose interval, eager, requested and unload flushes race.
SPECIFICATION FairSpec
CONSTANTS
    Sigs = {sig}
    EventBytes = {2, 4}
    MaxBatch = 2
    MaxQueue = 2
    MaxRequestBytes = 8
    UnloadChunkBytes = 6
    EmptyBodyBytes = 1
    DedupeWindow = 0
    DedupeMaxEntries = 2
    Enabled = TRUE
    Transport = "fetch"
    ClockSteps = {1}
    MaxNow = 1
    MaxEvents = 3
    MaxPageHides = 2
INVARIANTS EachEventInOnePlace WithinLimits
PROPERTIES ImplementsMailbox EveryEventSettles
