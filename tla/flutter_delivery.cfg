\* Retries, eviction, deduplication, dispose() and restart of the Flutter client.
SPECIFICATION FairSpec
CONSTANTS
    Sigs = {s1, s2}
    BatchSize = 2
    MaxQueue = 3
    DedupeWindow = 1
    PruneAbove = 1
    Enabled = TRUE
    ClockSteps <- MCClockSteps
    MaxNow = 2
    MaxEvents = 4
INVARIANTS InOrder ForgetsOnlyIfSetBack
PROPERTIES EvictsOldest ImplementsMailbox EveryEventSettles
