\* An outage, a restart, and a recovery in between.
SPECIFICATION StackSpec
CONSTANTS
    TargetOrder <- TwoTargets
    Triggers = {"loki"}
    DirConfigured = TRUE
    DirMayChange = FALSE
    MaxChanges = 2
    MaxRestarts = 1
INVARIANTS RecoveryRecorded
