\* Three components, two of them triggers, that fail and recover while probes
\* are in flight, a log directory that comes and goes, and one restart.
SPECIFICATION FairStackSpec
CONSTANTS
    TargetOrder <- MCTargetOrder
    Triggers = {"otel-collector", "loki"}
    DirConfigured = TRUE
    DirMayChange = TRUE
    MaxChanges = 3
    MaxRestarts = 1
INVARIANT HealthLogExplainsState
PROPERTIES OutageDetected RecoveryDetected
