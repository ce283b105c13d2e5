CONSTANTS
    Heartbeats = FALSE
    ReadySnapshot = TRUE
    Bounds <- Long
SPECIFICATION Spec
INVARIANTS
    SnapshotIsSaved
CHECK_DEADLOCK FALSE
