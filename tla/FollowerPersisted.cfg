CONSTANTS
    Heartbeats = FALSE
    ReadySnapshot = FALSE
    Bounds <- Long
SPECIFICATION Spec
INVARIANTS
    DeliversOnlyPersisted
CHECK_DEADLOCK FALSE
