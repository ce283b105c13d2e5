CONSTANTS
    Heartbeats = TRUE
    ReadySnapshot = FALSE
    Bounds <- Long
SPECIFICATION Spec
INVARIANTS
    HeartbeatInLog
CHECK_DEADLOCK FALSE
