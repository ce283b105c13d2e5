CONSTANTS
    Heartbeats = TRUE
    ReadySnapshot = FALSE
    Bounds <- Late
SPECIFICATION Spec
INVARIANTS
    TypeOK
    FollowerNoPanic
    AckedIsLeaders
    AppliedInvariant
PROPERTIES
    ReportedIsWritten
CHECK_DEADLOCK FALSE
