CONSTANTS
    Heartbeats = TRUE
    ReadySnapshot = FALSE
    Bounds <- MCBounds
SPECIFICATION Spec
INVARIANTS
    FollowerNoPanic
    CommittedIsChosen
    LogMatching
    HintKeepsAgreement
    AckedIsLeaders
PROPERTIES
    ReportedIsWritten
CHECK_DEADLOCK FALSE
