CONSTANTS
    Server = {s1, s2, s3}
    None = None
    Scenarios <- Mended
SYMMETRY Peers
SPECIFICATION Spec
INVARIANTS
    NodesSurvive
    ElectionSafety
    LeaderCompleteness
    CommittedWasChosen
PROPERTIES
    LeaseStandsFirm
CHECK_DEADLOCK FALSE
