CONSTANTS
    Server = {s1, s2, s3}
    None = None
    Scenarios <- AsWritten
SYMMETRY Peers
SPECIFICATION Spec
INVARIANTS
    NodesSurvive
CHECK_DEADLOCK FALSE
