CONSTANTS
    Server = {s1, s2, s3}
    None = None
    Scenarios <- Cut
SYMMETRY Peers
SPECIFICATION Spec
INVARIANTS
    LeaderCompleteness
CHECK_DEADLOCK FALSE
