CONSTANTS
    Server = {s1, s2, s3}
    None = None
    Read = {r1, r2}
    Scenarios <- MCScenarios
SYMMETRY Same
SPECIFICATION Spec
INVARIANTS
    ReadsAreCurrent
    QueueIsPending
CHECK_DEADLOCK FALSE
