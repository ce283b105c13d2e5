CONSTANTS
    Server = {s1, s2, s3}
    None = None
    Read = {r1, r2}
    Scenarios <- Leases
SYMMETRY Same
SPECIFICATION Spec
INVARIANTS
    LeaseReadsAreCurrent
CHECK_DEADLOCK FALSE
