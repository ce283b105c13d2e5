CONSTANTS
    Ids = {1, 2, 3, 4}
    InitialVoters = {1, 2, 3}
    MaxChanges = 3
SPECIFICATION Spec
INVARIANTS
    ProgressIsConfiguration
    CheckNeverRefuses
PROPERTIES
    QuorumsOverlap
CHECK_DEADLOCK FALSE
