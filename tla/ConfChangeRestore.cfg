CONSTANTS
    Ids = {1, 2, 3}
    InitialVoters = {1, 2, 3}
    MaxChanges = 1
SPECIFICATION Spec
INVARIANTS
    RestoreEnactsConfState
CHECK_DEADLOCK FALSE
