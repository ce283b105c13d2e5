CONSTANTS
    ID = 1
    Proposals <- MCProposals
    MaxUncommitted = 2
    SaveLightCommit = FALSE
    MaxIndex = 3
    MaxReady = 4
    MaxReads = 1
    MaxCrashes = 1
SPECIFICATION Spec
INVARIANT RestartWithoutLightCommit
CHECK_DEADLOCK FALSE
