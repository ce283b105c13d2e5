CONSTANTS
    ID = 1
    Proposals <- MCProposals
    MaxUncommitted = 2
    SaveLightCommit = TRUE
    MaxIndex = 2
    MaxReady = 10
    MaxReads = 0
    MaxCrashes = 1
SPECIFICATION FairSpec
PROPERTIES
    DurableIsApplied
    LeaderAgain
CHECK_DEADLOCK FALSE
