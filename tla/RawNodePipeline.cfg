CONSTANTS
    ID = 1
    Proposals <- MCProposals
    MaxUncommitted = 2
    SaveLightCommit = TRUE
    MaxIndex = 3
    MaxReady = 5
    MaxReads = 1
    MaxCrashes = 1
SPECIFICATION Spec
INVARIANTS
    TypeOK
    NoPanic
    InOrder
    HandedOutIsDurable
    NoLostHardState
    PersistedIsDurable
    OneUnappliedConf
    UncommittedAccounting
PROPERTIES
    HardStateMonotone
    ImplementsDurableLog
CHECK_DEADLOCK FALSE
