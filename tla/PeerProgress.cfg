CONSTANTS
    Repairs = {{"update_state", "find_conflict", "is_continuous", "restore"}}
    Batches = {FALSE, TRUE}
    OldLog <- MCOldLog
    PeerLogs <- MCPeerLogs
    Window = 2
    Batch = 1
    MaxIndex = 4
    MaxOut = 1
    MaxNet = 2
    MaxFaults = 1
SPECIFICATION Spec
INVARIANTS
    BothSurvive
    MatchedIsReplicated
    SentInOrder
CHECK_DEADLOCK FALSE
