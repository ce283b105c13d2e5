CONSTANTS
    Repairs = {{"update_state", "find_conflict", "is_continuous"}}
    Batches = {FALSE}
    OldLog <- MCOldLog
    PeerLogs <- MCPeerLogs
    Window = 2
    Batch = 1
    MaxIndex = 4
    MaxOut = 1
    MaxNet = 3
    MaxFaults = 1
SPECIFICATION Spec
INVARIANTS
    MatchedIsReplicated
CHECK_DEADLOCK FALSE
