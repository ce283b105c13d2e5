CONSTANTS
    Task = {t1, t2}
    MaxHandles = 3
    MaxContexts = 3
SPECIFICATION Spec
PROPERTIES
    EndOfRootEndsAll
    EndWakesUnlessShared
CHECK_DEADLOCK FALSE
