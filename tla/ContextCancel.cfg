CONSTANTS
    Task = {t1, t2}
    MaxHandles = 3
    MaxContexts = 3
SPECIFICATION Spec
PROPERTIES
    CancelEndsDone
CHECK_DEADLOCK FALSE
