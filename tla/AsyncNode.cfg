CONSTANTS
    Caller = {c1}
    Repairs <- Least
    Kinds = {"message", "entry"}
    MaxMade = 2
SPECIFICATION Spec
INVARIANTS
    OutputsOnce
PROPERTIES
    CallsReturn
CHECK_DEADLOCK FALSE
