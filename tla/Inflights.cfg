CONSTANTS
    Cap = 2
    Caps = {0, 1, 2, 3, 4}
    Values = {1, 2, 3}
SPECIFICATION Spec
INVARIANTS
    RingNoPanic
PROPERTIES
    ImplementsQueue
