SPECIFICATION Spec
CONSTANTS
    Threads = {a, b}
    Repos = {r, s}
    Default = Default
    NoMutex = NoMutex
    Worlds <- EachWorld
    MaxBoxes = 4
    MaxCalls = 5
INVARIANTS OneInside PayloadsKept
PROPERTY PolicyInForce
SYMMETRY Symmetry
CHECK_DEADLOCK FALSE
