SPECIFICATION Spec
CONSTANTS
    Threads = {a, b}
    PidMax = 3
    Grace = 2
    MaxStarts = 2
    Worlds <- EachWorld
INVARIANT NoChildLeft
PROPERTIES CloseReturns OwnChildStruck
CHECK_DEADLOCK FALSE
