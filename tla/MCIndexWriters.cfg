SPECIFICATION Spec
CONSTANTS
    Handles = {a, b}
    Nobody = Nobody
    Paths = {p, q}
    Contents = {x, y}
    Absent = Absent
    Bits = {skip}
    MaxCalls = 3
    MaxOthers = 1
INVARIANT NoFailedMark
PROPERTY FlagsChangeTheirBit
SYMMETRY Symmetry
CHECK_DEADLOCK FALSE
