SPECIFICATION SSHSpec
CONSTANTS
    Callers = {a, b}
    Addresses = {x, y}
    MaxOpens = 4
INVARIANTS ReachesOwnChannel NoChannelLeftOpen SchemesWhole
CHECK_DEADLOCK FALSE
