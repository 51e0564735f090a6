SPECIFICATION Spec
CONSTANTS
    Count = 2
    Upstream = {0}
    MaxCalls = 6
    Worlds <- EachWorld
INVARIANTS EveryOperationApplied WorkKept ReplayedInOrder
PROPERTIES BranchMovesOnce ElsewhereKept
CHECK_DEADLOCK FALSE
