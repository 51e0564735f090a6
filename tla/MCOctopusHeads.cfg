SPECIFICATION HeadsSpec
CONSTANTS
    NCommits = 4
    MaxParents = 2
    MaxHeads = 3
    MaxMoved = 3
INVARIANTS HeadsReduced MergedSoFar HistoryKept
CHECK_DEADLOCK FALSE
