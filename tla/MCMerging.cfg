SPECIFICATION Spec
CONSTANTS
    Proc <- Two
    Targets = {3, 4, 5}
    Worlds <- AloneOrPair
    MaxCommits = 8
INVARIANTS NothingReverted MergeRecorded ConcludedOnce
PROPERTY TipGrows
CHECK_DEADLOCK FALSE
