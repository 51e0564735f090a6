SPECIFICATION Spec
CONSTANTS
    Paths = {p, q}
    Merges <- AllMerges
    MaxFaults = 1
    MaxEdits = 1
INVARIANTS FailureChangesNothing Concludable MergeCheckedOut LocalChangesSurvive SparseAgain
CHECK_DEADLOCK FALSE
SYMMETRY Symmetry
