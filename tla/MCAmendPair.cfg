SPECIFICATION Spec
CONSTANTS
    Procs = {p1, p2}
    Branches = {main, topic}
    Trees = {t1, t2}
    MaxCommits = 3
    MaxSteps = 2
SYMMETRY Symmetry
INVARIANTS TypeOK LockDiscipline StampedByMover
PROPERTIES ImplementsAtomicCommits ReflogOnlyGrows
CONSTRAINT FewTogether
