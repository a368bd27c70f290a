SPECIFICATION Spec
CONSTANTS
    t1 = t1
    t2 = t2
    Tabs = {t1, t2}
    Inputs = {a, b}
    None = None
    Grace = 1
    MaxTime = 2
    MaxSends <- MCSends
    MaxToken = 3
INVARIANTS
    OneHolder
    RefusedNotDone
PROPERTY KeepsPromise
SYMMETRY MCSymmetry
CHECK_DEADLOCK FALSE
