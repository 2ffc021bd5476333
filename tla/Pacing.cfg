SPECIFICATION Spec
CONSTANTS
    r1 = r1
    r2 = r2
    r3 = r3
    Requests <- MCRequests
    Gaps = {2, 3}
    MinGap = 2
    MaxTime = 4
SYMMETRY MCSymmetry
INVARIANTS
    SlotsSpaced
    SentOutsideGaps
    NoNeedlessWait
CHECK_DEADLOCK FALSE
