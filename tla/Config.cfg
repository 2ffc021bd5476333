SPECIFICATION Spec
CONSTANTS
    Texts <- MCTexts
    SafeTexts <- MCSafeTexts
    Broken <- MCBroken
    Size <- MCSize
    MaxSegmentBytes = 5
    Lists <- MCLists
    Polls <- MCPolls
    HalfWord = 128
    Hour = 16
    MaxPollHours = 7
INVARIANTS
    IntervalIsSane
    RefsAreCanonical
CHECK_DEADLOCK FALSE
