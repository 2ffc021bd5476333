SPECIFICATION Spec
CONSTANTS
    Intervals <- MCIntervals
    RequestTimeout = 5
    RetryAfterCap = 4
    BackoffCap = 1
    MaxGap = 2
    Readers = 2
INVARIANTS
    TypeOK
    SilenceBounded
    LiveIsFresh
    StuckIsNoticed
