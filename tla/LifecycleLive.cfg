SPECIFICATION FairSpec
CONSTANTS
    Scheduled = TRUE
    MaxRequests = 1
PROPERTIES
    ShutdownCompletes
    CycleEnds
