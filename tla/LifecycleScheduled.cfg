SPECIFICATION Spec
CONSTANTS
    Scheduled = TRUE
    MaxRequests = 2
INVARIANTS
    TypeOK
    DrainedStaysUnready
    MarkerMatchesGauges
    UnboundIsUnhealthy
    CleanExitLeavesNoMarker
PROPERTIES
    FrozenAfterDrain
    ReadyAfterData
    GatePromise
