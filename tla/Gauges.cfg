SPECIFICATION Spec
CONSTANTS
    hub = hub
    ghcr = ghcr
    Gone = Gone
    NoImage = NoImage
    Keys <- MCKeys
    HubKeys <- MCHubKeys
    Counts = {1, 2}
    Sources = {"dockerhub"}
INVARIANTS
    TypeOK
    VerdictFollowsData
PROPERTIES
    BoardPromise
