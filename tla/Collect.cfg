SPECIFICATION Spec
CONSTANTS
    plain = plain
    nested = nested
    listed = listed
    o = o
    p = p
    Active <- MCActive
    Names <- MCNames
    OwnerOf <- MCOwnerOf
    Rank <- MCRank
    Nested <- MCNested
    Explicit <- MCExplicit
    Wildcard <- MCWildcard
    DetailCap = 2
INVARIANTS
    TypeOK
    PresenceIsTrue
    CompleteMissesNothing
    DetailFollowsRank
    CapIsExact
    VerdictsAgree
    CountersMatchVerdicts
    ErrorsAreReal
