SPECIFICATION Spec
CONSTANTS
    Names <- MCNames
    OwnerOf <- MCOwnerOf
    Nested = {}
    Explicit <- MCExplicit
    Wildcard <- MCWildcard
    WildRefs <- MCWildRefs
    Unsafe <- MCUnsafe
    Kinds <- MCKinds
    Listings <- MCListings
    Volatile = {"a"}
    PageSize = 2
    MaxListingPages = 3
    MaxChurn = 2
INVARIANTS
    TypeOK
    HonoursContract
    ListingFailedIsAnOutage
    LossBoundedByRemovals
