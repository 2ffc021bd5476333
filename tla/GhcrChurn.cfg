SPECIFICATION Spec
CONSTANTS
    Names <- MCNames
    OwnerOf <- MCOwnerOf
    Nested = {}
    Explicit <- MCExplicit
    Wildcard <- MCWildcard
    WildRefs <- MCWildRefs
    Unsafe <- MCUnsafe
    Kinds <- MCBothExist
    Listings <- MCThreePackages
    Volatile = {"a"}
    PageSize = 2
    MaxListingPages = 3
    MaxChurn = 1
INVARIANTS
    AbsentIsDefinitive
