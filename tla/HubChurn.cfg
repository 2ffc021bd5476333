SPECIFICATION Spec
CONSTANTS
    Names <- MCNames
    OwnerOf <- MCOwnerOf
    Nested = {}
    Explicit <- MCExplicit
    Wildcard <- MCWildcard
    WildRefs <- MCWildRefs
    ExplicitRefs <- MCExplicitRefs
    Unsafe <- MCUnsafe
    Listings <- MCTwoFullPages
    Volatile = {"a", "b", "c"}
    PageSize = 2
    MaxOwnerPages = 2
    MaxChurn = 1
INVARIANTS
    AbsentIsDefinitive
