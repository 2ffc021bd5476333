------------------------------ MODULE Contract ------------------------------
(***************************************************************************)
(* What a source's Collect may return: registry.Collection                 *)
(* (src/internal/registry/registry.go) as the two readers fill it in and   *)
(* as the accounting reads it.  A collection says, for every name, how one *)
(* cycle came to know it, and the counts follow from that.                 *)
(***************************************************************************)
EXTENDS Integers, FiniteSets

DockerHub == "dockerhub"
GHCR == "ghcr"
Registries == {DockerHub, GHCR}

CONSTANTS
    Names,      \* the owner/repo names in play
    OwnerOf,    \* [Names -> owner]
    Nested,     \* the names with a slash in the repo part, GHCR only
    Explicit,   \* [Registries -> SUBSET Names], the owner/repo refs
    Wildcard    \* [Registries -> SUBSET owners], the owner/* refs

Owners == {OwnerOf[n] : n \in Names}

ASSUME ContractAssumption ==
    /\ IsFiniteSet(Names)
    /\ Nested \subseteq Names
    /\ Explicit \in [Registries -> SUBSET Names]
    /\ Explicit[DockerHub] \intersect Nested = {}
    /\ Wildcard \in [Registries -> SUBSET Owners]

\* The names a registry can hold: a nested one only on GHCR.
Population(s) == IF s = DockerHub THEN Names \ Nested ELSE Names

-----------------------------------------------------------------------------
\* How a source came to know a name: a "row" of a listing, "read" by a fetch
\* of its own, definitively "absent", known of but "unread", or not at all.
Ends == {"row", "read", "absent", "unread", "none"}

CollectionType ==
    [end: [Names -> Ends], listed: SUBSET Owners, listingFailed: BOOLEAN]

NoCollection ==
    [end |-> [n \in Names |-> "none"], listed |-> {}, listingFailed |-> FALSE]

\* The names that ended in one of these ways.
Ending(c, ends) == {n \in Names : c.end[n] \in ends}

Entries(c)    == Ending(c, {"row", "read"})
Absent(c)     == Ending(c, {"absent"})
Unread(c)     == Ending(c, {"unread"})
\* The per-image fetches, counted: a row needed none.
Fetched(c)    == Cardinality(Ending(c, {"read"}))
Attempted(c)  == Cardinality(Ending(c, {"read", "absent", "unread"}))
Definitive(c) == Cardinality(Ending(c, {"read", "absent"}))

\* Covered by an owner/* ref, or by any ref.
Wild(s, n) == OwnerOf[n] \in Wildcard[s]
Covered(s, n) == n \in Explicit[s] \/ Wild(s, n)

\* What is true of an answer even when shutdown cut it short.  pop is the
\* registry's population.
Truthful(s, pop, c) ==
    /\ c \in CollectionType
    /\ c.listed \subseteq Wildcard[s]
    /\ \A n \in Names :
        /\ c.end[n] = "row" => s = DockerHub /\ n \in pop /\ Wild(s, n)
        /\ c.end[n] = "read" => n \in pop /\ Covered(s, n)
        /\ c.end[n] = "absent" => n \notin pop /\ n \in Explicit[s]
        /\ c.end[n] = "unread" => n \in Explicit[s] \/ (Wild(s, n) /\ n \in pop)
    \* an owner listing that wholly failed is not whole and gave no row
    /\ c.listingFailed =>
         \E o \in Wildcard[s] \ c.listed :
            \A n \in Names \ Explicit[s] : OwnerOf[n] = o => c.end[n] = "none"

\* An uncancelled Collect has decided or tried every explicit ref, and has
\* every name of a listing it read whole: Docker Hub as a row, GHCR by a scrape.
Whole(s, pop, c) ==
    /\ Truthful(s, pop, c)
    /\ \A n \in Explicit[s] : c.end[n] # "none"
    /\ \A n \in pop : OwnerOf[n] \in c.listed =>
         c.end[n] \in IF s = DockerHub THEN {"row"} ELSE {"read", "unread"}
=============================================================================
