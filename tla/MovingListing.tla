---------------------------- MODULE MovingListing ----------------------------
(***************************************************************************)
(* The registry a reader walks: each owner's public listing, read in pages *)
(* that are independent requests, while repositories appear and disappear  *)
(* between any two of them.  External to src/; modelled from the pages the *)
(* two readers ask for.  HubClient and Ghcr extend it.                     *)
(***************************************************************************)
EXTENDS Contract, SequencesExt

CONSTANTS
    Unsafe,         \* repository names the urlsafe allowlist refuses
    Listings,       \* [Owners -> SUBSET sequences], what a listing may start as
    PageSize,       \* the rows of a full page
    Volatile,       \* the owners whose listing may change while one Collect runs
    MaxChurn        \* the changes the registry makes while one Collect runs

ASSUME ListingAssumption ==
    /\ Unsafe \intersect Names = {} /\ Volatile \subseteq Owners
    /\ PageSize \in Nat \ {0} /\ MaxChurn \in Nat
    /\ \A o \in Owners : \A l \in Listings[o] :
        /\ l \in Seq(Names \union Unsafe) /\ IsInjective(l)
        /\ \A i \in DOMAIN l : l[i] \in Names => OwnerOf[l[i]] = o

VARIABLES
    listing,        \* [Owners -> Seq], each owner's public repositories, in order
    gone,           \* names a listing has lacked at some time since Collect began
    removals,       \* [Owners -> Nat], repositories removed since Collect began
    churn           \* changes of the registry since Collect began

registry == <<listing, gone, removals, churn>>

Held(o) == ToSet(listing[o])
Exists(n) == n \in Held(OwnerOf[n])
Pop == {n \in Names : Exists(n)}

\* The rows page p of a listing serves.
PageOf(l, p) == {l[i] : i \in {j \in 1..Len(l) : (p - 1) * PageSize < j /\ j <= p * PageSize}}

RegistryInit ==
    /\ listing = [o \in Owners |-> <<>>]
    /\ gone = {} /\ removals = [o \in Owners |-> 0] /\ churn = 0

\* The listings one Collect finds.
Populate ==
    /\ listing' \in {l \in [Owners -> UNION {Listings[o] : o \in Owners}] :
                        \A o \in Owners : l[o] \in Listings[o]}
    /\ gone' = {n \in Names : n \notin ToSet(listing'[OwnerOf[n]])}
    /\ UNCHANGED <<removals, churn>>

\* Place i of a listing is given up, or taken by n: what follows moves by one.
Without(l, i) == [j \in 1..Len(l) - 1 |-> IF j < i THEN l[j] ELSE l[j + 1]]
With(l, i, n) ==
    [j \in 1..Len(l) + 1 |-> IF j < i THEN l[j] ELSE IF j = i THEN n ELSE l[j - 1]]

\* A repository of owner o is deleted or made private.
Withdraw(o) ==
    /\ churn < MaxChurn /\ o \in Volatile
    /\ \E i \in 1..Len(listing[o]) :
        /\ listing' = [listing EXCEPT ![o] = Without(@, i)]
        /\ gone' = gone \union ({listing[o][i]} \ Unsafe)
    /\ removals' = [removals EXCEPT ![o] = @ + 1]
    /\ churn' = churn + 1

\* A repository that did not exist appears, anywhere in its owner's listing.
Appear(n) ==
    /\ churn < MaxChurn /\ OwnerOf[n] \in Volatile /\ ~Exists(n)
    /\ \E i \in 1..Len(listing[OwnerOf[n]]) + 1 :
        listing' = [listing EXCEPT ![OwnerOf[n]] = With(@, i, n)]
    /\ churn' = churn + 1
    /\ UNCHANGED <<gone, removals>>

RegistryTypeOK ==
    /\ \A o \in Owners : Held(o) \subseteq Names \union Unsafe /\ IsInjective(listing[o])
    /\ gone \subseteq Names
    /\ removals \in [Owners -> Nat] /\ churn \in 0..MaxChurn
=============================================================================
