------------------------------ MODULE GhcrProofs ------------------------------
(***************************************************************************)
(* Proofs about Ghcr for any refs, account kinds, listings, page size and  *)
(* churn: the reader keeps the contract while GitHub stands still, judges  *)
(* an outage right whatever the organization form of a listing answers, and*)
(* loses no more packages than were removed while it read.                 *)
(*                                                                         *)
(* The lemmas on the registry are those of HubClientProofs: the two modules*)
(* declare the same registry and neither can extend the other.             *)
(***************************************************************************)
EXTENDS Ghcr, FiniteSetTheorems, SequenceTheorems, TLAPS

-----------------------------------------------------------------------------
(* The registry, whatever the reader does.                                 *)

\* An owner's listing holds that owner's packages only.
OwnListings ==
    /\ listing \in [Owners -> Seq(Names \union Unsafe)]
    /\ \A o \in Owners : \A i \in 1..Len(listing[o]) :
          listing[o][i] \in Names => OwnerOf[listing[o][i]] = o

\* A listing holds each package once.
SingleRows ==
    \A o \in Owners : \A i, j \in 1..Len(listing[o]) :
        listing[o][i] = listing[o][j] => i = j

GoodRegistry ==
    /\ OwnListings /\ SingleRows
    /\ gone \subseteq Names /\ removals \in [Owners -> Nat] /\ churn \in 0..MaxChurn

\* A package that has never been gone is in its owner's listing.
GoneKnows == \A n \in Names \ gone : Exists(n)

\* Before the first change what is gone never was, and nothing was removed.
Untouched == churn = 0 => \A n \in gone : ~Exists(n)
NothingRemoved == churn = 0 => \A o \in Owners : removals[o] = 0

\* The rows of an owner at the first k places.
Behind(o, k) == {listing[o][i] : i \in {j \in 1..Len(listing[o]) : j <= k}}

RInv == GoodRegistry /\ NothingRemoved /\ (phase # "idle" => GoneKnows /\ Untouched)

-----------------------------------------------------------------------------
(* The inductive invariant.                                                *)

\* The walk of this owner's listing is over.
Visited(o) ==
    \E i \in 1..Len(WildRefs) :
        /\ WildRefs[i] = o
        /\ i < turn \/ phase \notin {"idle", "wildcards"}

\* An owner's walk is under way or waits to be expanded.
AtOwner == phase = "wildcards" /\ turn \in 1..Len(WildRefs)

Types ==
    /\ phase \in {"idle", "wildcards", "packages", "answered", "done"}
    /\ kind \in [Owners -> AccountKinds]
    /\ form \in {"org", "user"}
    /\ turn \in Nat \ {0} /\ page \in Nat \ {0}
    /\ names \subseteq Names
    /\ walk \in {"reading", "end", "empty", "capped", "404", "failed", "format"}
    /\ orgWalk \in {"none", "end", "404", "failed", "format"}
    /\ packages \in Seq(Names)
    /\ \A i, j \in 1..Len(packages) : packages[i] = packages[j] => i = j
    /\ end \in [Names -> Ends]
    /\ listed \subseteq Owners /\ faulty \subseteq Owners /\ wasEmpty \subseteq Owners

\* What has no Boolean-valued test of its own, and the bounds of the counters.
Bounds ==
    /\ cancelled \in BOOLEAN /\ kind \in Kinds
    /\ refused \in BOOLEAN /\ unchecked \in BOOLEAN /\ listingFailed \in BOOLEAN
    /\ reply \in {"none", "entry", "404", "error"}
    /\ page <= MaxListingPages + 1 /\ (walk = "reading" => page <= MaxListingPages)
    /\ turn <= 1 + IF phase \in {"idle", "wildcards"} THEN Len(WildRefs) ELSE Len(packages)

\* The reader before its first owner.
Fresh ==
    phase = "idle" =>
        /\ turn = 1 /\ form = "org" /\ page = 1 /\ names = {} /\ walk = "reading"
        /\ packages = <<>> /\ end = [n \in Names |-> "none"]
        /\ listed = {} /\ ~listingFailed

\* Names and verdicts belong to the owners read so far.
WalkInOrder ==
    /\ \A n \in names : AtOwner /\ OwnerOf[n] = Owner
    /\ walk = "reading" /\ names = {} => page = 1
    /\ walk = "capped" => names # {}
    /\ phase = "wildcards" /\ ~AtOwner => walk = "reading"
    /\ \A n \in ToSet(packages) : n \in Explicit[GHCR] \/ Visited(OwnerOf[n])
    /\ \A o \in listed : Visited(o)

\* The loop over the packages has settled every one behind it, and no other.
PackagesInOrder ==
    /\ phase \in {"idle", "wildcards"} => \A n \in Names : end[n] = "none"
    /\ phase \in {"packages", "answered", "done"} => Explicit[GHCR] \subseteq ToSet(packages)
    /\ phase = "answered" => turn <= Len(packages) /\ reply \in {"entry", "404", "error"}
    /\ phase \in {"packages", "answered"} =>
        \A i \in 1..Len(packages) : i < turn => end[packages[i]] # "none"
    /\ phase = "done" /\ ~cancelled => \A n \in ToSet(packages) : end[n] # "none"
    /\ \A n \in Names : /\ end[n] # "none" => n \in ToSet(packages)
                        /\ end[n] # "row"

-----------------------------------------------------------------------------
(* An owner that gave no name was at fault, or empty for a time.           *)

Excused(o) == o \in faulty \union wasEmpty

\* Only the user form can settle a user's listing.
KindOpen(end_of_org) == kind[Owner] = "user" /\ end_of_org \in {"404", "failed"}

EmptyKnown ==
    /\ phase # "idle" =>
        \A o \in Owners : kind[o] # "none" /\ Len(listing[o]) = 0 => o \in wasEmpty
    /\ AtOwner /\ walk = "empty" => Owner \in wasEmpty
    /\ AtOwner /\ ~cancelled /\ names = {} =>
        /\ form = "org" /\ walk # "reading" => Excused(Owner) \/ KindOpen(walk)
        /\ form = "user" => Excused(Owner) \/ KindOpen(orgWalk)
        /\ form = "user" /\ walk # "reading" => Excused(Owner)

OutageOnRecord ==
    /\ listingFailed => \E o \in Owners : Excused(o) /\ o \notin listed /\ Visited(o) /\ Unfound(o)
    /\ ~cancelled /\ ~listingFailed =>
        \A o \in Owners : Visited(o) /\ Unfound(o) =>
            o \in wasEmpty \/ \E n \in Explicit[GHCR] : OwnerOf[n] = o

IInv == /\ Types /\ Fresh /\ WalkInOrder /\ PackagesInOrder
        /\ EmptyKnown /\ OutageOnRecord

-----------------------------------------------------------------------------
(* What the reader knows of a GitHub that stands still.                    *)

StandingStill ==
    phase # "idle" /\ churn = 0 =>
        /\ \A n \in names : Exists(n)
        /\ \A n \in ToSet(packages) : n \in Explicit[GHCR] \/ Exists(n)
        /\ \A n \in Names : /\ end[n] = "read" => Exists(n)
                            /\ end[n] = "absent" => ~Exists(n)
        /\ phase = "answered" =>
            (reply = "entry" => Exists(Package)) /\ (reply = "404" => ~Exists(Package))

-----------------------------------------------------------------------------
(* The loss: a removal moves at most one row across the cursor of a walk.  *)

\* Rows the walk has passed without reading, though they were never gone.
Passed == {n \in Names \ gone : n \notin names /\ n \in Behind(Owner, (page - 1) * PageSize)}

\* Names of an owner that were never gone and that this set has not.
Lacking(o, known) == {n \in Names \ gone : OwnerOf[n] = o /\ n \notin known}

LossInv ==
    /\ AtOwner /\ ~unchecked =>
        /\ walk = "reading" => Cardinality(Passed) <= removals[Owner]
        /\ walk \in {"end", "empty"} => Cardinality(Lacking(Owner, names)) <= removals[Owner]
    /\ \A o \in listed : Cardinality(Lacking(o, ToSet(packages))) <= removals[o]

-----------------------------------------------------------------------------
(* Lemmas on refs, listings and pages.                                     *)

\* The wildcard refs, as the loop sees them.
LEMMA Refs ==
  /\ Len(WildRefs) \in Nat
  /\ \A i \in 1..Len(WildRefs) : WildRefs[i] \in Owners
  /\ \A i, j \in 1..Len(WildRefs) : WildRefs[i] = WildRefs[j] => i = j
  /\ \A o : o \in Wildcard[GHCR] <=> \E i \in 1..Len(WildRefs) : WildRefs[i] = o
  /\ Explicit[GHCR] \subseteq Names
  /\ \A n \in Names : OwnerOf[n] \in Owners
<1>1. /\ WildRefs \in Seq(Owners) /\ ToSet(WildRefs) = Wildcard[GHCR] /\ IsInjective(WildRefs)
  BY GhcrAssumption
<1>2. /\ DOMAIN WildRefs = 1..Len(WildRefs) /\ Len(WildRefs) \in Nat
      /\ \A i \in 1..Len(WildRefs) : WildRefs[i] \in Owners
  BY <1>1
<1>3. /\ \A n \in Names : OwnerOf[n] \in Owners
      /\ Explicit[GHCR] \subseteq Names
  BY ContractAssumption DEF Owners, Registries
<1>4. QED
  BY <1>1, <1>2, <1>3 DEF ToSet, IsInjective

\* The owner being walked has not been visited.
LEMMA OwnerIsNext ==
  ASSUME Types, AtOwner
  PROVE  Owner \in Owners /\ ~Visited(Owner)
  BY Refs DEF Types, AtOwner, Owner, Visited

\* The elements of a sequence are what stands at its places.
LEMMA Elements ==
  ASSUME NEW S, NEW q \in Seq(S)
  PROVE  /\ Len(q) \in Nat /\ ToSet(q) \subseteq S
         /\ \A x : x \in ToSet(q) <=> \E i \in 1..Len(q) : q[i] = x
<1>1. Len(q) \in Nat /\ DOMAIN q = 1..Len(q) /\ \A i \in 1..Len(q) : q[i] \in S
  OBVIOUS
<1>2. QED
  BY <1>1 DEF ToSet

\* The bounds of page p, of which the next page's are one page on.
LEMMA PageBounds ==
  ASSUME NEW p \in Nat \ {0}
  PROVE  /\ (p - 1) * PageSize \in Nat /\ p * PageSize \in Nat
         /\ p * PageSize = (p - 1) * PageSize + PageSize
         /\ (p + 1 - 1) * PageSize = p * PageSize
<1>1. PageSize \in Nat
  BY ListingAssumption
<1>2. QED
  BY <1>1

\* Page p holds the rows at its places of the listing, and nothing else.
LEMMA PageRows ==
  ASSUME NEW l, NEW p
  PROVE  /\ \A n \in PageOf(l, p) : \E i \in 1..Len(l) : l[i] = n
         /\ \A i \in 1..Len(l) :
              (p - 1) * PageSize < i /\ i <= p * PageSize => l[i] \in PageOf(l, p)
  BY DEF PageOf

\* What a listing holds exists, and every existing name has its place there.
LEMMA ListingHolds ==
  ASSUME OwnListings, NEW o \in Owners
  PROVE  /\ \A i \in 1..Len(listing[o]) :
              /\ listing[o][i] \in Names \union Unsafe
              /\ listing[o][i] \in Names =>
                   OwnerOf[listing[o][i]] = o /\ Exists(listing[o][i])
         /\ \A n \in Names : Exists(n) /\ OwnerOf[n] = o =>
              \E i \in 1..Len(listing[o]) : listing[o][i] = n
<1>1. listing[o] \in Seq(Names \union Unsafe)
  BY DEF OwnListings
<1>2. DOMAIN listing[o] = 1..Len(listing[o])
  BY <1>1
<1>3. \A i \in 1..Len(listing[o]) : listing[o][i] \in Names \union Unsafe
  BY <1>1
<1>4. Held(o) = {listing[o][i] : i \in 1..Len(listing[o])}
  BY <1>2 DEF Held, ToSet
<1>5. QED
  BY <1>3, <1>4 DEF OwnListings, Exists

-----------------------------------------------------------------------------
(* Lemmas on the changes of the registry.                                  *)

LEMMA WithdrawKeepsRegistry ==
  ASSUME GoodRegistry, NEW o \in Owners, Withdraw(o)
  PROVE  /\ GoodRegistry' /\ gone \subseteq gone' /\ churn' = churn + 1
         /\ GoneKnows => GoneKnows'
         /\ removals' = [removals EXCEPT ![o] = @ + 1]
         /\ \A p \in Owners : p # o => listing'[p] = listing[p]
         /\ \A k \in Nat : \E x : Behind(o, k)' \subseteq Behind(o, k) \union {x}
<1> DEFINE l == listing[o]
<1>1. PICK i \in 1..Len(l) :
        /\ listing' = [listing EXCEPT ![o] = Without(l, i)]
        /\ gone' = gone \union ({l[i]} \ Unsafe)
  BY DEF Withdraw
<1>2. /\ removals' = [removals EXCEPT ![o] = @ + 1] /\ removals' \in [Owners -> Nat]
      /\ churn' = churn + 1 /\ churn' \in 0..MaxChurn
  BY ListingAssumption DEF Withdraw, GoodRegistry
<1>3. l \in Seq(Names \union Unsafe) /\ Len(l) \in Nat /\ l[i] \in Names \union Unsafe
  BY DEF GoodRegistry, OwnListings
<1> DEFINE w == Without(l, i)
<1>4. /\ w \in Seq(Names \union Unsafe) /\ Len(w) = Len(l) - 1
      /\ \A j \in 1..Len(l) - 1 : w[j] = IF j < i THEN l[j] ELSE l[j + 1]
  BY <1>3 DEF Without
<1> HIDE DEF w
<1>5. listing'[o] = w /\ \A p \in Owners : p # o => listing'[p] = listing[p]
  BY <1>1 DEF GoodRegistry, OwnListings, w
<1>6. OwnListings'
  <2>1. \A j \in 1..Len(w) : w[j] \in Names => OwnerOf[w[j]] = o
    BY <1>3, <1>4, SMTT(30) DEF GoodRegistry, OwnListings
  <2>2. listing' \in [Owners -> Seq(Names \union Unsafe)]
    BY <1>1, <1>4 DEF GoodRegistry, OwnListings, w
  <2>3. QED
    BY <1>5, <2>1, <2>2 DEF GoodRegistry, OwnListings
<1>7. SingleRows'
  <2>1. ASSUME NEW j \in 1..Len(w), NEW k \in 1..Len(w), w[j] = w[k] PROVE j = k
    <3> DEFINE a == IF j < i THEN j ELSE j + 1
               b == IF k < i THEN k ELSE k + 1
    <3>1. a \in 1..Len(l) /\ b \in 1..Len(l) /\ l[a] = l[b]
      BY <1>3, <1>4, <2>1, SMTT(30)
    <3>2. a = b
      BY <3>1 DEF GoodRegistry, SingleRows
    <3>3. QED
      BY <1>3, <1>4, <3>2
  <2>2. ASSUME NEW p \in Owners
        PROVE  \A j, k \in 1..Len(listing'[p]) : listing'[p][j] = listing'[p][k] => j = k
    BY <1>5, <2>1 DEF GoodRegistry, SingleRows
  <2>3. QED
    BY <2>2 DEF SingleRows
<1>8. gone' \subseteq Names /\ gone \subseteq gone'
  BY <1>1, <1>3 DEF GoodRegistry
<1>9. ASSUME GoneKnows PROVE GoneKnows'
  <2> SUFFICES ASSUME NEW n \in Names, n \notin gone' PROVE Exists(n)'
    BY DEF GoneKnows
  <2>1. Exists(n) /\ n # l[i]
    BY <1>1, <1>8, <1>9, ListingAssumption DEF GoneKnows
  <2>2. CASE OwnerOf[n] # o
    BY <1>5, <2>1, <2>2 DEF Exists, Held, Owners
  <2>3. CASE OwnerOf[n] = o
    <3>1. PICK j \in 1..Len(l) : l[j] = n
      BY <2>1, <2>3, ListingHolds DEF GoodRegistry
    <3>2. PICK k \in 1..Len(w) : w[k] = n
      <4>1. CASE j < i
        BY <1>3, <1>4, <3>1, <4>1, SMTT(30)
      <4>2. CASE j > i
        <5>1. j - 1 \in 1..Len(w) /\ ~(j - 1 < i) /\ (j - 1) + 1 = j
          BY <1>3, <1>4, <4>2
        <5>2. QED
          BY <1>3, <1>4, <3>1, <5>1
      <4>3. j # i
        BY <2>1, <3>1
      <4>4. QED
        BY <4>1, <4>2, <4>3
    <3>3. DOMAIN w = 1..Len(w)
      BY <1>4
    <3>4. n \in ToSet(w)
      BY <3>2, <3>3 DEF ToSet
    <3>5. QED
      BY <1>5, <2>3, <3>4 DEF Exists, Held
  <2>4. QED
    BY <2>2, <2>3
<1>10. ASSUME NEW k \in Nat PROVE \E x : Behind(o, k)' \subseteq Behind(o, k) \union {x}
  <2>1. ASSUME NEW j \in 1..Len(w), j <= k PROVE w[j] \in Behind(o, k) \union {l[k + 1]}
    <3>1. CASE j < i
      BY <1>3, <1>4, <2>1, <3>1 DEF Behind
    <3>2. CASE ~(j < i) /\ j < k
      <4>1. j + 1 \in 1..Len(l) /\ j + 1 <= k /\ w[j] = l[j + 1]
        BY <1>3, <1>4, <2>1, <3>2
      <4>2. QED
        BY <4>1 DEF Behind
    <3>3. CASE ~(j < i) /\ j = k
      BY <1>3, <1>4, <3>3
    <3>4. QED
      BY <2>1, <3>1, <3>2, <3>3
  <2>2. Behind(o, k)' \subseteq Behind(o, k) \union {l[k + 1]}
    BY <1>5, <2>1 DEF Behind
  <2>3. QED
    BY <2>2
<1>11. QED
  BY <1>2, <1>5, <1>6, <1>7, <1>8, <1>9, <1>10 DEF GoodRegistry

LEMMA AppearKeepsRegistry ==
  ASSUME GoodRegistry, NEW n \in Names, Appear(n)
  PROVE  /\ GoodRegistry' /\ gone' = gone /\ removals' = removals /\ churn' = churn + 1
         /\ GoneKnows => GoneKnows' /\ n \in gone
         /\ \A o \in Owners, k \in Nat : Behind(o, k)' \subseteq Behind(o, k) \union {n}
<1> DEFINE o == OwnerOf[n]
           l == listing[o]
<1>1. PICK i \in 1..Len(l) + 1 : listing' = [listing EXCEPT ![o] = With(l, i, n)]
  BY DEF Appear
<1>2. /\ UNCHANGED <<gone, removals>> /\ churn' = churn + 1 /\ churn' \in 0..MaxChurn
      /\ ~Exists(n) /\ o \in Owners
  BY ListingAssumption, Refs DEF Appear, GoodRegistry
<1>3. l \in Seq(Names \union Unsafe) /\ Len(l) \in Nat
  BY <1>2 DEF GoodRegistry, OwnListings
<1> DEFINE w == With(l, i, n)
<1>4. /\ w \in Seq(Names \union Unsafe) /\ Len(w) = Len(l) + 1
      /\ \A j \in 1..Len(l) + 1 : w[j] = IF j < i THEN l[j] ELSE IF j = i THEN n ELSE l[j - 1]
  <2>1. n \in Names \union Unsafe
    OBVIOUS
  <2>2. QED
    BY <1>3, <2>1 DEF With
<1> HIDE DEF w
<1>5. /\ listing'[o] = w /\ \A p \in Owners : p # o => listing'[p] = listing[p]
      /\ listing' \in [Owners -> Seq(Names \union Unsafe)]
  BY <1>1, <1>2, <1>4 DEF GoodRegistry, OwnListings, w
<1>6. ASSUME NEW j \in 1..Len(w)
      PROVE  /\ j < i => j \in 1..Len(l) /\ w[j] = l[j]
             /\ j = i => w[j] = n
             /\ j > i => j - 1 \in 1..Len(l) /\ w[j] = l[j - 1]
  BY <1>3, <1>4
<1>7. /\ \A j \in 1..Len(l) : l[j] # n
      /\ \A j, k \in 1..Len(l) : l[j] = l[k] => j = k
  BY <1>2, ListingHolds DEF GoodRegistry, SingleRows
<1>8. OwnListings'
  <2>1. ASSUME NEW j \in 1..Len(w), w[j] \in Names PROVE OwnerOf[w[j]] = o
    <3>1. \A k \in 1..Len(l) : l[k] \in Names => OwnerOf[l[k]] = o
      BY <1>2 DEF GoodRegistry, OwnListings
    <3>2. j < i \/ j = i \/ j > i
      BY <1>3, <1>4
    <3>3. /\ j < i => j \in 1..Len(l) /\ w[j] = l[j]
          /\ j = i => w[j] = n
          /\ j > i => j - 1 \in 1..Len(l) /\ w[j] = l[j - 1]
      BY <1>6
    <3>4. CASE j < i
      BY <2>1, <3>1, <3>3, <3>4
    <3>5. CASE j = i
      BY <3>3, <3>5
    <3>6. CASE j > i
      BY <2>1, <3>1, <3>3, <3>6
    <3>7. QED
      BY <3>2, <3>4, <3>5, <3>6
  <2>2. ASSUME NEW p \in Owners, NEW j \in 1..Len(listing'[p]), listing'[p][j] \in Names
        PROVE  OwnerOf[listing'[p][j]] = p
    <3>1. CASE p = o
      BY <1>5, <2>1, <2>2, <3>1
    <3>2. CASE p # o
      BY <1>5, <2>2, <3>2 DEF GoodRegistry, OwnListings
    <3>3. QED
      BY <3>1, <3>2
  <2>3. QED
    BY <1>5, <2>2 DEF OwnListings
<1>9. SingleRows'
  <2>1. ASSUME NEW j \in 1..Len(w), NEW k \in 1..Len(w), w[j] = w[k] PROVE j = k
    <3>1. i \in Int /\ j \in Int /\ k \in Int
      BY <1>3, <1>4
    <3>2. /\ j < i => j \in 1..Len(l) /\ w[j] = l[j]
          /\ j = i => w[j] = n
          /\ j > i => j - 1 \in 1..Len(l) /\ w[j] = l[j - 1]
      BY <1>6
    <3>3. /\ k < i => k \in 1..Len(l) /\ w[k] = l[k]
          /\ k = i => w[k] = n
          /\ k > i => k - 1 \in 1..Len(l) /\ w[k] = l[k - 1]
      BY <1>6
    <3>4. CASE j = i \/ k = i
      BY <1>7, <2>1, <3>1, <3>2, <3>3, <3>4
    <3>5. CASE j # i /\ k # i
      <4> DEFINE a == IF j < i THEN j ELSE j - 1
                 b == IF k < i THEN k ELSE k - 1
      <4>1. a \in 1..Len(l) /\ b \in 1..Len(l) /\ l[a] = l[b]
        BY <2>1, <3>1, <3>2, <3>3, <3>5
      <4>2. a = b
        BY <1>7, <4>1
      <4>3. QED
        BY <3>1, <3>5, <4>2
    <3>6. QED
      BY <3>4, <3>5
  <2>2. QED
    BY <1>5, <2>1 DEF GoodRegistry, SingleRows
<1>10. GoneKnows => GoneKnows' /\ n \in gone
  <2> SUFFICES ASSUME GoneKnows PROVE GoneKnows' /\ n \in gone
    OBVIOUS
  <2>1. n \in gone
    BY <1>2 DEF GoneKnows
  <2>2. ASSUME NEW m \in Names, m \notin gone, OwnerOf[m] = o PROVE Exists(m)'
    <3>1. PICK j \in 1..Len(l) : l[j] = m
      BY <1>2, <2>2, ListingHolds DEF GoneKnows, GoodRegistry
    <3>2. PICK k \in 1..Len(w) : w[k] = m
      <4>1. CASE j < i
        BY <1>3, <1>4, <3>1, <4>1
      <4>2. CASE ~(j < i)
        <5>1. j + 1 \in 1..Len(w) /\ ~(j + 1 < i) /\ j + 1 # i /\ (j + 1) - 1 = j
          BY <1>3, <1>4, <4>2
        <5>2. QED
          BY <1>3, <1>4, <3>1, <5>1
      <4>3. QED
        BY <4>1, <4>2
    <3>3. DOMAIN w = 1..Len(w)
      BY <1>4
    <3>4. m \in ToSet(w)
      BY <3>2, <3>3 DEF ToSet
    <3>5. QED
      BY <1>5, <2>2, <3>4 DEF Exists, Held
  <2>3. ASSUME NEW m \in Names, m \notin gone, OwnerOf[m] # o PROVE Exists(m)'
    BY <1>5, <2>3, Refs DEF GoneKnows, Exists, Held
  <2>4. QED
    BY <1>2, <2>1, <2>2, <2>3 DEF GoneKnows
<1>11. ASSUME NEW p \in Owners, NEW k \in Nat PROVE Behind(p, k)' \subseteq Behind(p, k) \union {n}
  <2>1. CASE p = o
    <3>1. \A j \in 1..Len(w) : j <= k => w[j] \in Behind(o, k) \union {n}
      BY <1>3, <1>6 DEF Behind
    <3>2. QED
      BY <1>5, <2>1, <3>1 DEF Behind
  <2>2. CASE p # o
    BY <1>5, <2>2 DEF Behind
  <2>3. QED
    BY <2>1, <2>2
<1>12. QED
  BY <1>2, <1>8, <1>9, <1>10, <1>11 DEF GoodRegistry

LEMMA PopulateMakesRegistry ==
  ASSUME GoodRegistry, Populate
  PROVE  GoodRegistry' /\ GoneKnows'
<1>1. /\ listing' \in [Owners -> UNION {Listings[o] : o \in Owners}]
      /\ \A o \in Owners : listing'[o] \in Listings[o]
      /\ gone' = {n \in Names : n \notin ToSet(listing'[OwnerOf[n]])}
      /\ UNCHANGED <<removals, churn>>
  BY DEF Populate
<1>2. \A o \in Owners :
        /\ listing'[o] \in Seq(Names \union Unsafe)
        /\ DOMAIN listing'[o] = 1..Len(listing'[o])
        /\ IsInjective(listing'[o])
        /\ \A i \in DOMAIN listing'[o] : listing'[o][i] \in Names => OwnerOf[listing'[o][i]] = o
  <2> TAKE o \in Owners
  <2>1. listing'[o] \in Seq(Names \union Unsafe)
    BY <1>1, ListingAssumption
  <2>2. DOMAIN listing'[o] = 1..Len(listing'[o])
    BY <2>1
  <2>3. QED
    BY <1>1, <2>1, <2>2, ListingAssumption
<1>3. listing' \in [Owners -> Seq(Names \union Unsafe)]
  BY <1>1, <1>2
<1>4. OwnListings' /\ SingleRows'
  BY <1>2, <1>3 DEF OwnListings, SingleRows, IsInjective
<1>5. GoneKnows'
  BY <1>1 DEF GoneKnows, Exists, Held
<1>6. QED
  BY <1>1, <1>4, <1>5 DEF GoodRegistry

-----------------------------------------------------------------------------
(* Lemmas on the number of names.                                          *)

LEMMA NamesFinite ==
  ASSUME NEW S, S \subseteq Names
  PROVE  IsFiniteSet(S) /\ Cardinality(S) \in Nat
<1>1. IsFiniteSet(S)
  BY FS_Subset, ContractAssumption
<1>2. QED
  BY <1>1, FS_CardinalityType

\* A smaller set of names under a bound that has not fallen.
LEMMA StillBounded ==
  ASSUME NEW S, S \subseteq Names, NEW T, T \subseteq S,
         NEW m \in Nat, NEW n \in Nat, m <= n, Cardinality(S) <= m
  PROVE  Cardinality(T) <= n
<1>1. IsFiniteSet(S) /\ Cardinality(S) \in Nat /\ Cardinality(T) \in Nat
  BY NamesFinite
<1>2. Cardinality(T) <= Cardinality(S)
  BY <1>1, FS_Subset
<1>3. QED
  BY <1>1, <1>2

\* One name more under a bound that is one more.
LEMMA OneMore ==
  ASSUME NEW S, S \subseteq Names, NEW x, NEW T, T \subseteq S \union {x},
         NEW m \in Nat, Cardinality(S) <= m
  PROVE  Cardinality(T) <= m + 1
<1>1. IsFiniteSet(S) /\ Cardinality(S) \in Nat
  BY NamesFinite
<1>2. IsFiniteSet(S \union {x}) /\ Cardinality(S \union {x}) <= Cardinality(S) + 1
  <2>1. /\ IsFiniteSet(S \union {x})
        /\ Cardinality(S \union {x}) = IF x \in S THEN Cardinality(S) ELSE Cardinality(S) + 1
    BY <1>1, FS_AddElement
  <2>2. QED
    BY <1>1, <2>1
<1>3. Cardinality(T) <= Cardinality(S \union {x})
  BY <1>2, FS_Subset
<1>4. IsFiniteSet(T)
  BY <1>2, FS_Subset
<1>5. Cardinality(T) \in Nat /\ Cardinality(S \union {x}) \in Nat
  BY <1>2, <1>4, FS_CardinalityType
<1>6. QED
  BY <1>1, <1>2, <1>3, <1>5

-----------------------------------------------------------------------------
(* The registry's invariant.                                               *)

LEMMA InvariantRInv == Spec => []RInv
<1>1. Init => RInv
  <2> SUFFICES ASSUME Init PROVE RInv
    OBVIOUS
  <2>1. listing = [o \in Owners |-> <<>>] /\ removals = [o \in Owners |-> 0] /\ churn = 0
    BY DEF Init, RegistryInit
  <2>2. <<>> \in Seq(Names \union Unsafe) /\ Len(<<>>) = 0
    OBVIOUS
  <2>3. OwnListings /\ SingleRows
    BY <2>1, <2>2 DEF OwnListings, SingleRows
  <2>4. removals \in [Owners -> Nat] /\ churn \in 0..MaxChurn /\ NothingRemoved
    BY <2>1, ListingAssumption DEF NothingRemoved
  <2>5. QED
    BY <2>3, <2>4 DEF Init, RegistryInit, RInv, GoodRegistry
<1>2. RInv /\ [Next]_vars => RInv'
  <2> SUFFICES ASSUME RInv, [Next]_vars PROVE RInv'
    OBVIOUS
  <2>1. CASE Start
    <3>1. Populate /\ removals' = removals /\ churn' = churn
      BY <2>1 DEF Start, Populate
    <3>2. Untouched' /\ NothingRemoved'
      BY <3>1 DEF Populate, Untouched, NothingRemoved, RInv, Exists, Held
    <3>3. QED
      BY <3>1, <3>2, PopulateMakesRegistry DEF RInv
  <2>2. CASE Delist \/ Enlist
    <3>1. /\ phase # "idle" /\ phase' = phase /\ GoodRegistry /\ GoneKnows
          /\ \/ \E o \in Owners : Withdraw(o)
             \/ \E n \in Names : Appear(n)
      BY <2>2 DEF Delist, Enlist, Running, RInv
    <3>2. GoodRegistry' /\ GoneKnows' /\ churn' = churn + 1
      BY <3>1, WithdrawKeepsRegistry, AppearKeepsRegistry
    <3>3. churn' # 0
      BY <3>1, <3>2 DEF GoodRegistry
    <3>4. QED
      BY <3>2, <3>3 DEF RInv, Untouched, NothingRemoved
  <2>3. CASE UNCHANGED registry /\ (phase = "idle" => phase' = "idle")
    BY <2>3 DEF registry, RInv, GoodRegistry, OwnListings, SingleRows, GoneKnows, Untouched,
                NothingRemoved, Exists, Held
  <2>4. QED
    BY <2>1, <2>2, <2>3 DEF Next, ReadPage, NotFound, FailPage, TryUser, Expand, EndWildcards,
         Scrape, Sort, Return, Cancel, Done, vars, Walking, Ended, Running
<1>3. QED
  BY <1>1, <1>2, PTL DEF Spec

-----------------------------------------------------------------------------
(* The reader's invariant: what a step that only reads leaves as it is.    *)

LEMMA InitIInv == Init => IInv
<1> SUFFICES ASSUME Init PROVE IInv
  OBVIOUS
<1>1. /\ phase = "idle" /\ turn = 1 /\ packages = <<>> /\ names = {} /\ walk = "reading"
      /\ page = 1 /\ form = "org" /\ orgWalk = "none" /\ kind \in Kinds
      /\ end = [n \in Names |-> "none"] /\ listed = {} /\ faulty = {} /\ wasEmpty = {}
      /\ listingFailed = FALSE
  BY DEF Init
<1>2. ToSet(packages) = {} /\ packages \in Seq(Names) /\ Len(packages) = 0
  <2>1. <<>> \in Seq(Names) /\ Len(<<>>) = 0 /\ DOMAIN <<>> = 1..0
    OBVIOUS
  <2>2. ToSet(<<>>) = {}
    BY DEF ToSet
  <2>3. QED
    BY <1>1, <2>1, <2>2
<1>3. kind \in [Owners -> AccountKinds]
  BY <1>1, GhcrAssumption
<1>4. Types
  BY <1>1, <1>2, <1>3 DEF Types, Ends
<1>5. ~AtOwner /\ \A o : ~Visited(o)
  BY <1>1, Refs DEF AtOwner, Visited
<1>6. Fresh /\ EmptyKnown /\ OutageOnRecord
  BY <1>1, <1>5 DEF Fresh, EmptyKnown, OutageOnRecord
<1>7. WalkInOrder /\ PackagesInOrder
  BY <1>1, <1>2, <1>5 DEF WalkInOrder, PackagesInOrder
<1>8. QED
  BY <1>4, <1>6, <1>7 DEF IInv

\* A step of an owner's walk settles nothing: it may put the owner at fault.
LEMMA WalkStepStands ==
  ASSUME IInv, AtOwner, faulty \subseteq faulty',
         UNCHANGED <<phase, cancelled, kind, turn, packages, collection, wasEmpty, registry>>
  PROVE  /\ AtOwner' /\ Owner' = Owner
         /\ \A o : Visited(o)' <=> Visited(o)
         /\ Fresh' /\ PackagesInOrder' /\ OutageOnRecord'
         /\ \A o \in Owners : kind'[o] # "none" /\ Len(listing'[o]) = 0 => o \in wasEmpty'
         /\ \A n \in ToSet(packages)' : n \in Explicit[GHCR] \/ Visited(OwnerOf[n])'
         /\ \A o \in listed' : Visited(o)'
<1>1. /\ phase = "wildcards" /\ phase' = phase /\ cancelled' = cancelled /\ kind' = kind
      /\ turn' = turn /\ packages' = packages /\ end' = end /\ listed' = listed
      /\ listingFailed' = listingFailed /\ wasEmpty' = wasEmpty /\ listing' = listing
  BY DEF AtOwner, collection, registry
<1>2. AtOwner' /\ Owner' = Owner /\ \A o : Visited(o)' <=> Visited(o)
  BY <1>1 DEF AtOwner, Owner, Visited
<1>3. Fresh' /\ PackagesInOrder'
  BY <1>1 DEF IInv, Fresh, PackagesInOrder
<1>4. \A o : /\ Unfound(o)' <=> Unfound(o)
             /\ Excused(o) => Excused(o)'
  BY <1>1 DEF Unfound, Excused
<1>5. OutageOnRecord'
  BY <1>1, <1>2, <1>4 DEF IInv, OutageOnRecord
<1>6. QED
  BY <1>1, <1>2, <1>3, <1>5 DEF IInv, EmptyKnown, WalkInOrder

\* Once the listings are read no owner is walked, and the listings' verdicts
\* stand.
LEMMA ScrapeStepStands ==
  ASSUME IInv, phase \in {"packages", "answered"}, phase' \in {"packages", "answered", "done"},
         UNCHANGED <<cancelled, kind, lister, packages, listed, listingFailed, faulty,
                     wasEmpty, registry>>
  PROVE  Fresh' /\ WalkInOrder' /\ EmptyKnown' /\ OutageOnRecord'
<1>1. /\ cancelled' = cancelled /\ kind' = kind /\ names' = names /\ page' = page
      /\ walk' = walk /\ packages' = packages /\ listed' = listed
      /\ listingFailed' = listingFailed /\ faulty' = faulty /\ wasEmpty' = wasEmpty
      /\ listing' = listing /\ phase # "idle"
  BY DEF lister, registry
<1>2. ~AtOwner /\ ~AtOwner' /\ \A o : Visited(o)' <=> Visited(o)
  BY DEF AtOwner, Visited
<1>3. \A o : (Unfound(o)' <=> Unfound(o)) /\ (Excused(o)' <=> Excused(o))
  BY <1>1 DEF Unfound, Excused
<1>4. Fresh' /\ EmptyKnown'
  BY <1>1, <1>2 DEF IInv, Fresh, EmptyKnown
<1>5. WalkInOrder'
  BY <1>1, <1>2 DEF IInv, WalkInOrder
<1>6. OutageOnRecord'
  BY <1>1, <1>2, <1>3 DEF IInv, OutageOnRecord
<1>7. QED
  BY <1>4, <1>5, <1>6

\* While only the registry or the context moves, the reader's parts stand.
LEMMA ReaderStands ==
  ASSUME IInv, wasEmpty \subseteq wasEmpty', wasEmpty' \subseteq Owners,
         cancelled => cancelled', phase # "idle",
         \A o \in Owners : kind[o] # "none" /\ Len(listing'[o]) = 0 => o \in wasEmpty',
         UNCHANGED <<phase, kind, turn, lister, packages, reply, collection, faulty>>
  PROVE  IInv'
<1>1. /\ phase' = phase /\ kind' = kind /\ turn' = turn /\ form' = form /\ page' = page
      /\ names' = names /\ walk' = walk /\ orgWalk' = orgWalk /\ packages' = packages
      /\ reply' = reply /\ end' = end /\ listed' = listed /\ listingFailed' = listingFailed
      /\ faulty' = faulty
  BY DEF lister, collection
<1>2. /\ AtOwner' <=> AtOwner
      /\ Owner' = Owner
      /\ \A o : Visited(o)' <=> Visited(o)
      /\ \A o : Unfound(o)' <=> Unfound(o)
      /\ \A o : Excused(o) => Excused(o)'
      /\ \A e : KindOpen(e)' <=> KindOpen(e)
  BY <1>1 DEF AtOwner, Owner, Visited, Unfound, Excused, KindOpen
<1>3. Types' /\ Fresh'
  BY <1>1 DEF IInv, Types, Fresh
<1>4. WalkInOrder'
  BY <1>1, <1>2 DEF IInv, WalkInOrder
<1>5. PackagesInOrder'
  BY <1>1 DEF IInv, PackagesInOrder
<1>6. EmptyKnown'
  BY <1>1, <1>2 DEF IInv, EmptyKnown
<1>7. OutageOnRecord'
  BY <1>1, <1>2 DEF IInv, OutageOnRecord
<1>8. QED
  BY <1>3, <1>4, <1>5, <1>6, <1>7 DEF IInv

-----------------------------------------------------------------------------
(* The reader's invariant: the start, the registry and the context.        *)

LEMMA StartPreserves == RInv' /\ IInv /\ Start => IInv'
<1> SUFFICES ASSUME RInv', IInv, Start PROVE IInv'
  OBVIOUS
<1>1. /\ phase' = "wildcards" /\ turn' = 1 /\ form' = "org" /\ page' = 1 /\ names' = {}
      /\ walk' = "reading" /\ orgWalk' = orgWalk /\ packages' = <<>> /\ kind' = kind
      /\ end' = end /\ listed' = {} /\ ~listingFailed' /\ listingFailed' = listingFailed
      /\ faulty' = faulty /\ \A n \in Names : end[n] = "none"
      /\ wasEmpty' = {o \in Owners : kind[o] # "none" /\ listing'[o] = <<>>}
  BY DEF Start, IInv, Fresh, lister, collection
<1>2. ToSet(packages') = {}
  BY <1>1 DEF ToSet
<1>3. Types' /\ Fresh'
  BY <1>1 DEF IInv, Types, Fresh
<1>4. \A o : ~Visited(o)'
  BY <1>1, Refs DEF Visited
<1>5. WalkInOrder' /\ PackagesInOrder' /\ OutageOnRecord'
  BY <1>1, <1>2, <1>4 DEF WalkInOrder, PackagesInOrder, OutageOnRecord
<1>6. EmptyKnown'
  <2>1. ASSUME NEW o \in Owners, Len(listing'[o]) = 0 PROVE listing'[o] = <<>>
    <3>1. listing'[o] \in Seq(Names \union Unsafe)
      BY DEF RInv, GoodRegistry, OwnListings
    <3>2. QED
      BY <2>1, <3>1
  <2>2. QED
    BY <1>1, <2>1 DEF EmptyKnown
<1>7. QED
  BY <1>3, <1>5, <1>6 DEF IInv

\* A change of the registry leaves the reader as it is, and an owner that it
\* leaves without packages is on record as such.
LEMMA ChurnPreserves == RInv /\ RInv' /\ IInv /\ (Delist \/ Enlist) => IInv'
<1> SUFFICES ASSUME RInv, RInv', IInv, Delist \/ Enlist PROVE IInv'
  OBVIOUS
<1>1. /\ phase # "idle" /\ cancelled' = cancelled
      /\ UNCHANGED <<phase, kind, turn, lister, packages, reply, collection, faulty>>
  BY DEF Delist, Enlist, Running
<1>2. CASE Delist
  <2>1. PICK o \in Owners : Withdraw(o) /\ wasEmpty' = IF listing'[o] = <<>> THEN wasEmpty \union {o} ELSE wasEmpty
    BY <1>2 DEF Delist
  <2>2. wasEmpty \subseteq wasEmpty' /\ wasEmpty' \subseteq Owners
    BY <2>1 DEF IInv, Types
  <2>3. ASSUME NEW p \in Owners, kind[p] # "none", Len(listing'[p]) = 0 PROVE p \in wasEmpty'
    <3>1. CASE p = o
      <4>1. listing'[p] \in Seq(Names \union Unsafe)
        BY DEF RInv, GoodRegistry, OwnListings
      <4>2. QED
        BY <2>1, <2>3, <3>1, <4>1
    <3>2. CASE p # o
      <4>1. listing'[p] = listing[p]
        BY <2>1, <3>2, WithdrawKeepsRegistry DEF RInv
      <4>2. QED
        BY <1>1, <2>2, <2>3, <4>1 DEF IInv, EmptyKnown
    <3>3. QED
      BY <3>1, <3>2
  <2>4. QED
    BY <1>1, <2>2, <2>3, ReaderStands
<1>3. CASE Enlist
  <2>1. PICK n \in Names : Appear(n)
    BY <1>3 DEF Enlist
  <2>2. wasEmpty' = wasEmpty
    BY <1>3 DEF Enlist
  <2>3. PICK i \in 1..Len(listing[OwnerOf[n]]) + 1 :
          listing' = [listing EXCEPT ![OwnerOf[n]] = With(@, i, n)]
    BY <2>1 DEF Appear
  <2>4. ASSUME NEW p \in Owners, Len(listing'[p]) = 0 PROVE Len(listing[p]) = 0
    <3>1. listing[p] \in Seq(Names \union Unsafe) /\ Len(listing[p]) \in Nat
      BY DEF RInv, GoodRegistry, OwnListings
    <3>2. CASE p = OwnerOf[n]
      <4>1. listing'[p] = With(listing[p], i, n)
        BY <2>3, <3>2 DEF RInv, GoodRegistry, OwnListings
      <4>2. With(listing[p], i, n) \in Seq(Names \union Unsafe)
        BY <4>1 DEF RInv, GoodRegistry, OwnListings
      <4>3. DOMAIN With(listing[p], i, n) = 1..Len(listing[p]) + 1
        BY DEF With
      <4>4. Len(With(listing[p], i, n)) = Len(listing[p]) + 1
        BY <3>1, <4>2, <4>3
      <4>5. QED
        BY <2>4, <3>1, <4>1, <4>4
    <3>3. CASE p # OwnerOf[n]
      BY <2>3, <2>4, <3>3 DEF RInv, GoodRegistry, OwnListings
    <3>4. QED
      BY <3>2, <3>3
  <2>5. \A p \in Owners : kind[p] # "none" /\ Len(listing'[p]) = 0 => p \in wasEmpty'
    BY <1>1, <2>2, <2>4 DEF IInv, EmptyKnown
  <2>6. QED
    BY <1>1, <2>2, <2>5, ReaderStands DEF IInv, Types
<1>4. QED
  BY <1>2, <1>3

\* Nothing but the context, or nothing at all.
LEMMA CancelPreserves == IInv /\ (Cancel \/ UNCHANGED vars) => IInv'
<1> SUFFICES ASSUME IInv, Cancel \/ UNCHANGED vars PROVE IInv'
  OBVIOUS
<1>1. /\ UNCHANGED <<phase, kind, turn, lister, packages, reply, collection, faulty>>
      /\ wasEmpty' = wasEmpty /\ listing' = listing /\ (cancelled => cancelled')
      /\ phase # "idle" \/ cancelled' = cancelled
  BY DEF Cancel, Running, vars, registry
<1>2. CASE phase # "idle"
  <2>1. \A o \in Owners : kind[o] # "none" /\ Len(listing'[o]) = 0 => o \in wasEmpty'
    BY <1>1, <1>2 DEF IInv, EmptyKnown
  <2>2. QED
    BY <1>1, <1>2, <2>1, ReaderStands DEF IInv, Types
<1>3. CASE cancelled' = cancelled
  <2>1. /\ AtOwner' <=> AtOwner
        /\ \A o : Visited(o)' <=> Visited(o)
        /\ \A o : Unfound(o)' <=> Unfound(o)
        /\ \A o : Excused(o)' <=> Excused(o)
        /\ \A e : KindOpen(e)' <=> KindOpen(e)
    BY <1>1 DEF lister, AtOwner, Visited, Unfound, Excused, KindOpen, Owner
  <2>2. Types' /\ Fresh' /\ WalkInOrder' /\ PackagesInOrder'
    BY <1>1, <1>3, <2>1 DEF lister, collection, IInv, Types, Fresh, WalkInOrder,
                            PackagesInOrder, Owner
  <2>3. EmptyKnown' /\ OutageOnRecord'
    BY <1>1, <1>3, <2>1 DEF lister, collection, IInv, EmptyKnown, OutageOnRecord, Owner
  <2>4. QED
    BY <2>2, <2>3 DEF IInv
<1>4. QED
  BY <1>1, <1>2, <1>3

-----------------------------------------------------------------------------
(* The reader's invariant: the walk of the listings.                       *)

\* The first page of a listing is empty only if the listing is; every page is
\* finite, so that the count it states says whether it is empty.
LEMMA PageCounts ==
  ASSUME NEW S, NEW l \in Seq(S), NEW p \in Nat \ {0}
  PROVE  /\ IsFiniteSet(PageOf(l, p))
         /\ Cardinality(PageOf(l, p)) = 0 <=> PageOf(l, p) = {}
         /\ PageOf(l, 1) = {} => Len(l) = 0
<1> DEFINE T == {l[i] : i \in 1..Len(l)}
<1>1. Len(l) \in Nat /\ l \in [1..Len(l) -> T]
  BY DEF T
<1>2. l \in Surjection(1..Len(l), T)
  BY <1>1 DEF Surjection
<1>3. IsFiniteSet(1..Len(l))
  <2>1. PICK m \in Int : m = Len(l)
    BY <1>1
  <2>2. QED
    BY <2>1, FS_Interval
<1>4. IsFiniteSet(T)
  BY <1>2, <1>3, FS_Surjection
<1>5. PageOf(l, p) \subseteq T
  BY DEF PageOf
<1>6. IsFiniteSet(PageOf(l, p))
  BY <1>4, <1>5, FS_Subset
<1>7. Cardinality(PageOf(l, p)) = 0 <=> PageOf(l, p) = {}
  BY <1>6, FS_EmptySet
<1>8. ASSUME 1 \in 1..Len(l) PROVE l[1] \in PageOf(l, 1)
  <2>1. (1 - 1) * PageSize = 0 /\ 1 * PageSize = PageSize /\ PageSize \in Nat \ {0}
    BY ListingAssumption
  <2>2. QED
    BY <1>8, <2>1, PageRows
<1>9. QED
  BY <1>1, <1>6, <1>7, <1>8

\* What a page the reader parsed may hold of the one GitHub served.
LEMMA PageRead ==
  ASSUME NEW p \in Pages
  PROVE  /\ p.rows \subseteq PageOf(listing[Owner], page)
         /\ p.stated # Unusable =>
              ~Profile /\ p.stated = Cardinality(PageOf(listing[Owner], page))
<1>1. CASE Profile
  BY <1>1 DEF Pages
<1>2. CASE ~Profile
  BY <1>2 DEF Pages
<1>3. QED
  BY <1>1, <1>2

LEMMA ReadPagePreserves == RInv /\ IInv /\ ReadPage => IInv'
<1> SUFFICES ASSUME RInv, IInv, ReadPage PROVE IInv'
  OBVIOUS
<1> DEFINE l == listing[Owner]
<1>1. /\ AtOwner /\ phase = "wildcards" /\ walk = "reading" /\ page \in Nat \ {0}
      /\ ~cancelled /\ ~NoSuchPage /\ page' = page + 1
      /\ UNCHANGED <<phase, cancelled, kind, turn, form, orgWalk, packages, reply, collection,
                     wasEmpty, registry>>
  BY Refs DEF ReadPage, Walking, AtOwner, IInv, Types
<1>2. PICK p \in Pages :
        /\ walk' = PageEnd(p)
        /\ names' = IF Miscounted(p) THEN names ELSE names \union Unseen(p)
        /\ faulty' = IF ~Profile /\ (PageEnd(p) = "format" \/ p.stated = Unusable)
                     THEN faulty \union {Owner} ELSE faulty
  BY DEF ReadPage
<1>3. Owner \in Owners /\ l \in Seq(Names \union Unsafe) /\ Len(l) \in Nat
  BY <1>1, OwnerIsNext DEF IInv, RInv, GoodRegistry, OwnListings
<1>4. \A n \in Unseen(p) : n \in Names /\ OwnerOf[n] = Owner
  <2>1. \A n \in p.rows : \E i \in 1..Len(l) : l[i] = n
    BY PageRead, PageRows
  <2>2. QED
    BY <1>3, <2>1, ListingHolds DEF Unseen, RInv, GoodRegistry
<1>5. faulty \subseteq faulty' /\ faulty' \subseteq Owners
  BY <1>2, <1>3 DEF IInv, Types
<1>6. /\ AtOwner' /\ Owner' = Owner
      /\ \A o : Visited(o)' <=> Visited(o)
      /\ Fresh' /\ PackagesInOrder' /\ OutageOnRecord'
      /\ \A o \in Owners : kind'[o] # "none" /\ Len(listing'[o]) = 0 => o \in wasEmpty'
      /\ \A n \in ToSet(packages)' : n \in Explicit[GHCR] \/ Visited(OwnerOf[n])'
      /\ \A o \in listed' : Visited(o)'
  BY <1>1, <1>5, WalkStepStands
<1>7. walk' \in {"reading", "end", "empty", "capped", "format"}
  BY <1>2 DEF PageEnd, LastPageEnd
<1>8. names' \subseteq Names /\ \A n \in names' : OwnerOf[n] = Owner
  BY <1>2, <1>4 DEF IInv, Types, WalkInOrder
<1>9. Types'
  BY <1>1, <1>5, <1>7, <1>8 DEF IInv, Types, collection
<1>10. walk' \in {"reading", "capped"} => names' # {}
  BY <1>2 DEF PageEnd, LastPageEnd
<1>11. WalkInOrder'
  BY <1>1, <1>6, <1>8, <1>10 DEF WalkInOrder
<1>12. ASSUME names' = {} PROVE names = {} /\ page = 1 /\ walk' \in {"empty", "end", "format"}
  BY <1>1, <1>2, <1>7, <1>10, <1>12 DEF IInv, WalkInOrder
<1>13. ASSUME walk' = "empty" PROVE Owner \in wasEmpty
  <2>1. names = {} /\ p.stated = 0 /\ page = 1
    BY <1>1, <1>2, <1>13 DEF PageEnd, LastPageEnd, IInv, WalkInOrder
  <2>2. ~Profile /\ Cardinality(PageOf(l, page)) = 0
    BY <2>1, PageRead DEF Unusable
  <2>3. Len(l) = 0
    BY <1>1, <1>3, <2>1, <2>2, PageCounts
  <2>4. kind[Owner] # "none"
    BY <1>1 DEF NoSuchPage
  <2>5. QED
    BY <1>1, <1>3, <2>3, <2>4 DEF IInv, EmptyKnown
<1>14. ASSUME names' = {}, ~Profile PROVE Excused(Owner)'
  <2>1. CASE walk' = "empty"
    BY <1>1, <1>6, <1>13, <2>1 DEF Excused
  <2>2. CASE walk' = "format"
    BY <1>2, <1>6, <1>14, <2>2 DEF Excused
  <2>3. CASE walk' = "end"
    <3>1. p.rows = {} /\ names = {} /\ ~Miscounted(p) /\ p.stated # 0
      BY <1>2, <1>12, <1>14, <2>3 DEF PageEnd, LastPageEnd
    <3>2. Cardinality(p.rows) = 0
      BY <3>1, FS_EmptySet
    <3>3. p.stated = Unusable
      BY <3>1, <3>2 DEF Miscounted
    <3>4. QED
      BY <1>2, <1>6, <1>14, <3>3 DEF Excused
  <2>4. QED
    BY <1>12, <1>14, <2>1, <2>2, <2>3
<1>15. EmptyKnown'
  <2>1. /\ kind' = kind /\ form' = form /\ orgWalk' = orgWalk /\ wasEmpty' = wasEmpty
        /\ cancelled' = cancelled
        /\ \A e : KindOpen(e)' <=> KindOpen(e)
        /\ Excused(Owner) => Excused(Owner)'
    BY <1>1, <1>5, <1>6 DEF KindOpen, Excused
  <2>2. ASSUME names' = {}, form = "user"
        PROVE  /\ Excused(Owner)' \/ KindOpen(orgWalk)'
               /\ Excused(Owner)'
    <3>1. Excused(Owner) \/ KindOpen(orgWalk)
      BY <1>1, <1>12, <2>2 DEF IInv, EmptyKnown
    <3>2. Profile => Excused(Owner)
      BY <3>1 DEF Profile, KindOpen
    <3>3. QED
      BY <1>14, <2>1, <2>2, <3>2
  <2>3. ASSUME names' = {}, form = "org" PROVE Excused(Owner)'
    BY <1>14, <2>3 DEF Profile
  <2>4. QED
    BY <1>6, <1>13, <2>1, <2>2, <2>3 DEF EmptyKnown
<1>16. QED
  BY <1>6, <1>9, <1>11, <1>15 DEF IInv

\* A walk that a 404 or a failure ends: only another form can excuse it.
LEMMA BrokenWalkPreserves ==
  ASSUME IInv, AtOwner, faulty \subseteq faulty', faulty' \subseteq Owners,
         walk' \in {"404", "failed"},
         UNCHANGED <<phase, cancelled, kind, turn, form, page, names, orgWalk, packages,
                     reply, collection, wasEmpty, registry>>,
         ~cancelled /\ form = "org" => Excused(Owner)' \/ KindOpen(walk'),
         ~cancelled /\ names = {} /\ form = "user" => Excused(Owner)'
  PROVE  IInv'
<1>1. /\ AtOwner' /\ Owner' = Owner
      /\ \A o : Visited(o)' <=> Visited(o)
      /\ Fresh' /\ PackagesInOrder' /\ OutageOnRecord'
      /\ \A o \in Owners : kind'[o] # "none" /\ Len(listing'[o]) = 0 => o \in wasEmpty'
      /\ \A n \in ToSet(packages)' : n \in Explicit[GHCR] \/ Visited(OwnerOf[n])'
      /\ \A o \in listed' : Visited(o)'
  BY WalkStepStands
<1>2. Types'
  BY DEF IInv, Types, collection
<1>3. WalkInOrder'
  BY <1>1 DEF IInv, WalkInOrder
<1>4. EmptyKnown'
  <2>1. KindOpen(walk)' <=> KindOpen(walk')
    BY <1>1 DEF KindOpen
  <2>2. QED
    BY <1>1, <2>1 DEF IInv, EmptyKnown
<1>5. QED
  BY <1>1, <1>2, <1>3, <1>4 DEF IInv

LEMMA NotFoundPreserves == IInv /\ NotFound => IInv'
<1> SUFFICES ASSUME IInv, NotFound PROVE IInv'
  OBVIOUS
<1>1. /\ AtOwner /\ walk' = "404" /\ NoSuchPage
      /\ faulty' = IF kind[Owner] = "none" THEN faulty \union {Owner} ELSE faulty
      /\ UNCHANGED <<phase, cancelled, kind, turn, form, page, names, orgWalk, packages,
                     reply, collection, wasEmpty, registry>>
  BY Refs DEF NotFound, Walking, AtOwner, IInv, Types
<1>2. Owner \in Owners /\ Owner' = Owner
  BY <1>1, OwnerIsNext DEF IInv, Owner
<1>3. faulty \subseteq faulty' /\ faulty' \subseteq Owners
  BY <1>1, <1>2 DEF IInv, Types
<1>4. kind[Owner] = "none" => Excused(Owner)'
  BY <1>1, <1>2 DEF Excused
<1>5. kind[Owner] = "none" \/ (form = "org" /\ kind[Owner] = "user")
  BY <1>1 DEF NoSuchPage
<1>6. QED
  BY <1>1, <1>3, <1>4, <1>5, BrokenWalkPreserves DEF KindOpen

LEMMA FailPagePreserves == IInv /\ FailPage => IInv'
<1> SUFFICES ASSUME IInv, FailPage PROVE IInv'
  OBVIOUS
<1>1. /\ AtOwner /\ walk' = "failed"
      /\ faulty' = IF ~cancelled /\ (form = kind[Owner] \/ kind[Owner] = "none")
                   THEN faulty \union {Owner} ELSE faulty
      /\ UNCHANGED <<phase, cancelled, kind, turn, form, page, names, orgWalk, packages,
                     reply, collection, wasEmpty, registry>>
  BY Refs DEF FailPage, Walking, AtOwner, IInv, Types
<1>2. Owner \in Owners /\ Owner' = Owner /\ kind[Owner] \in {"org", "user", "none"}
  BY <1>1, OwnerIsNext DEF IInv, Types, Owner, AccountKinds
<1>3. faulty \subseteq faulty' /\ faulty' \subseteq Owners
  BY <1>1, <1>2 DEF IInv, Types
<1>4. ~cancelled /\ (form = kind[Owner] \/ kind[Owner] = "none") => Excused(Owner)'
  BY <1>1, <1>2 DEF Excused
<1>5. ASSUME ~cancelled, form = "org" PROVE Excused(Owner)' \/ KindOpen(walk')
  BY <1>1, <1>2, <1>4, <1>5 DEF KindOpen
<1>6. ASSUME ~cancelled, names = {}, form = "user" PROVE Excused(Owner)'
  <2>1. Excused(Owner) \/ kind[Owner] = "user"
    BY <1>1, <1>6 DEF IInv, EmptyKnown, KindOpen
  <2>2. Excused(Owner) => Excused(Owner)'
    BY <1>1, <1>2, <1>3 DEF Excused
  <2>3. QED
    BY <1>4, <1>6, <2>1, <2>2
<1>7. QED
  BY <1>1, <1>3, <1>5, <1>6, BrokenWalkPreserves

LEMMA TryUserPreserves == IInv /\ TryUser => IInv'
<1> SUFFICES ASSUME IInv, TryUser PROVE IInv'
  OBVIOUS
<1>1. /\ AtOwner /\ form = "org" /\ names = {} /\ walk \notin {"empty", "reading"}
      /\ form' = "user" /\ orgWalk' = walk /\ page' = 1 /\ walk' = "reading"
      /\ UNCHANGED <<phase, cancelled, kind, turn, names, packages, reply, collection, faulty,
                     wasEmpty, registry>>
  BY Refs DEF TryUser, Ended, NotAnOrg, AtOwner, IInv, Types
<1>2. /\ AtOwner' /\ Owner' = Owner
      /\ \A o : Visited(o)' <=> Visited(o)
      /\ Fresh' /\ PackagesInOrder' /\ OutageOnRecord'
      /\ \A o \in Owners : kind'[o] # "none" /\ Len(listing'[o]) = 0 => o \in wasEmpty'
      /\ \A n \in ToSet(packages)' : n \in Explicit[GHCR] \/ Visited(OwnerOf[n])'
      /\ \A o \in listed' : Visited(o)'
  BY <1>1, WalkStepStands
<1>3. walk \in {"end", "404", "failed", "format"}
  BY <1>1 DEF IInv, Types, WalkInOrder
<1>4. Types'
  BY <1>1, <1>3 DEF IInv, Types, collection
<1>5. WalkInOrder'
  BY <1>1, <1>2 DEF IInv, WalkInOrder
<1>6. EmptyKnown'
  <2>1. /\ KindOpen(orgWalk)' <=> KindOpen(walk)
        /\ Excused(Owner)' <=> Excused(Owner)
    BY <1>1, <1>2 DEF KindOpen, Excused
  <2>2. QED
    BY <1>1, <1>2, <2>1 DEF IInv, EmptyKnown
<1>7. QED
  BY <1>2, <1>4, <1>5, <1>6 DEF IInv

\* appendPackages adds what is new, once, behind what is there.
LEMMA Joined ==
  ASSUME Types, NEW S, S \subseteq Names, packages' = packages \o NotIn(S, packages)
  PROVE  /\ packages' \in Seq(Names) /\ Len(packages) <= Len(packages')
         /\ \A i, j \in 1..Len(packages') : packages'[i] = packages'[j] => i = j
         /\ ToSet(packages') = ToSet(packages) \union S
<1>1. PICK t \in Seq(Names) : t = packages
  BY DEF Types
<1>2. PICK q : q = packages'
  OBVIOUS
<1>3. q = t \o NotIn(S, t) /\ \A i, j \in 1..Len(t) : t[i] = t[j] => i = j
  BY <1>1, <1>2 DEF Types
<1> DEFINE new == S \ ToSet(t)
           m == Cardinality(new)
           e == NotIn(S, t)
<1>4. IsFiniteSet(new) /\ m \in Nat
  <2>1. IsFiniteSet(new)
    BY FS_Subset, ContractAssumption
  <2>2. QED
    BY <2>1, FS_CardinalityType
<1>5. e \in [1..m -> new] /\ IsInjective(e)
  <2>1. \E f \in [1..m -> new] : IsInjective(f)
    BY <1>4, FS_CardinalityType DEF ExistsBijection, Bijection, Injection
  <2>2. e = CHOOSE f \in [1..m -> new] : IsInjective(f)
    BY DEF NotIn, SetToSeq
  <2>3. QED
    BY <2>1, <2>2
<1>6. e \in Surjection(1..m, new)
  <2>1. e \in Injection(1..m, new)
    BY <1>5 DEF Injection
  <2>2. Cardinality(1..m) = m
    BY <1>4, FS_Interval
  <2>3. QED
    BY <1>4, <2>1, <2>2, FS_Injection
<1> HIDE DEF m, e
<1>7. /\ e \in Seq(Names) /\ Len(e) = m
      /\ \A i \in 1..m : e[i] \in S /\ e[i] \notin ToSet(t)
      /\ \A i, j \in 1..m : e[i] = e[j] => i = j
      /\ \A x \in new : \E i \in 1..m : e[i] = x
  <2>1. DOMAIN e = 1..m /\ \A i \in 1..m : e[i] \in new
    BY <1>5
  <2>2. e \in Seq(Names) /\ Len(e) = m
    BY <1>4, <1>5, <2>1
  <2>3. QED
    BY <1>5, <1>6, <2>1, <2>2 DEF IsInjective, Surjection
<1>8. /\ q \in Seq(Names) /\ Len(q) = Len(t) + m
      /\ \A i \in 1..Len(t) + m : q[i] = IF i <= Len(t) THEN t[i] ELSE e[i - Len(t)]
  <2>1. q = t \o e
    BY <1>3 DEF e
  <2>2. t \in Seq(Names) /\ e \in Seq(Names) /\ Len(e) = m
    BY <1>7
  <2> HIDE DEF new
  <2>3. /\ t \o e \in Seq(Names) /\ Len(t \o e) = Len(t) + Len(e)
        /\ \A i \in 1..Len(t) + Len(e) :
              (t \o e)[i] = IF i <= Len(t) THEN t[i] ELSE e[i - Len(t)]
    BY <2>2, ConcatProperties
  <2>4. QED
    BY <2>1, <2>2, <2>3
<1>9. Len(t) \in Nat /\ \A x : x \in ToSet(t) <=> \E i \in 1..Len(t) : t[i] = x
  BY Elements
<1>10. ASSUME NEW i \in 1..Len(q), NEW j \in 1..Len(q), q[i] = q[j] PROVE i = j
  <2>1. CASE i <= Len(t) /\ j <= Len(t)
    <3>1. i \in 1..Len(t) /\ j \in 1..Len(t)
      BY <1>4, <1>8, <1>9, <2>1
    <3>2. t[i] = t[j]
      BY <1>8, <1>10, <2>1
    <3>3. QED
      BY <1>3, <3>1, <3>2
  <2>2. CASE ~(i <= Len(t)) /\ ~(j <= Len(t))
    <3>1. i - Len(t) \in 1..m /\ j - Len(t) \in 1..m
      BY <1>4, <1>8, <1>9, <2>2
    <3>2. i - Len(t) = j - Len(t)
      BY <1>7, <1>8, <1>10, <2>2, <3>1
    <3>3. QED
      BY <1>9, <3>2
  <2>3. ASSUME NEW a \in 1..Len(q), NEW b \in 1..Len(q), a <= Len(t), ~(b <= Len(t))
        PROVE  q[a] # q[b]
    <3>1. a \in 1..Len(t) /\ b - Len(t) \in 1..m
      BY <1>4, <1>8, <1>9, <2>3
    <3>2. q[a] = t[a] /\ q[b] = e[b - Len(t)]
      BY <1>8, <2>3
    <3>3. QED
      BY <1>7, <1>9, <1>3, <3>1, <3>2
  <2>4. QED
    BY <1>10, <2>1, <2>2, <2>3
<1>11. ToSet(q) = ToSet(t) \union S
  <2>0. q \in Seq(Names)
    BY <1>8
  <2>1. \A x : x \in ToSet(q) <=> \E i \in 1..Len(q) : q[i] = x
    BY <2>0, Elements
  <2>2. ASSUME NEW x \in ToSet(q) PROVE x \in ToSet(t) \union S
    <3>1. PICK i \in 1..Len(q) : q[i] = x
      BY <2>1, <2>2
    <3>2. CASE i <= Len(t)
      BY <1>8, <1>9, <3>1, <3>2
    <3>3. CASE ~(i <= Len(t))
      <4>1. i - Len(t) \in 1..m
        BY <1>4, <1>8, <1>9, <3>3
      <4>2. QED
        BY <1>7, <1>8, <3>1, <3>3, <4>1
    <3>4. QED
      BY <3>2, <3>3
  <2>3. ASSUME NEW x \in ToSet(t) PROVE x \in ToSet(q)
    <3>1. PICK i \in 1..Len(t) : t[i] = x
      BY <1>9, <2>3
    <3>2. i \in 1..Len(q) /\ q[i] = x
      BY <1>4, <1>8, <1>9, <3>1
    <3>3. QED
      BY <2>1, <3>2
  <2>4. ASSUME NEW x \in new PROVE x \in ToSet(q)
    <3>1. PICK i \in 1..m : e[i] = x
      BY <1>7
    <3>2. i + Len(t) \in 1..Len(q) /\ ~(i + Len(t) <= Len(t)) /\ (i + Len(t)) - Len(t) = i
      BY <1>4, <1>8, <1>9
    <3>3. q[i + Len(t)] = x
      BY <1>8, <3>1, <3>2
    <3>4. QED
      BY <2>1, <3>2, <3>3
  <2>5. QED
    BY <2>2, <2>3, <2>4
<1>12. Len(t) <= Len(q)
  BY <1>4, <1>8, <1>9
<1>13. \A i, j \in 1..Len(q) : q[i] = q[j] => i = j
  BY <1>10
<1>14. q \in Seq(Names)
  BY <1>8
<1>15. QED
  BY <1>11, <1>12, <1>13, <1>14, <1>1, <1>2

LEMMA ExpandPreserves == IInv /\ Expand => IInv'
<1> SUFFICES ASSUME IInv, Expand PROVE IInv'
  OBVIOUS
<1>1. PICK o \in Owners : o = Owner /\ ~Visited(o) /\ AtOwner
  BY OwnerIsNext, Refs DEF IInv, Expand, Ended, AtOwner, Types
<1>2. /\ phase = "wildcards" /\ turn \in Nat \ {0} /\ turn' = turn + 1 /\ ~NotAnOrg
      /\ form' = "org" /\ page' = 1 /\ names' = {} /\ walk' = "reading" /\ orgWalk' = "none"
      /\ walk # "reading"
      /\ packages' = IF Stopped THEN packages ELSE packages \o NotIn(names, packages)
      /\ listed' = IF ReadWhole /\ ~Stopped THEN listed \union {o} ELSE listed
      /\ listingFailed' = (listingFailed \/ WhollyFailed)
      /\ phase' = phase /\ cancelled' = cancelled /\ kind' = kind /\ end' = end
      /\ faulty' = faulty /\ wasEmpty' = wasEmpty /\ listing' = listing
  BY <1>1 DEF Expand, Ended, FreshLister, IInv, Types, registry
<1>3. \A q : Visited(q)' <=> Visited(q) \/ q = o
  BY <1>1, <1>2, Refs DEF Visited, AtOwner, Owner
<1>4. /\ packages' \in Seq(Names)
      /\ \A i, j \in 1..Len(packages') : packages'[i] = packages'[j] => i = j
      /\ ToSet(packages') = IF Stopped THEN ToSet(packages) ELSE ToSet(packages) \union names
  <2>1. CASE Stopped
    BY <1>2, <2>1 DEF IInv, Types
  <2>2. CASE ~Stopped
    BY <1>2, <2>2, Joined DEF IInv, Types
  <2>3. QED
    BY <2>1, <2>2
<1>5. \A n \in names : n \in Names /\ OwnerOf[n] = o
  BY <1>1 DEF IInv, Types, WalkInOrder
<1>6. Types' /\ Fresh'
  BY <1>2, <1>4 DEF IInv, Types, Fresh
<1>7. WalkInOrder'
  BY <1>2, <1>3, <1>4, <1>5 DEF IInv, WalkInOrder
<1>8. PackagesInOrder'
  BY <1>2, <1>4 DEF IInv, PackagesInOrder
<1>9. EmptyKnown'
  BY <1>2 DEF IInv, EmptyKnown
<1>10. /\ \A q : q # o => (Unfound(q)' <=> Unfound(q))
       /\ \A q : Excused(q)' <=> Excused(q)
       /\ Unfound(o) /\ o \notin listed
  <2>1. \A n \in ToSet(packages) : n \in Explicit[GHCR] \/ OwnerOf[n] # o
    BY <1>1 DEF IInv, WalkInOrder
  <2>2. o \notin listed
    BY <1>1 DEF IInv, WalkInOrder
  <2>3. QED
    BY <1>2, <1>4, <1>5, <2>1, <2>2 DEF Unfound, Excused
<1>11. ASSUME names = {}, ListingEnd \in {"end", "capped", "empty"} PROVE o \in wasEmpty
  <2>1. walk # "capped" /\ orgWalk \in {"none", "end", "404", "failed", "format"}
    BY <1>11 DEF IInv, WalkInOrder, Types
  <2>2. walk = "empty"
    BY <1>2, <1>11, <2>1 DEF ListingEnd, NotAnOrg
  <2>3. QED
    BY <1>1, <2>2 DEF IInv, EmptyKnown
<1>12. ASSUME listingFailed'
       PROVE  \E q \in Owners : Excused(q)' /\ q \notin listed' /\ Visited(q)' /\ Unfound(q)'
  <2>1. CASE listingFailed
    <3>1. PICK q \in Owners : Excused(q) /\ q \notin listed /\ Visited(q) /\ Unfound(q)
      BY <2>1 DEF IInv, OutageOnRecord
    <3>2. q # o
      BY <1>1, <3>1
    <3>3. QED
      BY <1>2, <1>3, <1>10, <3>1, <3>2
  <2>2. CASE WhollyFailed
    <3>1. names = {} /\ ~cancelled /\ ListingEnd \notin {"end", "capped", "empty"}
      BY <2>2 DEF WhollyFailed, Errored
    <3>2. form = "user"
      BY <1>2, <3>1 DEF NotAnOrg, ListingEnd, IInv, Types
    <3>3. Excused(o)
      BY <1>1, <1>2, <3>1, <3>2 DEF IInv, EmptyKnown
    <3>4. o \notin listed'
      BY <1>2, <1>10, <3>1 DEF ReadWhole
    <3>5. ToSet(packages') = ToSet(packages)
      BY <1>4, <3>1
    <3>6. Unfound(o)'
      BY <1>10, <3>5 DEF Unfound
    <3>7. QED
      BY <1>3, <1>10, <3>3, <3>4, <3>6
  <2>3. QED
    BY <1>2, <1>12, <2>1, <2>2
<1>13. ASSUME ~cancelled, ~listingFailed', NEW q \in Owners, Visited(q)', Unfound(q)'
       PROVE  q \in wasEmpty \/ \E n \in Explicit[GHCR] : OwnerOf[n] = q
  <2>1. ~listingFailed /\ ~WhollyFailed /\ ~Stopped
    BY <1>2, <1>13 DEF Stopped
  <2>2. CASE q # o
    BY <1>3, <1>10, <1>13, <2>1, <2>2 DEF IInv, OutageOnRecord
  <2>3. CASE q = o /\ names # {}
    <3>1. PICK n \in names : TRUE
      BY <2>3
    <3>2. n \in ToSet(packages') /\ OwnerOf[n] = q
      BY <1>4, <1>5, <2>1, <2>3, <3>1
    <3>3. QED
      BY <1>13, <3>2 DEF Unfound
  <2>4. CASE q = o /\ names = {}
    BY <1>11, <1>13, <2>1, <2>4 DEF WhollyFailed, Errored
  <2>5. QED
    BY <2>2, <2>3, <2>4
<1>14. OutageOnRecord'
  BY <1>2, <1>12, <1>13 DEF OutageOnRecord
<1>15. QED
  BY <1>6, <1>7, <1>8, <1>9, <1>14 DEF IInv

LEMMA EndWildcardsPreserves == IInv /\ EndWildcards => IInv'
<1> SUFFICES ASSUME IInv, EndWildcards PROVE IInv'
  OBVIOUS
<1>1. /\ phase = "wildcards" /\ ~AtOwner /\ ~AtOwner' /\ phase' = "packages" /\ turn' = 1
      /\ turn > Len(WildRefs) /\ turn \in Nat
      /\ packages' = packages \o NotIn(Explicit[GHCR], packages)
      /\ cancelled' = cancelled /\ kind' = kind /\ form' = form /\ page' = page
      /\ names' = names /\ walk' = walk /\ orgWalk' = orgWalk /\ end' = end
      /\ listed' = listed /\ listingFailed' = listingFailed /\ faulty' = faulty
      /\ wasEmpty' = wasEmpty /\ listing' = listing
  BY Refs DEF EndWildcards, AtOwner, IInv, Types, lister, collection, registry
<1>2. \A o : Visited(o)' <=> Visited(o)
  BY <1>1, Refs DEF Visited
<1>3. /\ packages' \in Seq(Names)
      /\ \A i, j \in 1..Len(packages') : packages'[i] = packages'[j] => i = j
      /\ ToSet(packages') = ToSet(packages) \union Explicit[GHCR]
  <2>1. Explicit[GHCR] \subseteq Names /\ Types
    BY Refs DEF IInv
  <2>2. QED
    BY <1>1, <2>1, Joined
<1>4. \A o : (Unfound(o)' <=> Unfound(o)) /\ (Excused(o)' <=> Excused(o))
  BY <1>1, <1>3 DEF Unfound, Excused
<1>5. Types' /\ Fresh'
  BY <1>1, <1>3 DEF IInv, Types, Fresh
<1>6. WalkInOrder'
  BY <1>1, <1>2, <1>3 DEF IInv, WalkInOrder
<1>7. PackagesInOrder'
  BY <1>1, <1>3 DEF IInv, PackagesInOrder
<1>8. EmptyKnown'
  BY <1>1 DEF IInv, EmptyKnown
<1>9. OutageOnRecord'
  BY <1>1, <1>2, <1>4 DEF IInv, OutageOnRecord
<1>10. QED
  BY <1>5, <1>6, <1>7, <1>8, <1>9 DEF IInv

-----------------------------------------------------------------------------
(* The reader's invariant: the scrapes.                                    *)

LEMMA ScrapePreserves == IInv /\ Scrape => IInv'
<1> SUFFICES ASSUME IInv, Scrape PROVE IInv'
  OBVIOUS
<1>1. /\ phase = "packages" /\ phase' = "answered" /\ turn <= Len(packages)
      /\ reply' \in {"entry", "404", "error"}
      /\ UNCHANGED <<cancelled, kind, turn, lister, packages, end, listed, listingFailed,
                     faulty, wasEmpty, registry>>
  BY DEF Scrape, collection
<1>2. Fresh' /\ WalkInOrder' /\ EmptyKnown' /\ OutageOnRecord'
  BY <1>1, ScrapeStepStands
<1>3. Types'
  BY <1>1 DEF IInv, Types, lister
<1>4. PackagesInOrder'
  BY <1>1 DEF IInv, PackagesInOrder
<1>5. QED
  BY <1>2, <1>3, <1>4 DEF IInv

LEMMA SortPreserves == IInv /\ Sort => IInv'
<1> SUFFICES ASSUME IInv, Sort PROVE IInv'
  OBVIOUS
<1>1. /\ phase = "answered" /\ phase' = IF Interrupted THEN "done" ELSE "packages"
      /\ end' = IF Interrupted THEN end ELSE [end EXCEPT ![Package] = Outcome]
      /\ turn' = turn + 1 /\ turn \in 1..Len(packages) /\ reply \in {"entry", "404", "error"}
      /\ UNCHANGED <<cancelled, kind, lister, packages, listed, listingFailed,
                     faulty, wasEmpty, registry>>
  BY DEF Sort, IInv, Types, PackagesInOrder
<1>2. Fresh' /\ WalkInOrder' /\ EmptyKnown' /\ OutageOnRecord'
  BY <1>1, ScrapeStepStands
<1>3. Package \in Names /\ Package \in ToSet(packages)
  <2>1. packages \in Seq(Names)
    BY DEF IInv, Types
  <2>2. QED
    BY <1>1, <2>1, Elements DEF Package
<1>4. Outcome \in {"read", "absent", "unread"} /\ end \in [Names -> Ends]
  BY DEF Outcome, IInv, Types
<1>5. /\ end' \in [Names -> Ends]
      /\ \A n \in Names : end'[n] = end[n] \/ (n = Package /\ end'[n] = Outcome)
      /\ ~Interrupted => end'[Package] = Outcome
  BY <1>1, <1>3, <1>4 DEF Ends
<1>6. Types'
  BY <1>1, <1>5 DEF IInv, Types, lister
<1>7. PackagesInOrder'
  <2>1. /\ phase' # "answered" /\ phase' \notin {"idle", "wildcards"}
        /\ packages' = packages /\ cancelled' = cancelled
    BY <1>1
  <2>2. Explicit[GHCR] \subseteq ToSet(packages)
    BY <1>1 DEF IInv, PackagesInOrder
  <2>3. ASSUME phase' = "packages", NEW i \in 1..Len(packages), i < turn'
        PROVE  end'[packages[i]] # "none"
    <3>1. ~Interrupted
      BY <1>1, <2>3
    <3>2. packages[i] \in Names
      BY DEF IInv, Types
    <3>3. CASE i < turn
      <4>1. end[packages[i]] # "none"
        BY <1>1, <3>3 DEF IInv, PackagesInOrder
      <4>2. QED
        BY <1>4, <1>5, <3>2, <4>1
    <3>4. CASE i = turn
      BY <1>4, <1>5, <3>1, <3>4 DEF Package
    <3>5. QED
      BY <1>1, <2>3, <3>3, <3>4
  <2>4. phase' = "done" => cancelled
    BY <1>1 DEF Interrupted
  <2>5. \A n \in Names : /\ end'[n] # "none" => n \in ToSet(packages)
                         /\ end'[n] # "row"
    BY <1>3, <1>4, <1>5 DEF IInv, PackagesInOrder
  <2>6. QED
    BY <2>1, <2>2, <2>3, <2>4, <2>5 DEF PackagesInOrder
<1>8. QED
  BY <1>2, <1>6, <1>7 DEF IInv

LEMMA ReturnPreserves == IInv /\ Return => IInv'
<1> SUFFICES ASSUME IInv, Return PROVE IInv'
  OBVIOUS
<1>1. /\ phase = "packages" /\ phase' = "done" /\ (turn > Len(packages) \/ cancelled)
      /\ UNCHANGED <<cancelled, kind, turn, lister, packages, reply, end, listed,
                     listingFailed, faulty, wasEmpty, registry>>
  BY DEF Return, collection
<1>2. Fresh' /\ WalkInOrder' /\ EmptyKnown' /\ OutageOnRecord'
  BY <1>1, ScrapeStepStands
<1>3. Types'
  BY <1>1 DEF IInv, Types, lister
<1>4. ASSUME ~cancelled, NEW n \in ToSet(packages) PROVE end[n] # "none"
  <2>1. packages \in Seq(Names) /\ turn \in Nat
    BY DEF IInv, Types
  <2>2. PICK i \in 1..Len(packages) : packages[i] = n
    BY <2>1, Elements
  <2>3. i < turn
    BY <1>1, <1>4, <2>1, <2>2
  <2>4. QED
    BY <1>1, <2>2, <2>3 DEF IInv, PackagesInOrder
<1>5. PackagesInOrder'
  BY <1>1, <1>4 DEF IInv, PackagesInOrder
<1>6. QED
  BY <1>2, <1>3, <1>5 DEF IInv

LEMMA StepPreservesIInv == RInv /\ RInv' /\ IInv /\ [Next]_vars => IInv'
  BY StartPreserves, ReadPagePreserves, NotFoundPreserves, FailPagePreserves, TryUserPreserves,
     ExpandPreserves, EndWildcardsPreserves, ScrapePreserves, SortPreserves, ReturnPreserves,
     ChurnPreserves, CancelPreserves DEF Next, Done

LEMMA InvariantIInv == Spec => []IInv
  BY InitIInv, StepPreservesIInv, InvariantRInv, PTL DEF Spec

-----------------------------------------------------------------------------
(* The bounds of the counters.                                             *)

\* The flags stay flags.
LEMMA FlagsStay ==
  ASSUME Bounds, Next \/ UNCHANGED vars
  PROVE  /\ cancelled' \in BOOLEAN /\ kind' \in Kinds
         /\ refused' \in BOOLEAN /\ unchecked' \in BOOLEAN /\ listingFailed' \in BOOLEAN
<1>1. kind' = kind /\ (cancelled' = cancelled \/ cancelled' = TRUE)
  BY DEF Next, Start, ReadPage, NotFound, FailPage, TryUser, Expand, EndWildcards, Scrape,
         Sort, Return, Delist, Enlist, Cancel, Done, vars
<1>2. listingFailed' = listingFailed \/ listingFailed' = (listingFailed \/ WhollyFailed)
  BY DEF Next, Start, ReadPage, NotFound, FailPage, TryUser, Expand, EndWildcards, Scrape,
         Sort, Return, Delist, Enlist, Cancel, Done, vars, collection
<1>3. /\ \/ refused' = refused \/ refused' = FALSE
         \/ \E p \in Pages : refused' = (refused \/ RefusedOn(p))
      /\ \/ unchecked' = unchecked \/ unchecked' = FALSE
         \/ \E p \in Pages : unchecked' = (unchecked \/ p.stated = Unusable)
  BY DEF Next, Start, ReadPage, NotFound, FailPage, TryUser, Expand, EndWildcards, Scrape,
         Sort, Return, Delist, Enlist, Cancel, Done, vars, lister, FreshLister
<1>4. cancelled' \in BOOLEAN
  BY <1>1 DEF Bounds
<1>5. listingFailed' \in BOOLEAN
  BY <1>2 DEF Bounds
<1>6. refused' \in BOOLEAN
  BY <1>3 DEF Bounds
<1>7. unchecked' \in BOOLEAN
  BY <1>3 DEF Bounds
<1>8. QED
  BY <1>1, <1>4, <1>5, <1>6, <1>7 DEF Bounds

LEMMA InvariantBounds == Spec => []Bounds
<1>1. MaxListingPages \in Nat \ {0} /\ Len(WildRefs) \in Nat
  BY GhcrAssumption, Refs
<1>2. Init => Bounds
  <2> SUFFICES ASSUME Init PROVE Bounds
    OBVIOUS
  <2>1. cancelled \in BOOLEAN /\ refused \in BOOLEAN /\ unchecked \in BOOLEAN
    BY DEF Init
  <2>2. listingFailed \in BOOLEAN
    BY DEF Init
  <2>3. QED
    BY <1>1, <2>1, <2>2 DEF Init, Bounds
<1>3. IInv /\ IInv' /\ Bounds /\ [Next]_vars => Bounds'
  <2> SUFFICES ASSUME IInv, IInv', Bounds, [Next]_vars PROVE Bounds'
    OBVIOUS
  <2> DEFINE Counters ==
        /\ reply \in {"none", "entry", "404", "error"}
        /\ page <= MaxListingPages + 1 /\ (walk = "reading" => page <= MaxListingPages)
        /\ turn <= 1 + IF phase \in {"idle", "wildcards"} THEN Len(WildRefs) ELSE Len(packages)
  <2>1. /\ turn \in Nat \ {0} /\ page \in Nat \ {0}
        /\ phase = "answered" => turn <= Len(packages)
    BY DEF IInv, Types, PackagesInOrder
  <2>2. Counters
    BY DEF Bounds
  <2>3. CASE ReadPage
    <3>1. PICK p \in Pages : walk' = PageEnd(p)
      BY <2>3 DEF ReadPage
    <3>2. page <= MaxListingPages /\ page' = page + 1
      BY <2>2, <2>3 DEF ReadPage, Walking
    <3>3. walk' = "reading" => page # MaxListingPages
      BY <3>1 DEF PageEnd, LastPageEnd
    <3>4. Counters'
      BY <1>1, <2>1, <2>2, <2>3, <3>2, <3>3 DEF ReadPage
    <3>5. QED
      BY <3>4, FlagsStay DEF Bounds
  <2>4. CASE Start \/ NotFound \/ FailPage \/ TryUser
    <3>1. Counters'
      BY <1>1, <2>1, <2>2, <2>4 DEF Start, NotFound, FailPage, Walking, TryUser, lister
    <3>2. QED
      BY <2>4, <3>1, FlagsStay DEF Bounds, Next
  <2>5. CASE Expand \/ EndWildcards
    <3>1. Len(packages') \in Nat
      <4>1. packages' \in Seq(Names)
        BY DEF IInv, Types
      <4>2. QED
        BY <4>1
    <3>2. Counters'
      BY <1>1, <2>1, <2>2, <2>5, <3>1 DEF Expand, Ended, EndWildcards, FreshLister, lister
    <3>3. QED
      BY <2>5, <3>2, FlagsStay DEF Bounds, Next
  <2>6. CASE Scrape \/ Sort \/ Return
    <3>1. Counters'
      BY <2>1, <2>2, <2>6 DEF Scrape, Sort, Return, lister
    <3>2. QED
      BY <2>6, <3>1, FlagsStay DEF Bounds, Next
  <2>7. CASE Delist \/ Enlist \/ Cancel \/ UNCHANGED vars
    <3>1. Counters'
      BY <2>2, <2>7 DEF Delist, Enlist, Cancel, vars, lister
    <3>2. QED
      BY <2>7, <3>1, FlagsStay DEF Bounds, Next
  <2>8. QED
    BY <2>3, <2>4, <2>5, <2>6, <2>7 DEF Next, Done
<1>4. QED
  BY <1>2, <1>3, InvariantIInv, PTL DEF Spec

-----------------------------------------------------------------------------
(* The invariant of a GitHub that stands still.                            *)

LEMMA InvariantStandingStill == Spec => []StandingStill
<1>1. Init => StandingStill
  BY DEF Init, StandingStill
<1>2. RInv /\ RInv' /\ IInv /\ StandingStill /\ [Next]_vars => StandingStill'
  <2> SUFFICES ASSUME RInv, RInv', IInv, StandingStill, [Next]_vars, phase' # "idle", churn' = 0
               PROVE  StandingStill'
    BY DEF StandingStill
  <2> USE DEF lister, collection, registry
  <2>1. ~Delist /\ ~Enlist
    <3>1. churn + 1 # 0
      BY DEF RInv, GoodRegistry
    <3>2. QED
      BY <3>1 DEF Delist, Enlist, Withdraw, Appear
  <2>2. CASE Start
    <3>1. /\ phase' = "wildcards" /\ names' = {} /\ packages' = <<>>
          /\ \A n \in Names : end'[n] = "none"
      BY <2>2 DEF Start, IInv, Fresh
    <3>2. ToSet(packages') = {}
      BY <3>1 DEF ToSet
    <3>3. QED
      BY <3>1, <3>2 DEF StandingStill
  <2>3. CASE UNCHANGED registry /\ phase # "idle"
    <3>1. /\ \A n \in names : Exists(n)
          /\ \A n \in ToSet(packages) : n \in Explicit[GHCR] \/ Exists(n)
          /\ \A n \in Names : /\ end[n] = "read" => Exists(n)
                              /\ end[n] = "absent" => ~Exists(n)
          /\ phase = "answered" =>
                (reply = "entry" => Exists(Package)) /\ (reply = "404" => ~Exists(Package))
      BY <2>3 DEF StandingStill
    <3>2. \A n : Exists(n)' <=> Exists(n)
      BY <2>3 DEF Exists, Held
    <3>3. CASE ReadPage
      <4>1. PICK p \in Pages : names' = IF Miscounted(p) THEN names ELSE names \union Unseen(p)
        BY <3>3 DEF ReadPage
      <4>2. Owner \in Owners /\ GoodRegistry
        BY <3>3, OwnerIsNext, Refs DEF IInv, Types, ReadPage, Walking, AtOwner, RInv
      <4>3. \A n \in p.rows : \E i \in 1..Len(listing[Owner]) : listing[Owner][i] = n
        BY PageRead, PageRows
      <4>4. \A n \in Unseen(p) : Exists(n)
        BY <4>2, <4>3, ListingHolds DEF Unseen, GoodRegistry
      <4>5. \A n \in names' : Exists(n)
        BY <3>1, <4>1, <4>4
      <4>6. /\ end' = end /\ packages' = packages /\ phase' = "wildcards"
        BY <3>3 DEF ReadPage, Walking
      <4>7. QED
        BY <3>1, <3>2, <4>5, <4>6 DEF StandingStill
    <3>4. CASE NotFound \/ FailPage \/ TryUser
      <4>1. names' = names /\ end' = end /\ packages' = packages /\ phase' = "wildcards"
        BY <3>4 DEF NotFound, FailPage, Walking, TryUser, Ended
      <4>2. QED
        BY <3>1, <3>2, <4>1 DEF StandingStill
    <3>5. CASE Expand
      <4>1. /\ names' = {} /\ end' = end /\ phase' = "wildcards"
            /\ packages' = IF Stopped THEN packages ELSE packages \o NotIn(names, packages)
        BY <3>5 DEF Expand, Ended, FreshLister
      <4>2. ToSet(packages') \subseteq ToSet(packages) \union names
        <5>1. CASE Stopped
          BY <4>1, <5>1
        <5>2. CASE ~Stopped
          BY <4>1, <5>2, Joined DEF IInv, Types
        <5>3. QED
          BY <5>1, <5>2
      <4>3. QED
        BY <3>1, <3>2, <4>1, <4>2 DEF StandingStill
    <3>6. CASE EndWildcards
      <4>1. /\ names' = names /\ end' = end /\ phase' = "packages"
            /\ packages' = packages \o NotIn(Explicit[GHCR], packages)
        BY <3>6 DEF EndWildcards
      <4>2. Explicit[GHCR] \subseteq Names /\ Types
        BY Refs DEF IInv
      <4>3. ToSet(packages') = ToSet(packages) \union Explicit[GHCR]
        BY <4>1, <4>2, Joined
      <4>4. QED
        BY <3>1, <3>2, <4>1, <4>3 DEF StandingStill
    <3>7. CASE Scrape
      <4>1. /\ names' = names /\ end' = end /\ packages' = packages /\ Package' = Package
            /\ reply' \in {IF Exists(Package) THEN "entry" ELSE "404", "error"}
        BY <3>7 DEF Scrape, Package
      <4>2. /\ reply' = "entry" => Exists(Package)
            /\ reply' = "404" => ~Exists(Package)
        BY <4>1
      <4>3. QED
        BY <3>1, <3>2, <4>1, <4>2 DEF StandingStill
    <3>8. CASE Sort
      <4>1. /\ names' = names /\ packages' = packages /\ phase = "answered" /\ phase' # "answered"
            /\ end' = IF Interrupted THEN end ELSE [end EXCEPT ![Package] = Outcome]
        BY <3>8 DEF Sort
      <4>2. /\ Outcome = "read" => Exists(Package)
            /\ Outcome = "absent" => ~Exists(Package)
        BY <3>1, <4>1 DEF Outcome
      <4>3. \A n \in Names : end'[n] = end[n] \/ (n = Package /\ end'[n] = Outcome)
        BY <4>1 DEF IInv, Types
      <4>4. \A n \in Names : /\ end'[n] = "read" => Exists(n)
                             /\ end'[n] = "absent" => ~Exists(n)
        BY <3>1, <4>2, <4>3
      <4>5. QED
        BY <3>1, <3>2, <4>1, <4>4 DEF StandingStill
    <3>9. CASE Return \/ Cancel \/ UNCHANGED vars
      <4>1. /\ names' = names /\ end' = end /\ packages' = packages
            /\ phase' = "answered" => phase = "answered" /\ reply' = reply /\ turn' = turn
        BY <3>9 DEF Return, Cancel, vars
      <4>2. phase' = "answered" => Package' = Package
        BY <4>1 DEF Package
      <4>3. QED
        BY <3>1, <3>2, <4>1, <4>2 DEF StandingStill
    <3>10. QED
      BY <2>1, <2>3, <3>3, <3>4, <3>5, <3>6, <3>7, <3>8, <3>9 DEF Next, Start, Done
  <2>4. QED
    BY <2>1, <2>2, <2>3 DEF Next, ReadPage, NotFound, FailPage, TryUser, Expand, EndWildcards,
         Scrape, Sort, Return, Cancel, Done, vars, Walking, Ended, Running
<1>3. QED
  BY <1>1, <1>2, InvariantRInv, InvariantIInv, PTL DEF Spec

-----------------------------------------------------------------------------
(* The invariant of the loss.                                              *)

\* What a listed owner lacks stays within its removals while packages are
\* added or gone for good.
LEMMA ListedStand ==
  ASSUME RInv, RInv', LossInv, Types, listed' = listed, gone \subseteq gone',
         ToSet(packages) \subseteq ToSet(packages'),
         \A o \in Owners : removals[o] <= removals'[o]
  PROVE  \A o \in listed' : Cardinality(Lacking(o, ToSet(packages))') <= removals'[o]
<1> SUFFICES ASSUME NEW o \in listed
             PROVE  Cardinality(Lacking(o, ToSet(packages))') <= removals'[o]
  OBVIOUS
<1>1. o \in Owners /\ removals[o] \in Nat /\ removals'[o] \in Nat
  BY DEF Types, RInv, GoodRegistry
<1>2. /\ Lacking(o, ToSet(packages)) \subseteq Names
      /\ Lacking(o, ToSet(packages))' \subseteq Lacking(o, ToSet(packages))
  BY DEF Lacking
<1>3. Cardinality(Lacking(o, ToSet(packages))) <= removals[o]
  BY DEF LossInv
<1>4. QED
  BY <1>1, <1>2, <1>3, StillBounded

\* Before its first page a walk has passed nothing.
LEMMA NothingPassedYet ==
  ASSUME RInv', AtOwner', page' = 1
  PROVE  Cardinality(Passed') <= removals'[Owner']
<1>1. (page' - 1) * PageSize = 0
  BY ListingAssumption
<1>2. Passed' = {}
  BY <1>1 DEF Passed, Behind
<1>3. Cardinality(Passed') = 0
  BY <1>2, FS_EmptySet
<1>4. removals'[Owner'] \in Nat
  BY Refs DEF AtOwner, Owner, RInv, GoodRegistry
<1>5. QED
  BY <1>3, <1>4

\* A page whose links are as many as it states was read whole.
LEMMA CountedPageIsWhole ==
  ASSUME NEW S, listing[Owner] \in Seq(S), page \in Nat \ {0},
         NEW p \in Pages, p.stated # Unusable, ~Miscounted(p)
  PROVE  p.rows = PageOf(listing[Owner], page)
<1>1. PICK shown : shown = PageOf(listing[Owner], page)
  OBVIOUS
<1>2. p.rows \subseteq shown /\ p.stated = Cardinality(shown)
  BY <1>1, PageRead
<1>3. IsFiniteSet(shown)
  BY <1>1, PageCounts
<1>4. Cardinality(p.rows) = Cardinality(shown)
  BY <1>2 DEF Miscounted
<1>5. QED
  BY <1>1, <1>2, <1>3, <1>4, FS_Subset

LEMMA ReadPageBoundsLoss ==
  ASSUME RInv, IInv, LossInv, ReadPage, ~unchecked'
  PROVE  /\ walk' = "reading" => Cardinality(Passed') <= removals[Owner]
         /\ walk' \in {"end", "empty"} => Cardinality(Lacking(Owner, names)') <= removals[Owner]
<1> DEFINE l == listing[Owner]
<1>1. /\ AtOwner /\ walk = "reading" /\ page \in Nat \ {0} /\ page' = page + 1
      /\ gone' = gone /\ listing' = listing /\ Owner' = Owner
  BY Refs DEF ReadPage, Walking, AtOwner, IInv, Types, registry, Owner
<1>2. PICK p \in Pages :
        /\ walk' = PageEnd(p)
        /\ names' = IF Miscounted(p) THEN names ELSE names \union Unseen(p)
        /\ unchecked' = (unchecked \/ p.stated = Unusable)
  BY DEF ReadPage
<1>3. /\ Owner \in Owners /\ Len(l) \in Nat /\ removals[Owner] \in Nat
      /\ l \in Seq(Names \union Unsafe)
  BY <1>1, OwnerIsNext DEF IInv, RInv, GoodRegistry, OwnListings
<1>4. ~unchecked /\ p.stated # Unusable
  BY <1>2
<1> SUFFICES ASSUME walk' \in {"reading", "end", "empty"}
             PROVE  /\ walk' = "reading" => Cardinality(Passed') <= removals[Owner]
                    /\ walk' \in {"end", "empty"} =>
                         Cardinality(Lacking(Owner, names)') <= removals[Owner]
  OBVIOUS
<1>5. ~Miscounted(p) /\ names' = names \union Unseen(p)
  BY <1>2 DEF PageEnd
<1>6. p.rows = PageOf(l, page)
  BY <1>1, <1>3, <1>4, <1>5, CountedPageIsWhole
<1>7. ASSUME NEW i \in 1..Len(l), i <= page * PageSize, l[i] \in Names \ gone, l[i] \notin names'
      PROVE  l[i] \in Passed
  <2>1. l[i] \notin PageOf(l, page) /\ l[i] \notin names
    BY <1>5, <1>6, <1>7, ListingAssumption DEF Unseen
  <2>2. (page - 1) * PageSize \in Nat
    BY <1>1, PageBounds
  <2>3. ~((page - 1) * PageSize < i)
    BY <1>7, <2>1, PageRows
  <2>4. i <= (page - 1) * PageSize
    BY <2>2, <2>3
  <2>5. QED
    BY <1>7, <2>1, <2>4 DEF Passed, Behind
<1>8. (page' - 1) * PageSize = page * PageSize /\ page * PageSize \in Nat
  BY <1>1, PageBounds
<1>9. Passed' \subseteq Passed
  BY <1>1, <1>7, <1>8 DEF Passed, Behind
<1>10. ASSUME walk' \in {"end", "empty"} PROVE Lacking(Owner, names)' \subseteq Passed
  <2>1. PageOf(l, page) = {}
    BY <1>2, <1>6, <1>10 DEF PageEnd, LastPageEnd
  <2>2. PICK k \in Nat : k = (page - 1) * PageSize /\ k + PageSize = page * PageSize
    BY <1>1, PageBounds
  <2>3. Len(l) <= page * PageSize
    <3>1. CASE k + 1 \in 1..Len(l)
      <4>1. (page - 1) * PageSize < k + 1 /\ k + 1 <= page * PageSize
        BY <2>2, ListingAssumption
      <4>2. QED
        BY <2>1, <3>1, <4>1, PageRows
    <3>2. CASE ~(k + 1 \in 1..Len(l))
      BY <1>3, <2>2, <3>2, ListingAssumption
    <3>3. QED
      BY <3>1, <3>2
  <2>4. ASSUME NEW n \in Lacking(Owner, names)' PROVE n \in Passed
    <3>1. n \in Names \ gone /\ OwnerOf[n] = Owner /\ n \notin names'
      BY <1>1, <2>4 DEF Lacking
    <3>2. PICK i \in 1..Len(l) : l[i] = n
      BY <1>1, <1>3, <3>1, ListingHolds DEF RInv, GoneKnows, GoodRegistry, AtOwner
    <3>3. i <= page * PageSize
      BY <1>3, <1>8, <2>3
    <3>4. QED
      BY <1>7, <3>1, <3>2, <3>3
  <2>5. QED
    BY <2>4
<1>11. Passed \subseteq Names /\ Cardinality(Passed) <= removals[Owner]
  BY <1>1, <1>4 DEF LossInv, Passed
<1>12. Cardinality(Passed') <= removals[Owner]
  BY <1>3, <1>9, <1>11, StillBounded
<1>13. QED
  BY <1>3, <1>10, <1>11, <1>12, StillBounded

LEMMA ChurnBoundsLoss ==
  ASSUME RInv, RInv', IInv, LossInv, Delist \/ Enlist
  PROVE  LossInv'
<1>1. /\ phase # "idle" /\ phase' = phase /\ turn' = turn /\ page' = page /\ names' = names
      /\ unchecked' = unchecked /\ walk' = walk /\ packages' = packages /\ listed' = listed
      /\ (AtOwner' <=> AtOwner) /\ Owner' = Owner
  BY DEF Delist, Enlist, Running, AtOwner, Owner, lister, collection
<1>2. GoodRegistry /\ GoneKnows
  BY <1>1 DEF RInv
<1>3. /\ gone \subseteq gone'
      /\ \A o \in Owners : removals[o] \in Nat /\ removals'[o] \in Nat /\ removals[o] <= removals'[o]
  <2>1. CASE Delist
    BY <1>2, <2>1, WithdrawKeepsRegistry DEF Delist, GoodRegistry
  <2>2. CASE Enlist
    BY <1>2, <2>2, AppearKeepsRegistry DEF Enlist, GoodRegistry
  <2>3. QED
    BY <2>1, <2>2
<1>4. \A o \in listed' : Cardinality(Lacking(o, ToSet(packages))') <= removals'[o]
  BY <1>1, <1>3, ListedStand DEF IInv
<1>5. ASSUME AtOwner, ~unchecked, walk = "reading" PROVE Cardinality(Passed') <= removals'[Owner]
  <2>1. PICK w \in Owners : w = Owner
    BY <1>5, OwnerIsNext DEF IInv
  <2>2. PICK k \in Nat : k = (page - 1) * PageSize
    BY PageBounds DEF IInv, Types
  <2>3. /\ Passed = {n \in Names \ gone : n \notin names /\ n \in Behind(w, k)}
        /\ Passed' = {n \in Names \ gone' : n \notin names /\ n \in Behind(w, k)'}
    BY <1>1, <2>1, <2>2 DEF Passed, Behind
  <2>4. Cardinality(Passed) <= removals[w] /\ Passed \subseteq Names
    BY <1>5, <2>1 DEF LossInv, Passed
  <2>5. CASE Delist
    <3>1. PICK o \in Owners : Withdraw(o)
      BY <2>5 DEF Delist
    <3>2. /\ removals' = [removals EXCEPT ![o] = @ + 1]
          /\ \A p \in Owners : p # o => listing'[p] = listing[p]
          /\ \E x : Behind(o, k)' \subseteq Behind(o, k) \union {x}
      BY <1>2, <3>1, WithdrawKeepsRegistry
    <3>3. CASE o = w
      <4>1. PICK x : Behind(w, k)' \subseteq Behind(w, k) \union {x}
        BY <3>2, <3>3
      <4>2. Passed' \subseteq Passed \union {x}
        BY <1>3, <2>3, <4>1
      <4>3. removals'[w] = removals[w] + 1
        BY <3>2, <3>3 DEF GoodRegistry, RInv
      <4>4. QED
        BY <1>3, <2>1, <2>4, <4>2, <4>3, OneMore
    <3>4. CASE o # w
      <4>1. Behind(w, k)' = Behind(w, k)
        BY <3>2, <3>4 DEF Behind
      <4>2. Passed' \subseteq Passed
        BY <1>3, <2>3, <4>1
      <4>3. QED
        BY <1>3, <2>1, <2>4, <4>2, StillBounded
    <3>5. QED
      BY <3>3, <3>4
  <2>6. CASE Enlist
    <3>1. PICK n \in Names : Appear(n)
      BY <2>6 DEF Enlist
    <3>2. n \in gone /\ Behind(w, k)' \subseteq Behind(w, k) \union {n}
      BY <1>2, <3>1, AppearKeepsRegistry
    <3>3. Passed' \subseteq Passed
      BY <1>3, <2>3, <3>2
    <3>4. QED
      BY <1>3, <2>1, <2>4, <3>3, StillBounded
  <2>7. QED
    BY <2>5, <2>6
<1>6. ASSUME AtOwner, ~unchecked, walk \in {"end", "empty"}
      PROVE  Cardinality(Lacking(Owner, names)') <= removals'[Owner]
  <2>1. Owner \in Owners
    BY <1>6, OwnerIsNext DEF IInv
  <2>2. Lacking(Owner, names)' \subseteq Lacking(Owner, names) /\ Lacking(Owner, names) \subseteq Names
    BY <1>1, <1>3 DEF Lacking
  <2>3. Cardinality(Lacking(Owner, names)) <= removals[Owner]
    BY <1>6 DEF LossInv
  <2>4. QED
    BY <1>3, <2>1, <2>2, <2>3, StillBounded
<1>7. QED
  BY <1>1, <1>4, <1>5, <1>6 DEF LossInv

\* What ends a listing as read whole is the end of the walk at hand.
LEMMA WholeWalk ==
  ASSUME Types, ReadWhole
  PROVE  walk \in {"end", "empty"} /\ ~unchecked
  BY DEF Types, ReadWhole, ListingEnd

LEMMA ExpandBoundsLoss ==
  ASSUME RInv, IInv, LossInv, Expand, NEW o \in listed'
  PROVE  Cardinality(Lacking(o, ToSet(packages))') <= removals[o]
<1>1. /\ AtOwner /\ gone' = gone
      /\ packages' = IF Stopped THEN packages ELSE packages \o NotIn(names, packages)
      /\ listed' = IF ReadWhole /\ ~Stopped THEN listed \union {Owner} ELSE listed
  BY Refs DEF Expand, Ended, AtOwner, IInv, Types, registry
<1>2. Owner \in Owners
  BY <1>1, OwnerIsNext DEF IInv
<1>3. o \in Owners /\ removals[o] \in Nat
  BY <1>1, <1>2 DEF IInv, Types, RInv, GoodRegistry
<1>4. ~Stopped => ToSet(packages') = ToSet(packages) \union names
  BY <1>1, Joined DEF IInv, Types
<1>5. CASE o \in listed
  <2>1. /\ Lacking(o, ToSet(packages))' \subseteq Lacking(o, ToSet(packages))
        /\ Lacking(o, ToSet(packages)) \subseteq Names
    BY <1>1, <1>4 DEF Lacking
  <2>2. Cardinality(Lacking(o, ToSet(packages))) <= removals[o]
    BY <1>5 DEF LossInv
  <2>3. QED
    BY <1>3, <2>1, <2>2, StillBounded
<1>6. CASE o \notin listed
  <2>1. o = Owner /\ ReadWhole /\ ~Stopped
    BY <1>1, <1>6
  <2>2. /\ Lacking(o, ToSet(packages))' \subseteq Lacking(o, names)
        /\ Lacking(o, names) \subseteq Names
    BY <1>1, <1>4, <2>1 DEF Lacking
  <2>3. Cardinality(Lacking(o, names)) <= removals[o]
    BY <1>1, <2>1, WholeWalk DEF LossInv, IInv
  <2>4. QED
    BY <1>3, <2>2, <2>3, StillBounded
<1>7. QED
  BY <1>5, <1>6

LEMMA InvariantLossInv == Spec => []LossInv
<1>1. Init => LossInv
  BY DEF Init, LossInv, AtOwner
<1>2. RInv /\ RInv' /\ IInv /\ IInv' /\ LossInv /\ [Next]_vars => LossInv'
  <2> SUFFICES ASSUME RInv, RInv', IInv, IInv', LossInv, [Next]_vars PROVE LossInv'
    OBVIOUS
  <2> USE DEF lister, collection
  <2>1. CASE Delist \/ Enlist
    BY <2>1, ChurnBoundsLoss
  <2>2. CASE Start
    <3>1. page' = 1 /\ walk' = "reading" /\ listed' = {}
      BY <2>2 DEF Start, IInv, Fresh
    <3>2. QED
      BY <3>1, NothingPassedYet DEF LossInv
  <2>3. CASE UNCHANGED registry
    <3>1. /\ gone' = gone /\ removals' = removals /\ listing' = listing
          /\ \A o \in Owners : removals[o] \in Nat
      BY <2>3 DEF registry, RInv, GoodRegistry
    <3>2. ASSUME listed' = listed, ToSet(packages) \subseteq ToSet(packages')
          PROVE  \A o \in listed' : Cardinality(Lacking(o, ToSet(packages))') <= removals'[o]
      BY <3>1, <3>2, ListedStand DEF IInv
    <3>3. CASE ReadPage
      <4>1. Owner' = Owner /\ listed' = listed /\ packages' = packages
        BY <3>3 DEF ReadPage, Owner
      <4>2. QED
        BY <3>1, <3>2, <3>3, <4>1, ReadPageBoundsLoss DEF LossInv
    <3>4. CASE NotFound \/ FailPage
      <4>1. walk' \notin {"reading", "end", "empty"} /\ listed' = listed /\ packages' = packages
        BY <3>4 DEF NotFound, FailPage
      <4>2. QED
        BY <3>2, <4>1 DEF LossInv
    <3>5. CASE TryUser
      <4>1. page' = 1 /\ walk' = "reading" /\ listed' = listed /\ packages' = packages
        BY <3>5 DEF TryUser
      <4>2. QED
        BY <3>2, <4>1, NothingPassedYet DEF LossInv
    <3>6. CASE Expand
      <4>1. page' = 1 /\ walk' = "reading"
        BY <3>6 DEF Expand, FreshLister
      <4>2. QED
        BY <3>1, <3>6, <4>1, ExpandBoundsLoss, NothingPassedYet DEF LossInv
    <3>7. CASE EndWildcards
      <4>1. ~AtOwner' /\ listed' = listed
        BY <3>7 DEF EndWildcards, AtOwner
      <4>2. Explicit[GHCR] \subseteq Names /\ Types
        BY Refs DEF IInv
      <4>3. ToSet(packages) \subseteq ToSet(packages')
        BY <3>7, <4>2, Joined DEF EndWildcards
      <4>4. QED
        BY <3>2, <4>1, <4>3 DEF LossInv
    <3>8. CASE Scrape \/ Sort \/ Return
      <4>1. ~AtOwner' /\ listed' = listed /\ packages' = packages
        BY <3>8 DEF Scrape, Sort, Return, AtOwner
      <4>2. QED
        BY <3>2, <4>1 DEF LossInv
    <3>9. CASE Cancel \/ UNCHANGED vars
      <4>1. /\ phase' = phase /\ turn' = turn /\ page' = page /\ names' = names /\ walk' = walk
            /\ unchecked' = unchecked /\ packages' = packages /\ listed' = listed
        BY <3>9 DEF Cancel, vars
      <4>2. (AtOwner' <=> AtOwner) /\ Passed' = Passed /\ Owner' = Owner
            /\ Lacking(Owner, names)' = Lacking(Owner, names)
        BY <3>1, <4>1 DEF AtOwner, Passed, Behind, Lacking, Owner
      <4>3. QED
        BY <3>1, <3>2, <4>1, <4>2 DEF LossInv
    <3>10. QED
      BY <3>3, <3>4, <3>5, <3>6, <3>7, <3>8, <3>9, <2>1, <2>2 DEF Next, Done
  <2>4. QED
    BY <2>1, <2>2, <2>3 DEF Next, ReadPage, NotFound, FailPage, TryUser, Expand, EndWildcards,
         Scrape, Sort, Return, Cancel, Done, vars
<1>3. QED
  BY <1>1, <1>2, InvariantRInv, InvariantIInv, PTL DEF Spec

-----------------------------------------------------------------------------
(* The theorems.                                                           *)

\* On a GitHub that stands still the reader's collection is what the accounting
\* assumes of it, however little the reader recognises of a page: a name is
\* absent only if it does not exist, and every package of a listed owner was
\* scraped (scraper.go:163-244, client.go:88-129).
THEOREM HonoursContractAlways == Spec => []HonoursContract
<1>1. RInv /\ IInv /\ Bounds /\ StandingStill /\ LossInv => HonoursContract
  <2> SUFFICES ASSUME RInv, IInv, Bounds, StandingStill, LossInv, phase = "done", churn = 0
               PROVE  IF cancelled THEN Truthful(GHCR, Pop, Collection)
                                   ELSE Whole(GHCR, Pop, Collection)
    BY DEF HonoursContract
  <2> DEFINE c == Collection
  <2>1. c.end = end /\ c.listed = listed /\ c.listingFailed = listingFailed
    BY DEF Collection
  <2>2. \A n \in Names : n \in Pop <=> Exists(n)
    BY DEF Pop
  <2>3. \A o : Visited(o) => o \in Wildcard[GHCR]
    BY Refs DEF Visited
  <2>4. listed \subseteq Wildcard[GHCR]
    BY <2>3 DEF IInv, WalkInOrder
  <2>5. \A n \in Names : end[n] # "none" =>
          /\ n \in ToSet(packages) /\ end[n] # "row"
          /\ n \in Explicit[GHCR] \/ (Wild(GHCR, n) /\ Exists(n))
    BY <2>3 DEF IInv, PackagesInOrder, WalkInOrder, StandingStill, Wild
  <2>6. \A n \in Names : /\ end[n] = "read" => Exists(n)
                         /\ end[n] = "absent" => ~Exists(n)
    BY DEF StandingStill
  <2>7. listingFailed =>
          \E o \in Wildcard[GHCR] \ listed :
             \A n \in Names \ Explicit[GHCR] : OwnerOf[n] = o => end[n] = "none"
    BY <2>3, <2>5 DEF IInv, OutageOnRecord, Unfound
  <2>8. c \in CollectionType
    <3>1. listingFailed \in BOOLEAN
      BY DEF Bounds
    <3>2. QED
      BY <3>1 DEF IInv, Types, Collection, CollectionType
  <2>9. Truthful(GHCR, Pop, c)
    BY <2>1, <2>2, <2>4, <2>5, <2>6, <2>7, <2>8 DEF Truthful, Covered, DockerHub, GHCR
  <2>10. CASE ~cancelled
    <3>1. \A n \in ToSet(packages) : end[n] # "none"
      BY <2>10 DEF IInv, PackagesInOrder
    <3>2. \A n \in Explicit[GHCR] : end[n] # "none"
      BY <3>1 DEF IInv, PackagesInOrder
    <3>3. ASSUME NEW n \in Pop, OwnerOf[n] \in listed PROVE end[n] \in {"read", "unread"}
      <4>1. n \in Names /\ Exists(n) /\ n \notin gone
        BY DEF Pop, RInv, Untouched
      <4>2. PICK o \in listed : o = OwnerOf[n]
        BY <3>3
      <4>3. removals[o] = 0
        BY <4>2 DEF RInv, NothingRemoved, IInv, Types
      <4>4. PICK lost : lost = Lacking(o, ToSet(packages))
        OBVIOUS
      <4>5. lost \subseteq Names /\ Cardinality(lost) <= 0
        BY <4>2, <4>3, <4>4 DEF LossInv, Lacking
      <4>6. IsFiniteSet(lost) /\ Cardinality(lost) = 0
        <5>1. IsFiniteSet(lost) /\ Cardinality(lost) \in Nat
          BY <4>5, NamesFinite
        <5>2. QED
          BY <4>5, <5>1
      <4>7. lost = {}
        BY <4>6, FS_EmptySet
      <4>8. n \in ToSet(packages)
        BY <4>1, <4>2, <4>4, <4>7 DEF Lacking
      <4>9. end[n] \in Ends /\ end[n] \notin {"none", "row", "absent"}
        BY <2>5, <2>6, <3>1, <4>1, <4>8 DEF IInv, Types
      <4>10. QED
        BY <4>9 DEF Ends
    <3>4. QED
      BY <2>1, <2>9, <2>10, <3>2, <3>3 DEF Whole, DockerHub, GHCR
  <2>11. QED
    BY <2>9, <2>10
<1>2. QED
  BY <1>1, InvariantRInv, InvariantIInv, InvariantBounds, InvariantStandingStill,
     InvariantLossInv, PTL

\* Whatever the organization form of a listing answered, ListingFailed takes a
\* fault of the owner's own form or an owner without packages, and an owner
\* that gave nothing without it had nothing (scraper.go:486-560).
THEOREM ListingFailedIsAnOutageAlways == Spec => []ListingFailedIsAnOutage
<1>1. IInv => ListingFailedIsAnOutage
  <2> SUFFICES ASSUME IInv PROVE ListingFailedIsAnOutage
    OBVIOUS
  <2>1. \A o : Visited(o) => o \in Wildcard[GHCR]
    BY Refs DEF Visited
  <2>2. ASSUME listingFailed
        PROVE  \E o \in (faulty \union wasEmpty) \ listed : o \in Wildcard[GHCR] /\ Unfound(o)
    BY <2>1, <2>2 DEF IInv, OutageOnRecord, Excused
  <2>3. ASSUME phase = "done", ~cancelled, ~listingFailed, NEW o \in Wildcard[GHCR], Unfound(o)
        PROVE  o \in wasEmpty \/ \E n \in Explicit[GHCR] : OwnerOf[n] = o
    <3>1. Visited(o) /\ o \in Owners
      BY <2>3, Refs DEF Visited
    <3>2. QED
      BY <2>3, <3>1 DEF IInv, OutageOnRecord
  <2>4. QED
    BY <2>2, <2>3 DEF ListingFailedIsAnOutage
<1>2. QED
  BY <1>1, InvariantIInv, PTL

\* However removals, appearances and requests interleave, an owner whose
\* listing was read whole misses no more packages than it lost (scraper.go:312).
THEOREM LossBoundedByRemovalsAlways == Spec => []LossBoundedByRemovals
<1>1. RInv /\ IInv /\ LossInv => LossBoundedByRemovals
  <2> SUFFICES ASSUME RInv, IInv, LossInv, phase = "done", ~cancelled, NEW o \in listed
               PROVE  Cardinality({n \in Names \ gone : OwnerOf[n] = o /\ end[n] = "none"}) <= removals[o]
    BY DEF LossBoundedByRemovals
  <2>1. \A n \in ToSet(packages) : end[n] # "none"
    BY DEF IInv, PackagesInOrder
  <2>2. /\ {n \in Names \ gone : OwnerOf[n] = o /\ end[n] = "none"} \subseteq Lacking(o, ToSet(packages))
        /\ Lacking(o, ToSet(packages)) \subseteq Names
    BY <2>1 DEF Lacking
  <2>3. Cardinality(Lacking(o, ToSet(packages))) <= removals[o] /\ removals[o] \in Nat
    BY DEF LossInv, IInv, Types, RInv, GoodRegistry
  <2>4. QED
    BY <2>2, <2>3, StillBounded
<1>2. QED
  BY <1>1, InvariantRInv, InvariantIInv, InvariantLossInv, PTL

\* No more packages than names.
LEMMA PackagesFit ==
  ASSUME Types
  PROVE  /\ Len(packages) <= Cardinality(Names) /\ Cardinality(Names) \in Nat
         /\ ToSet(packages) \subseteq Names /\ IsInjective(packages)
<1>1. PICK q \in Seq(Names) : q = packages
  BY DEF Types
<1>2. /\ Len(q) \in Nat /\ DOMAIN q = 1..Len(q) /\ q \in [1..Len(q) -> Names]
      /\ \A i, j \in 1..Len(q) : q[i] = q[j] => i = j
  BY <1>1 DEF Types
<1>3. q \in Injection(1..Len(q), Names)
  BY <1>2 DEF Injection, IsInjective
<1>4. Cardinality(1..Len(q)) <= Cardinality(Names)
  BY <1>3, FS_Injection, ContractAssumption
<1>5. Cardinality(1..Len(q)) = Len(q)
  <2>1. PICK m \in Nat : m = Len(q)
    BY <1>2
  <2>2. Cardinality(1..m) = IF 1 > m THEN 0 ELSE m - 1 + 1
    BY FS_Interval
  <2>3. Cardinality(1..m) = m
    BY <2>2
  <2>4. QED
    BY <2>1, <2>3
<1>6. ToSet(q) \subseteq Names /\ IsInjective(q)
  BY <1>2 DEF ToSet, IsInjective
<1>7. QED
  BY <1>1, <1>4, <1>5, <1>6, NamesFinite

\* Every reachable state of a Collect is well formed: the walks stay within
\* their cap, the loops within their lists, and no package is scraped twice.
THEOREM TypeCorrect == Spec => []TypeOK
<1>1. RInv /\ IInv /\ Bounds => TypeOK
  <2> SUFFICES ASSUME RInv, IInv, Bounds PROVE TypeOK
    OBVIOUS
  <2>1. RegistryTypeOK
    <3>1. ASSUME NEW o \in Owners
          PROVE  Held(o) \subseteq Names \union Unsafe /\ IsInjective(listing[o])
      <4>1. listing[o] \in Seq(Names \union Unsafe)
        BY DEF RInv, GoodRegistry, OwnListings
      <4>2. DOMAIN listing[o] = 1..Len(listing[o])
        BY <4>1
      <4>3. QED
        BY <4>1, <4>2 DEF RInv, GoodRegistry, SingleRows, Held, ToSet, IsInjective
    <3>2. QED
      BY <3>1 DEF RInv, GoodRegistry, RegistryTypeOK
  <2>2. page \in 1..MaxListingPages + 1
    BY GhcrAssumption DEF IInv, Types, Bounds
  <2>3. turn \in 1..Len(WildRefs) + Cardinality(Names) + 1
    <3>1. packages \in Seq(Names) /\ Len(packages) \in Nat /\ Len(WildRefs) \in Nat
      BY Refs DEF IInv, Types
    <3>2. QED
      BY <3>1, PackagesFit DEF IInv, Types, Bounds
  <2>4. Collection \in CollectionType
    BY DEF IInv, Types, Bounds, Collection, CollectionType
  <2>5. cancelled \in BOOLEAN /\ refused \in BOOLEAN /\ unchecked \in BOOLEAN
    BY DEF Bounds
  <2>6. ToSet(packages) \subseteq Names /\ IsInjective(packages)
    BY PackagesFit DEF IInv
  <2>7. QED
    BY <2>1, <2>2, <2>3, <2>4, <2>5, <2>6 DEF TypeOK, IInv, Types, Bounds
<1>2. QED
  BY <1>1, InvariantRInv, InvariantIInv, InvariantBounds, PTL

=============================================================================
