--------------------------- MODULE HubClientProofs ---------------------------
(***************************************************************************)
(* Proofs about HubClient for any refs, listings, page size and churn: the *)
(* reader keeps the contract the accounting relies on while the registry   *)
(* stands still, and judges an outage right even when it does not.         *)
(***************************************************************************)
EXTENDS HubClient, FiniteSetTheorems, TLAPS

\* The walk of this owner's listing is over.
Visited(o) ==
    \E i \in 1..Len(WildRefs) :
        /\ WildRefs[i] = o
        /\ i < turn \/ phase \notin {"idle", "wildcards"}

\* An owner's walk is under way or waits to be classified.
AtOwner == phase = "wildcards" /\ turn \in 1..Len(WildRefs)

Types ==
    /\ phase \in {"idle", "wildcards", "explicit", "answered", "done"}
    /\ turn \in Nat \ {0} /\ page \in Nat \ {0}
    /\ rows \subseteq Names
    /\ walk \in {"reading", "whole", "capped", "failed"}
    /\ end \in [Names -> Ends]
    /\ listed \subseteq Owners /\ faulty \subseteq Owners
    /\ listingFailed \in BOOLEAN
    /\ churn \in Nat

\* An owner's listing holds that owner's repositories only.
OwnListings ==
    /\ listing \in [Owners -> Seq(Names \union Unsafe)]
    /\ \A o \in Owners : \A i \in 1..Len(listing[o]) :
          listing[o][i] \in Names => OwnerOf[listing[o][i]] = o

\* A listing holds each repository once.
SingleRows ==
    \A o \in Owners : \A i, j \in 1..Len(listing[o]) :
        listing[o][i] = listing[o][j] => i = j

GoodRegistry ==
    /\ OwnListings /\ SingleRows
    /\ gone \subseteq Names /\ removals \in [Owners -> Nat] /\ churn \in 0..MaxChurn

\* A repository that has never been gone is in its owner's listing.
GoneKnows == \A n \in Names \ gone : Exists(n)

\* The rows of an owner at the first k places.
Behind(o, k) == {listing[o][i] : i \in {j \in 1..Len(listing[o]) : j <= k}}

\* The reader before its first owner.
Fresh ==
    phase = "idle" =>
        /\ turn = 1 /\ page = 1 /\ rows = {} /\ walk = "reading"
        /\ end = [n \in Names |-> "none"]
        /\ listed = {} /\ ~listingFailed /\ faulty = {}

\* Rows, verdicts and faults belong to the owners read so far.
WalkInOrder ==
    /\ \A n \in rows : AtOwner /\ OwnerOf[n] = Owner
    /\ phase = "wildcards" /\ ~AtOwner => walk = "reading"
    /\ phase = "wildcards" => \A n \in Names : end[n] \in {"row", "none"}
    /\ \A n \in Names : end[n] = "row" => Visited(OwnerOf[n])
    /\ \A n \in Names : end[n] \in {"row", "none"} \/ n \in Explicit[DockerHub]
    /\ \A o \in listed : Visited(o)
    /\ \A o \in faulty : Visited(o) \/ (AtOwner /\ o = Owner /\ walk = "failed")
    /\ AtOwner /\ walk = "failed" /\ ~cancelled => Owner \in faulty

NoRowOf(o) == \A n \in Names : OwnerOf[n] = o => end[n] # "row"

\* An outage stays on record, and a fault without one left rows.
OutageOnRecord ==
    /\ listingFailed => \E o \in faulty \ listed : Visited(o) /\ NoRowOf(o)
    /\ ~cancelled => \A o \in faulty : Visited(o) /\ NoRowOf(o) => listingFailed

\* The loop over the explicit refs has decided or tried every ref behind it.
ExplicitInOrder ==
    /\ phase = "answered" =>
        turn <= Len(ExplicitRefs) /\ end[Ref] # "row" /\ reply \in {"entry", "404", "error"}
    /\ phase \in {"explicit", "answered"} =>
        \A i \in 1..Len(ExplicitRefs) : i < turn => end[ExplicitRefs[i]] # "none"
    /\ phase = "done" /\ ~cancelled =>
        \A i \in 1..Len(ExplicitRefs) : end[ExplicitRefs[i]] # "none"

\* The names of the pages read so far, and the whole of a listing read whole.
PagesRead ==
    AtOwner =>
        /\ \A n \in rows : Exists(n)
        /\ walk = "reading" =>
            \A i \in 1..Len(listing[Owner]) :
                i <= (page - 1) * PageSize /\ listing[Owner][i] \in Names =>
                    listing[Owner][i] \in rows
        /\ walk = "whole" =>
            \A n \in Names : Exists(n) /\ OwnerOf[n] = Owner => n \in rows

\* What is true of a registry that stands still.
StandingStill ==
    phase # "idle" /\ churn = 0 =>
        /\ PagesRead
        /\ \A n \in Names :
            /\ end[n] \in {"row", "read"} => Exists(n)
            /\ end[n] = "absent" => ~Exists(n)
            /\ Exists(n) /\ OwnerOf[n] \in listed => end[n] = "row"
        /\ phase = "answered" =>
            (reply = "entry" => Exists(Ref)) /\ (reply = "404" => ~Exists(Ref))

IInv == /\ Types /\ Fresh /\ WalkInOrder /\ OutageOnRecord
        /\ ExplicitInOrder /\ StandingStill

-----------------------------------------------------------------------------
(* Lemmas on listings and pages.                                           *)

\* The bounds of page p, of which the next page's are one page on.
LEMMA PageBounds ==
  ASSUME NEW p \in Nat \ {0}
  PROVE  /\ (p - 1) * PageSize \in Nat /\ p * PageSize \in Nat
         /\ p * PageSize = (p - 1) * PageSize + PageSize
         /\ (p + 1 - 1) * PageSize = p * PageSize
<1>1. PageSize \in Nat
  BY ListingAssumption
<1>2. QED
  BY <1>1

\* Page p holds the rows at its places of the listing, and nothing else.
LEMMA PageRows ==
  ASSUME NEW l, NEW p
  PROVE  /\ \A n \in PageOf(l, p) : \E i \in 1..Len(l) : l[i] = n
         /\ \A i \in 1..Len(l) :
              (p - 1) * PageSize < i /\ i <= p * PageSize => l[i] \in PageOf(l, p)
  BY DEF PageOf

\* The refs, as the loops see them.
LEMMA Refs ==
  /\ Len(WildRefs) \in Nat /\ Len(ExplicitRefs) \in Nat
  /\ \A i \in 1..Len(WildRefs) : WildRefs[i] \in Owners
  /\ \A i, j \in 1..Len(WildRefs) : WildRefs[i] = WildRefs[j] => i = j
  /\ \A o : o \in Wildcard[DockerHub] <=> \E i \in 1..Len(WildRefs) : WildRefs[i] = o
  /\ \A i \in 1..Len(ExplicitRefs) : ExplicitRefs[i] \in Names
  /\ \A n : n \in Explicit[DockerHub] <=> \E i \in 1..Len(ExplicitRefs) : ExplicitRefs[i] = n
  /\ \A n \in Names : OwnerOf[n] \in Owners
<1>1. /\ WildRefs \in Seq(Owners) /\ ExplicitRefs \in Seq(Names)
      /\ ToSet(WildRefs) = Wildcard[DockerHub] /\ IsInjective(WildRefs)
      /\ ToSet(ExplicitRefs) = Explicit[DockerHub]
  BY HubAssumption
<1>2. /\ DOMAIN WildRefs = 1..Len(WildRefs) /\ DOMAIN ExplicitRefs = 1..Len(ExplicitRefs)
      /\ Len(WildRefs) \in Nat /\ Len(ExplicitRefs) \in Nat
      /\ \A i \in 1..Len(WildRefs) : WildRefs[i] \in Owners
      /\ \A i \in 1..Len(ExplicitRefs) : ExplicitRefs[i] \in Names
  BY <1>1
<1>3. \A n \in Names : OwnerOf[n] \in Owners
  BY DEF Owners
<1>4. QED
  BY <1>1, <1>2, <1>3 DEF ToSet, IsInjective

\* The owner being walked has not been visited.
LEMMA OwnerIsNext ==
  ASSUME Types, AtOwner
  PROVE  Owner \in Owners /\ ~Visited(Owner)
  BY Refs DEF Types, AtOwner, Owner, Visited

\* What a listing holds exists, and every existing name has its place there.
LEMMA ListingHolds ==
  ASSUME OwnListings, NEW o \in Owners
  PROVE  /\ \A i \in 1..Len(listing[o]) :
              /\ listing[o][i] \in Names \union Unsafe
              /\ listing[o][i] \in Names =>
                   OwnerOf[listing[o][i]] = o /\ Exists(listing[o][i])
         /\ \A n \in Names : Exists(n) /\ OwnerOf[n] = o =>
              \E i \in 1..Len(listing[o]) : listing[o][i] = n
<1>1. listing[o] \in Seq(Names \union Unsafe)
  BY DEF OwnListings
<1>2. DOMAIN listing[o] = 1..Len(listing[o])
  BY <1>1
<1>3. \A i \in 1..Len(listing[o]) : listing[o][i] \in Names \union Unsafe
  BY <1>1
<1>4. Held(o) = {listing[o][i] : i \in 1..Len(listing[o])}
  BY <1>2 DEF Held, ToSet
<1>5. QED
  BY <1>3, <1>4 DEF OwnListings, Exists

-----------------------------------------------------------------------------
(* Lemmas on the changes of the registry.                                  *)

Churn == (\E o \in Owners : Withdraw(o)) \/ (\E n \in Names : Appear(n))

LEMMA WithdrawKeepsRegistry ==
  ASSUME GoodRegistry, NEW o \in Owners, Withdraw(o)
  PROVE  /\ GoodRegistry' /\ gone \subseteq gone' /\ churn' = churn + 1
         /\ GoneKnows => GoneKnows'
         /\ removals' = [removals EXCEPT ![o] = @ + 1]
         /\ \A p \in Owners : p # o => listing'[p] = listing[p]
         /\ \A k \in Nat : \E x : Behind(o, k)' \subseteq Behind(o, k) \union {x}
<1> DEFINE l == listing[o]
<1>1. PICK i \in 1..Len(l) :
        /\ listing' = [listing EXCEPT ![o] = Without(l, i)]
        /\ gone' = gone \union ({l[i]} \ Unsafe)
  BY DEF Withdraw
<1>2. /\ removals' = [removals EXCEPT ![o] = @ + 1] /\ removals' \in [Owners -> Nat]
      /\ churn' = churn + 1 /\ churn' \in 0..MaxChurn
  BY ListingAssumption DEF Withdraw, GoodRegistry
<1>3. l \in Seq(Names \union Unsafe) /\ Len(l) \in Nat /\ l[i] \in Names \union Unsafe
  BY DEF GoodRegistry, OwnListings
<1> DEFINE w == Without(l, i)
<1>4. /\ w \in Seq(Names \union Unsafe) /\ Len(w) = Len(l) - 1
      /\ \A j \in 1..Len(l) - 1 : w[j] = IF j < i THEN l[j] ELSE l[j + 1]
  BY <1>3 DEF Without
<1> HIDE DEF w
<1>5. listing'[o] = w /\ \A p \in Owners : p # o => listing'[p] = listing[p]
  BY <1>1 DEF GoodRegistry, OwnListings, w
<1>6. OwnListings'
  <2>1. \A j \in 1..Len(w) : w[j] \in Names => OwnerOf[w[j]] = o
    BY <1>3, <1>4, SMTT(30) DEF GoodRegistry, OwnListings
  <2>2. listing' \in [Owners -> Seq(Names \union Unsafe)]
    BY <1>1, <1>4 DEF GoodRegistry, OwnListings, w
  <2>3. QED
    BY <1>5, <2>1, <2>2 DEF GoodRegistry, OwnListings
<1>7. SingleRows'
  <2>1. \A j, k \in 1..Len(w) : w[j] = w[k] => j = k
    BY <1>3, <1>4 DEF GoodRegistry, SingleRows
  <2>2. QED
    BY <1>5, <2>1 DEF GoodRegistry, SingleRows
<1>8. gone' \subseteq Names /\ gone \subseteq gone'
  BY <1>1, <1>3 DEF GoodRegistry
<1>9. ASSUME GoneKnows PROVE GoneKnows'
  <2> SUFFICES ASSUME NEW n \in Names, n \notin gone' PROVE Exists(n)'
    BY DEF GoneKnows
  <2>1. Exists(n) /\ n # l[i]
    BY <1>1, <1>8, <1>9, ListingAssumption DEF GoneKnows
  <2>2. CASE OwnerOf[n] # o
    BY <1>5, <2>1, <2>2 DEF Exists, Held, Owners
  <2>3. CASE OwnerOf[n] = o
    <3>1. PICK j \in 1..Len(l) : l[j] = n
      BY <2>1, <2>3, ListingHolds DEF GoodRegistry
    <3>2. PICK k \in 1..Len(w) : w[k] = n
      <4>1. CASE j < i
        BY <1>3, <1>4, <3>1, <4>1, SMTT(30)
      <4>2. CASE j > i
        <5>1. j - 1 \in 1..Len(w) /\ ~(j - 1 < i) /\ (j - 1) + 1 = j
          BY <1>3, <1>4, <4>2
        <5>2. QED
          BY <1>3, <1>4, <3>1, <5>1
      <4>3. j # i
        BY <2>1, <3>1
      <4>4. QED
        BY <4>1, <4>2, <4>3
    <3>3. DOMAIN w = 1..Len(w)
      BY <1>4
    <3>4. n \in ToSet(w)
      BY <3>2, <3>3 DEF ToSet
    <3>5. QED
      BY <1>5, <2>3, <3>4 DEF Exists, Held
  <2>4. QED
    BY <2>2, <2>3
<1>10. ASSUME NEW k \in Nat PROVE \E x : Behind(o, k)' \subseteq Behind(o, k) \union {x}
  <2>1. ASSUME NEW j \in 1..Len(w), j <= k PROVE w[j] \in Behind(o, k) \union {l[k + 1]}
    <3>1. CASE j < i
      BY <1>3, <1>4, <2>1, <3>1 DEF Behind
    <3>2. CASE ~(j < i) /\ j < k
      <4>1. j + 1 \in 1..Len(l) /\ j + 1 <= k /\ w[j] = l[j + 1]
        BY <1>3, <1>4, <2>1, <3>2
      <4>2. QED
        BY <4>1 DEF Behind
    <3>3. CASE ~(j < i) /\ j = k
      BY <1>3, <1>4, <3>3
    <3>4. QED
      BY <2>1, <3>1, <3>2, <3>3
  <2>2. Behind(o, k)' \subseteq Behind(o, k) \union {l[k + 1]}
    BY <1>5, <2>1 DEF Behind
  <2>3. QED
    BY <2>2
<1>11. QED
  BY <1>2, <1>5, <1>6, <1>7, <1>8, <1>9, <1>10 DEF GoodRegistry

LEMMA AppearKeepsRegistry ==
  ASSUME GoodRegistry, NEW n \in Names, Appear(n)
  PROVE  /\ GoodRegistry' /\ gone' = gone /\ removals' = removals /\ churn' = churn + 1
         /\ GoneKnows => GoneKnows' /\ n \in gone
         /\ \A o \in Owners, k \in Nat : Behind(o, k)' \subseteq Behind(o, k) \union {n}
<1> DEFINE o == OwnerOf[n]
           l == listing[o]
<1>1. PICK i \in 1..Len(l) + 1 : listing' = [listing EXCEPT ![o] = With(l, i, n)]
  BY DEF Appear
<1>2. /\ UNCHANGED <<gone, removals>> /\ churn' = churn + 1 /\ churn' \in 0..MaxChurn
      /\ ~Exists(n) /\ o \in Owners
  BY ListingAssumption, Refs DEF Appear, GoodRegistry
<1>3. l \in Seq(Names \union Unsafe) /\ Len(l) \in Nat
  BY <1>2 DEF GoodRegistry, OwnListings
<1> DEFINE w == With(l, i, n)
<1>4. /\ w \in Seq(Names \union Unsafe) /\ Len(w) = Len(l) + 1
      /\ \A j \in 1..Len(l) + 1 : w[j] = IF j < i THEN l[j] ELSE IF j = i THEN n ELSE l[j - 1]
  <2>1. n \in Names \union Unsafe
    OBVIOUS
  <2>2. QED
    BY <1>3, <2>1 DEF With
<1> HIDE DEF w
<1>5. /\ listing'[o] = w /\ \A p \in Owners : p # o => listing'[p] = listing[p]
      /\ listing' \in [Owners -> Seq(Names \union Unsafe)]
  BY <1>1, <1>2, <1>4 DEF GoodRegistry, OwnListings, w
<1>6. ASSUME NEW j \in 1..Len(w)
      PROVE  /\ j < i => j \in 1..Len(l) /\ w[j] = l[j]
             /\ j = i => w[j] = n
             /\ j > i => j - 1 \in 1..Len(l) /\ w[j] = l[j - 1]
  BY <1>3, <1>4
<1>7. /\ \A j \in 1..Len(l) : l[j] # n
      /\ \A j, k \in 1..Len(l) : l[j] = l[k] => j = k
  BY <1>2, ListingHolds DEF GoodRegistry, SingleRows
<1>8. OwnListings'
  <2>1. \A j \in 1..Len(l) : l[j] \in Names => OwnerOf[l[j]] = o
    BY <1>2 DEF GoodRegistry, OwnListings
  <2>2. ASSUME NEW j \in 1..Len(w), w[j] \in Names PROVE OwnerOf[w[j]] = o
    <3>1. j < i \/ j = i \/ j > i
      BY <1>3
    <3>2. CASE j = i
      BY <1>2, <1>6, <3>2
    <3>3. CASE j < i \/ j > i
      BY <1>6, <2>1, <2>2, <3>3
    <3>4. QED
      BY <3>1, <3>2, <3>3
  <2>3. ASSUME NEW p \in Owners
        PROVE  \A j \in 1..Len(listing'[p]) : listing'[p][j] \in Names => OwnerOf[listing'[p][j]] = p
    <3>1. CASE p = o
      BY <1>5, <2>2, <3>1
    <3>2. CASE p # o
      BY <1>5, <3>2 DEF GoodRegistry, OwnListings
    <3>3. QED
      BY <3>1, <3>2
  <2>4. QED
    BY <1>5, <2>3 DEF OwnListings
<1>9. SingleRows'
  <2>1. ASSUME NEW j \in 1..Len(w), NEW k \in 1..Len(w), w[j] = w[k] PROVE j = k
    <3>1. i \in Int /\ j \in Int /\ k \in Int
      BY <1>3, <1>4
    <3>2. /\ j < i => j \in 1..Len(l) /\ w[j] = l[j]
          /\ j = i => w[j] = n
          /\ j > i => j - 1 \in 1..Len(l) /\ w[j] = l[j - 1]
      BY <1>6
    <3>3. /\ k < i => k \in 1..Len(l) /\ w[k] = l[k]
          /\ k = i => w[k] = n
          /\ k > i => k - 1 \in 1..Len(l) /\ w[k] = l[k - 1]
      BY <1>6
    <3>4. CASE j = i \/ k = i
      BY <1>7, <2>1, <3>1, <3>2, <3>3, <3>4
    <3>5. CASE j # i /\ k # i
      <4> DEFINE a == IF j < i THEN j ELSE j - 1
                 b == IF k < i THEN k ELSE k - 1
      <4>1. a \in 1..Len(l) /\ b \in 1..Len(l) /\ l[a] = l[b]
        BY <2>1, <3>1, <3>2, <3>3, <3>5
      <4>2. a = b
        BY <1>7, <4>1
      <4>3. QED
        BY <3>1, <3>5, <4>2
    <3>6. QED
      BY <3>4, <3>5
  <2>2. QED
    BY <1>5, <2>1 DEF GoodRegistry, SingleRows
<1>10. GoneKnows => GoneKnows' /\ n \in gone
  <2> SUFFICES ASSUME GoneKnows PROVE GoneKnows' /\ n \in gone
    OBVIOUS
  <2>1. n \in gone
    BY <1>2 DEF GoneKnows
  <2>2. ASSUME NEW m \in Names, m \notin gone, OwnerOf[m] = o PROVE Exists(m)'
    <3>1. PICK j \in 1..Len(l) : l[j] = m
      BY <1>2, <2>2, ListingHolds DEF GoneKnows, GoodRegistry
    <3>2. PICK k \in 1..Len(w) : w[k] = m
      <4>1. CASE j < i
        BY <1>3, <1>4, <3>1, <4>1
      <4>2. CASE ~(j < i)
        <5>1. j + 1 \in 1..Len(w) /\ ~(j + 1 < i) /\ j + 1 # i /\ (j + 1) - 1 = j
          BY <1>3, <1>4, <4>2
        <5>2. QED
          BY <1>3, <1>4, <3>1, <5>1
      <4>3. QED
        BY <4>1, <4>2
    <3>3. DOMAIN w = 1..Len(w)
      BY <1>4
    <3>4. m \in ToSet(w)
      BY <3>2, <3>3 DEF ToSet
    <3>5. QED
      BY <1>5, <2>2, <3>4 DEF Exists, Held
  <2>3. ASSUME NEW m \in Names, m \notin gone, OwnerOf[m] # o PROVE Exists(m)'
    BY <1>5, <2>3, Refs DEF GoneKnows, Exists, Held
  <2>4. QED
    BY <1>2, <2>1, <2>2, <2>3 DEF GoneKnows
<1>11. ASSUME NEW p \in Owners, NEW k \in Nat PROVE Behind(p, k)' \subseteq Behind(p, k) \union {n}
  <2>1. CASE p = o
    <3>1. \A j \in 1..Len(w) : j <= k => w[j] \in Behind(o, k) \union {n}
      BY <1>3, <1>6, SMTT(30) DEF Behind
    <3>2. QED
      BY <1>5, <2>1, <3>1 DEF Behind
  <2>2. CASE p # o
    BY <1>5, <2>2 DEF Behind
  <2>3. QED
    BY <2>1, <2>2
<1>12. QED
  BY <1>2, <1>8, <1>9, <1>10, <1>11 DEF GoodRegistry

LEMMA PopulateMakesRegistry ==
  ASSUME GoodRegistry, Populate
  PROVE  GoodRegistry' /\ GoneKnows'
<1>1. /\ listing' \in [Owners -> UNION {Listings[o] : o \in Owners}]
      /\ \A o \in Owners : listing'[o] \in Listings[o]
      /\ gone' = {n \in Names : n \notin ToSet(listing'[OwnerOf[n]])}
      /\ UNCHANGED <<removals, churn>>
  BY DEF Populate
<1>2. \A o \in Owners :
        /\ listing'[o] \in Seq(Names \union Unsafe)
        /\ DOMAIN listing'[o] = 1..Len(listing'[o])
        /\ IsInjective(listing'[o])
        /\ \A i \in DOMAIN listing'[o] : listing'[o][i] \in Names => OwnerOf[listing'[o][i]] = o
  <2> TAKE o \in Owners
  <2>1. listing'[o] \in Seq(Names \union Unsafe)
    BY <1>1, ListingAssumption
  <2>2. DOMAIN listing'[o] = 1..Len(listing'[o])
    BY <2>1
  <2>3. QED
    BY <1>1, <2>1, <2>2, ListingAssumption
<1>3. listing' \in [Owners -> Seq(Names \union Unsafe)]
  BY <1>1, <1>2
<1>4. OwnListings' /\ SingleRows'
  BY <1>2, <1>3 DEF OwnListings, SingleRows, IsInjective
<1>5. GoneKnows'
  BY <1>1 DEF GoneKnows, Exists, Held
<1>6. QED
  BY <1>1, <1>4, <1>5 DEF GoodRegistry

\* The registry's own invariant, whatever the reader does.
RInv == GoodRegistry /\ (phase # "idle" => GoneKnows)

LEMMA InvariantRInv == Spec => []RInv
<1>1. Init => RInv
  <2> SUFFICES ASSUME Init PROVE RInv
    OBVIOUS
  <2>1. listing = [o \in Owners |-> <<>>] /\ removals = [o \in Owners |-> 0] /\ churn = 0
    BY DEF Init, RegistryInit
  <2>2. <<>> \in Seq(Names \union Unsafe) /\ Len(<<>>) = 0
    OBVIOUS
  <2>3. OwnListings /\ SingleRows
    BY <2>1, <2>2 DEF OwnListings, SingleRows
  <2>4. removals \in [Owners -> Nat] /\ churn \in 0..MaxChurn
    BY <2>1, ListingAssumption
  <2>5. QED
    BY <2>3, <2>4 DEF Init, RegistryInit, RInv, GoodRegistry
<1>2. RInv /\ [Next]_vars => RInv'
  <2> SUFFICES ASSUME RInv, [Next]_vars PROVE RInv'
    OBVIOUS
  <2>1. CASE Start
    BY <2>1, PopulateMakesRegistry DEF Start, RInv
  <2>2. CASE Delist \/ Enlist
    BY <2>2, WithdrawKeepsRegistry, AppearKeepsRegistry DEF Delist, Enlist, Running, RInv, reader
  <2>3. CASE UNCHANGED registry /\ (phase = "idle" => phase' = "idle")
    BY <2>3 DEF registry, RInv, GoodRegistry, OwnListings, SingleRows, GoneKnows, Exists, Held
  <2>4. QED
    BY <2>1, <2>2, <2>3 DEF Next, FetchPage, FailPage, Classify, EndWildcards, SkipSeen,
         Fetch, Sort, Return, Cancel, Done, vars, reader, Walking, MoreRefs, Running
<1>3. QED
  BY <1>1, <1>2, PTL DEF Spec

-----------------------------------------------------------------------------
(* The invariant: the registry's steps.                                    *)

LEMMA InitIInv == Init => IInv
<1> SUFFICES ASSUME Init PROVE IInv
  OBVIOUS
<1>1. \A n \in Names : end[n] = "none"
  BY DEF Init
<1>2. Types
  <2>1. listingFailed \in BOOLEAN
    BY DEF Init
  <2>2. QED
    BY <2>1 DEF Init, Types, Ends, RegistryInit
<1>4. Fresh /\ OutageOnRecord /\ ExplicitInOrder /\ StandingStill
  BY DEF Init, Fresh, OutageOnRecord, ExplicitInOrder, StandingStill
<1>5. WalkInOrder
  BY <1>1 DEF Init, WalkInOrder, AtOwner
<1>6. QED
  BY <1>2, <1>4, <1>5 DEF IInv

\* While only the registry or the context moves, the reader's parts stand.
LEMMA ReaderStands ==
  ASSUME IInv, UNCHANGED reader, cancelled => cancelled', phase # "idle",
         churn' \in Nat
  PROVE  Types' /\ Fresh' /\ WalkInOrder' /\ OutageOnRecord' /\ ExplicitInOrder'
<1>1. /\ \A o : Visited(o)' <=> Visited(o)
      /\ AtOwner' <=> AtOwner
      /\ \A o : NoRowOf(o)' <=> NoRowOf(o)
  BY DEF reader, Visited, AtOwner, NoRowOf
<1>2. Types' /\ Fresh'
  BY DEF IInv, Types, Fresh, reader
<1>3. WalkInOrder'
  BY <1>1 DEF IInv, WalkInOrder, reader, Owner
<1>4. OutageOnRecord'
  BY <1>1 DEF IInv, OutageOnRecord, reader
<1>5. ExplicitInOrder'
  BY DEF IInv, ExplicitInOrder, reader, Ref
<1>6. QED
  BY <1>2, <1>3, <1>4, <1>5

LEMMA StartPreserves == IInv /\ Start => IInv'
<1> SUFFICES ASSUME IInv, Start PROVE IInv'
  OBVIOUS
<1>1. /\ phase' = "wildcards" /\ Populate /\ turn' = 1 /\ page' = 1 /\ rows' = {}
      /\ walk' = "reading" /\ listed' = {} /\ ~listingFailed' /\ faulty' = {}
      /\ cancelled' = cancelled /\ end' = end
      /\ \A n \in Names : end[n] = "none"
  BY DEF Start, IInv, Fresh
<1>2. Types'
  <2>1. listingFailed' \in BOOLEAN
    BY DEF Start, IInv, Types
  <2>2. QED
    BY <1>1, <2>1 DEF IInv, Types, Populate
<1>4. Fresh' /\ OutageOnRecord' /\ ExplicitInOrder'
  BY <1>1 DEF Fresh, OutageOnRecord, ExplicitInOrder
<1>5. WalkInOrder'
  BY <1>1 DEF WalkInOrder
<1>6. StandingStill'
  <2>1. (page' - 1) * PageSize = 0
    BY <1>1, ListingAssumption
  <2>2. AtOwner' => \A i \in 1..Len(listing'[Owner']) : ~(i <= 0)
    OBVIOUS
  <2>3. PagesRead'
    BY <1>1, <2>1, <2>2 DEF PagesRead
  <2>4. QED
    BY <1>1, <2>3 DEF StandingStill
<1>7. QED
  BY <1>2, <1>4, <1>5, <1>6 DEF IInv

\* A change of the registry leaves the reader as it is.
LEMMA ChurnPreserves == IInv /\ (Delist \/ Enlist) => IInv'
<1> SUFFICES ASSUME IInv, Delist \/ Enlist PROVE IInv'
  OBVIOUS
<1>1. /\ UNCHANGED reader /\ cancelled' = cancelled /\ phase # "idle"
      /\ churn' = churn + 1 /\ churn' \in Nat /\ churn' # 0
  BY DEF Delist, Enlist, Running, Withdraw, Appear, IInv, Types
<1>2. StandingStill'
  BY <1>1 DEF StandingStill
<1>3. QED
  BY <1>1, <1>2, ReaderStands DEF IInv

\* Nothing but the context, or nothing at all.
LEMMA CancelPreserves == IInv /\ (Cancel \/ UNCHANGED vars) => IInv'
<1> SUFFICES ASSUME IInv, Cancel \/ UNCHANGED vars PROVE IInv'
  OBVIOUS
<1>1. UNCHANGED <<reader, registry>> /\ (cancelled => cancelled')
      /\ (phase # "idle" \/ cancelled' = cancelled)
  BY DEF Cancel, Running, vars
<1>2. StandingStill'
  <2>1. \A n : Exists(n)' <=> Exists(n)
    BY <1>1 DEF registry, Exists, Held
  <2>2. (AtOwner' <=> AtOwner) /\ (PagesRead' <=> PagesRead)
    BY <1>1, <2>1 DEF registry, reader, AtOwner, PagesRead, Owner
  <2>3. QED
    BY <1>1, <2>1, <2>2 DEF registry, reader, IInv, StandingStill, Ref
<1>3. CASE phase # "idle"
  BY <1>1, <1>2, <1>3, ReaderStands DEF IInv, Types, registry
<1>4. CASE UNCHANGED <<reader, registry, cancelled>>
  <2>1. /\ \A o : Visited(o)' <=> Visited(o)
        /\ AtOwner' <=> AtOwner
        /\ \A o : NoRowOf(o)' <=> NoRowOf(o)
    BY <1>4 DEF reader, Visited, AtOwner, NoRowOf
  <2>2. Types' /\ Fresh' /\ WalkInOrder' /\ OutageOnRecord' /\ ExplicitInOrder'
    BY <1>4, <2>1 DEF reader, registry, IInv, Types, Fresh, WalkInOrder, OutageOnRecord,
                      ExplicitInOrder, Owner, Ref
  <2>3. QED
    BY <1>2, <2>2 DEF IInv
<1>5. QED
  BY <1>1, <1>3, <1>4

-----------------------------------------------------------------------------
(* The invariant: the walk of the listings.                                *)

LEMMA FetchPagePreserves == GoodRegistry /\ IInv /\ FetchPage => IInv'
<1> SUFFICES ASSUME GoodRegistry, IInv, FetchPage PROVE IInv'
  OBVIOUS
<1> DEFINE l == listing[Owner]
           k == Kept(l, page)
<1>1. /\ AtOwner /\ walk = "reading" /\ page \in Nat \ {0} /\ page' = page + 1
      /\ rows' = rows \union k /\ walk' = WalkEnd(More(l, page), page)
      /\ UNCHANGED <<phase, turn, reply, end, listed, listingFailed, faulty, registry, cancelled>>
  BY Refs DEF FetchPage, Walking, AtOwner, IInv, Types
<1>2. Owner \in Owners /\ l \in Seq(Names \union Unsafe) /\ Len(l) \in Nat
  BY <1>1, OwnerIsNext DEF IInv, GoodRegistry, OwnListings
<1>3. \A n \in k : \E i \in 1..Len(l) : l[i] = n /\ n \notin Unsafe
  BY <1>1, <1>2, PageRows DEF Kept
<1>4. \A n \in k : n \in Names /\ OwnerOf[n] = Owner /\ Exists(n)
  BY <1>2, <1>3, ListingHolds DEF GoodRegistry
<1>5. walk' \in {"reading", "whole", "capped"} /\ (walk' = "whole" => Len(l) <= page * PageSize)
  <2>1. page * PageSize \in Nat
    BY <1>1, PageBounds
  <2>2. QED
    BY <1>1, <1>2, <2>1 DEF WalkEnd, More
<1>6. /\ \A o : Visited(o)' <=> Visited(o)
      /\ AtOwner' /\ Owner' = Owner
      /\ \A o : NoRowOf(o)' <=> NoRowOf(o)
      /\ \A n : Exists(n)' <=> Exists(n)
  BY <1>1 DEF Visited, AtOwner, NoRowOf, Owner, Exists, Held, registry
<1>7. Types'
  BY <1>1, <1>4, <1>5 DEF IInv, Types, registry
<1>8. OutageOnRecord'
  BY <1>1, <1>6 DEF IInv, OutageOnRecord, registry
<1>9. Fresh' /\ ExplicitInOrder'
  BY <1>1 DEF AtOwner, Fresh, ExplicitInOrder
<1>10. WalkInOrder'
  BY <1>1, <1>4, <1>5, <1>6 DEF IInv, WalkInOrder
<1>11. StandingStill'
  <2> SUFFICES ASSUME churn = 0 PROVE StandingStill'
    BY <1>1 DEF StandingStill, registry
  <2>1. phase = "wildcards" /\ PagesRead
    BY <1>1 DEF IInv, StandingStill, AtOwner
  <2>2. \A n \in rows' : Exists(n)
    BY <1>1, <1>4, <2>1 DEF PagesRead
  <2>3. ASSUME NEW i \in 1..Len(l), i <= page * PageSize, l[i] \in Names
        PROVE  l[i] \in rows'
    <3>1. (page - 1) * PageSize \in Nat
      BY <1>1, PageBounds
    <3>2. CASE i <= (page - 1) * PageSize
      BY <1>1, <2>1, <2>3, <3>2 DEF PagesRead
    <3>3. CASE (page - 1) * PageSize < i
      BY <1>1, <1>2, <2>3, <3>3, PageRows, ListingAssumption DEF Kept
    <3>4. QED
      BY <1>2, <3>1, <3>2, <3>3
  <2>4. (page' - 1) * PageSize = page * PageSize
    BY <1>1, PageBounds
  <2>5. ASSUME walk' = "whole", NEW n \in Names, Exists(n), OwnerOf[n] = Owner
        PROVE  n \in rows'
    <3>1. PICK i \in 1..Len(l) : l[i] = n
      BY <1>2, <2>5, ListingHolds DEF GoodRegistry
    <3>2. i <= page * PageSize
      <4>1. page * PageSize \in Nat
        BY <1>1, PageBounds
      <4>2. QED
        BY <1>2, <1>5, <2>5, <4>1
    <3>3. QED
      BY <2>3, <3>1, <3>2
  <2>6. PagesRead'
    <3>1. listing'[Owner'] = l
      BY <1>1, <1>6 DEF registry
    <3>2. QED
      BY <1>6, <2>2, <2>3, <2>4, <2>5, <3>1 DEF PagesRead
  <2>7. QED
    BY <1>1, <1>6, <2>1, <2>6 DEF IInv, StandingStill
<1>12. QED
  BY <1>7, <1>8, <1>9, <1>10, <1>11 DEF IInv

LEMMA FailPagePreserves == IInv /\ FailPage => IInv'
<1> SUFFICES ASSUME IInv, FailPage PROVE IInv'
  OBVIOUS
<1>1. /\ AtOwner /\ walk' = "failed"
      /\ faulty' = (IF cancelled THEN faulty ELSE faulty \union {Owner})
      /\ UNCHANGED <<phase, turn, page, rows, reply, end, listed, listingFailed, registry, cancelled>>
  BY Refs DEF FailPage, Walking, AtOwner, IInv, Types
<1>2. Owner \in Owners /\ ~Visited(Owner)
  BY <1>1, OwnerIsNext DEF IInv
<1>3. /\ \A o : Visited(o)' <=> Visited(o)
      /\ AtOwner' /\ Owner' = Owner
      /\ \A o : NoRowOf(o)' <=> NoRowOf(o)
      /\ \A n : Exists(n)' <=> Exists(n)
  BY <1>1 DEF Visited, AtOwner, NoRowOf, Owner, Exists, Held, registry
<1>4. Types' /\ Fresh' /\ ExplicitInOrder'
  BY <1>1, <1>2 DEF AtOwner, IInv, Types, Fresh, ExplicitInOrder, registry
<1>5. WalkInOrder'
  BY <1>1, <1>3 DEF IInv, WalkInOrder
<1>6. OutageOnRecord'
  BY <1>1, <1>2, <1>3 DEF IInv, OutageOnRecord
<1>7. StandingStill'
  BY <1>1, <1>3 DEF IInv, StandingStill, PagesRead, AtOwner, registry
<1>8. QED
  BY <1>4, <1>5, <1>6, <1>7 DEF IInv

\* The classification closes one owner's walk and opens the next.
LEMMA ClassifyPreserves == IInv /\ Classify => IInv'
<1> SUFFICES ASSUME IInv, Classify PROVE IInv'
  OBVIOUS
<1>1. /\ AtOwner /\ phase = "wildcards" /\ walk # "reading" /\ turn \in Nat \ {0}
      /\ end' = [n \in Names |-> IF n \in rows THEN "row" ELSE end[n]]
      /\ listed' = (IF walk = "whole" /\ ~cancelled THEN listed \union {Owner} ELSE listed)
      /\ listingFailed' = (listingFailed \/ Outage)
      /\ turn' = turn + 1 /\ page' = 1 /\ rows' = {} /\ walk' = "reading"
      /\ UNCHANGED <<phase, reply, faulty, registry, cancelled>>
  BY Refs DEF Classify, AtOwner, IInv, Types
<1>2. Owner \in Owners /\ ~Visited(Owner) /\ Owner \notin listed
  BY <1>1, OwnerIsNext DEF IInv, WalkInOrder
<1>3. \A o : Visited(o)' <=> Visited(o) \/ o = Owner
  BY <1>1, Refs DEF Visited, AtOwner, Owner
<1>4. /\ \A n \in rows : n \in Names /\ OwnerOf[n] = Owner
      /\ \A n \in Names : end[n] \in {"row", "none"}
      /\ \A n \in Names : end[n] = "row" => Visited(OwnerOf[n])
  BY <1>1 DEF IInv, WalkInOrder, Types
<1>5. Types'
  BY <1>1, <1>2 DEF IInv, Types, Ends, registry
<1>6. Fresh' /\ ExplicitInOrder'
  BY <1>1 DEF IInv, Fresh, ExplicitInOrder, registry
<1>7. WalkInOrder'
  BY <1>1, <1>3, <1>4 DEF IInv, WalkInOrder
<1>8. \A o : o # Owner => (NoRowOf(o)' <=> NoRowOf(o))
  BY <1>1, <1>4 DEF NoRowOf
<1>9. NoRowOf(Owner) /\ (\A n \in Names : OwnerOf[n] = Owner => (end'[n] = "row" <=> n \in rows))
  BY <1>1, <1>2, <1>4 DEF NoRowOf
<1>10. OutageOnRecord'
  <2>1. ASSUME listingFailed'
        PROVE  \E o \in faulty' \ listed' : Visited(o)' /\ NoRowOf(o)'
    <3>1. CASE listingFailed
      <4>1. PICK o \in faulty \ listed : Visited(o) /\ NoRowOf(o)
        BY <3>1 DEF IInv, OutageOnRecord
      <4>2. o # Owner
        BY <1>2, <4>1
      <4>3. QED
        BY <1>1, <1>3, <1>8, <4>1, <4>2
    <3>2. CASE Outage
      <4>1. Owner \in faulty /\ rows = {} /\ walk = "failed"
        BY <1>1, <3>2 DEF Outage, IInv, WalkInOrder
      <4>2. PICK o : o = Owner
        OBVIOUS
      <4>3. NoRowOf(o)'
        BY <1>1, <1>9, <4>1, <4>2 DEF NoRowOf
      <4>4. o \in faulty' \ listed' /\ Visited(o)'
        BY <1>1, <1>2, <1>3, <4>1, <4>2
      <4>5. QED
        BY <4>3, <4>4
    <3>3. QED
      BY <1>1, <2>1, <3>1, <3>2
  <2>2. ASSUME ~cancelled, NEW o \in faulty, Visited(o)', NoRowOf(o)'
        PROVE  listingFailed'
    <3>1. CASE o = Owner
      <4>1. walk = "failed"
        BY <1>2, <2>2, <3>1 DEF IInv, WalkInOrder
      <4>2. rows = {}
        BY <1>1, <1>4, <1>9, <2>2, <3>1 DEF NoRowOf
      <4>3. QED
        BY <1>1, <2>2, <4>1, <4>2 DEF Outage
    <3>2. CASE o # Owner
      BY <1>1, <1>3, <1>8, <2>2, <3>2 DEF IInv, OutageOnRecord
    <3>3. QED
      BY <3>1, <3>2
  <2>3. QED
    BY <1>1, <2>1, <2>2 DEF OutageOnRecord
<1>11. StandingStill'
  <2> SUFFICES ASSUME churn = 0 PROVE StandingStill'
    BY <1>1 DEF StandingStill, registry
  <2>1. /\ PagesRead
        /\ \A n \in Names : Exists(n) /\ OwnerOf[n] \in listed => end[n] = "row"
        /\ \A n \in Names : end[n] \in {"row", "read"} => Exists(n)
    BY <1>1 DEF IInv, StandingStill
  <2>2. \A n : Exists(n)' <=> Exists(n)
    BY <1>1 DEF Exists, Held, registry
  <2>3. PagesRead'
    <3>1. (page' - 1) * PageSize = 0
      BY <1>1, ListingAssumption
    <3>2. \A i \in 1..Len(listing'[Owner']) : ~(i <= 0)
      OBVIOUS
    <3>3. QED
      BY <1>1, <3>1, <3>2 DEF PagesRead
  <2>4. \A n \in Names :
          /\ end'[n] \in {"row", "none"}
          /\ end'[n] = "row" => Exists(n)
          /\ Exists(n) /\ OwnerOf[n] \in listed' => end'[n] = "row"
    BY <1>1, <1>4, <2>1 DEF PagesRead
  <2>5. QED
    BY <1>1, <2>2, <2>3, <2>4 DEF StandingStill
<1>12. QED
  BY <1>5, <1>6, <1>7, <1>10, <1>11 DEF IInv

LEMMA EndWildcardsPreserves == IInv /\ EndWildcards => IInv'
<1> SUFFICES ASSUME IInv, EndWildcards PROVE IInv'
  OBVIOUS
<1>1. /\ phase = "wildcards" /\ ~AtOwner /\ ~AtOwner' /\ phase' = "explicit" /\ turn' = 1
      /\ turn > Len(WildRefs)
      /\ UNCHANGED <<page, rows, walk, reply, end, listed, listingFailed, faulty, registry, cancelled>>
  BY Refs DEF EndWildcards, AtOwner, IInv, Types
<1>2. \A o : Visited(o)' <=> Visited(o)
  BY <1>1, Refs DEF Visited, IInv, Types
<1>3. /\ \A o : NoRowOf(o)' <=> NoRowOf(o)
      /\ \A n : Exists(n)' <=> Exists(n)
  BY <1>1 DEF NoRowOf, Exists, Held, registry
<1>4. Types' /\ Fresh'
  BY <1>1 DEF IInv, Types, Fresh, registry
<1>5. ExplicitInOrder'
  BY <1>1, Refs DEF ExplicitInOrder
<1>6. WalkInOrder'
  BY <1>1, <1>2 DEF IInv, WalkInOrder
<1>7. OutageOnRecord'
  BY <1>1, <1>2, <1>3 DEF IInv, OutageOnRecord
<1>8. StandingStill'
  BY <1>1, <1>3 DEF IInv, StandingStill, PagesRead, registry
<1>9. QED
  BY <1>4, <1>5, <1>6, <1>7, <1>8 DEF IInv

-----------------------------------------------------------------------------
(* The invariant: the fetches of the explicit refs.                        *)

\* In this part no owner is walked and the rows stand.
LEMMA RowsStand ==
  ASSUME IInv, phase \in {"explicit", "answered"}, phase' \in {"explicit", "answered", "done"},
         turn' \in Nat \ {0}, end' \in [Names -> Ends],
         \A n \in Names : end'[n] = "row" <=> end[n] = "row",
         \A n \in Names : end'[n] # end[n] => n \in Explicit[DockerHub],
         UNCHANGED <<page, rows, walk, listed, listingFailed, faulty, registry, cancelled>>
  PROVE  /\ Types' /\ Fresh' /\ WalkInOrder' /\ OutageOnRecord' /\ PagesRead'
         /\ \A n : Exists(n)' <=> Exists(n)
<1>1. /\ \A o : Visited(o)' <=> Visited(o)
      /\ ~AtOwner /\ ~AtOwner'
      /\ \A o : NoRowOf(o)' <=> NoRowOf(o)
      /\ \A n : Exists(n)' <=> Exists(n)
  BY DEF Visited, AtOwner, NoRowOf, Exists, Held, registry
<1>2. Types' /\ Fresh'
  BY DEF IInv, Types, Fresh, registry
<1>3. WalkInOrder'
  BY <1>1 DEF IInv, WalkInOrder
<1>4. OutageOnRecord' /\ PagesRead'
  BY <1>1 DEF IInv, OutageOnRecord, PagesRead
<1>5. QED
  BY <1>1, <1>2, <1>3, <1>4

LEMMA SkipSeenPreserves == IInv /\ SkipSeen => IInv'
<1> SUFFICES ASSUME IInv, SkipSeen PROVE IInv'
  OBVIOUS
<1>1. /\ phase = "explicit" /\ phase' = phase /\ turn \in 1..Len(ExplicitRefs)
      /\ turn' = turn + 1 /\ end[ExplicitRefs[turn]] = "row"
      /\ UNCHANGED <<page, rows, walk, reply, end, listed, listingFailed, faulty, registry, cancelled>>
  BY Refs DEF SkipSeen, MoreRefs, Seen, Ref, IInv, Types
<1>2. /\ Types' /\ Fresh' /\ WalkInOrder' /\ OutageOnRecord' /\ PagesRead'
      /\ \A n : Exists(n)' <=> Exists(n)
  BY <1>1, RowsStand DEF IInv, Types
<1>3. ExplicitInOrder'
  BY <1>1 DEF IInv, ExplicitInOrder
<1>4. StandingStill'
  BY <1>1, <1>2 DEF IInv, StandingStill, registry
<1>5. QED
  BY <1>2, <1>3, <1>4 DEF IInv

LEMMA FetchPreserves == IInv /\ Fetch => IInv'
<1> SUFFICES ASSUME IInv, Fetch PROVE IInv'
  OBVIOUS
<1>1. /\ phase = "explicit" /\ phase' = "answered" /\ turn <= Len(ExplicitRefs)
      /\ end[Ref] # "row" /\ Ref' = Ref
      /\ reply' \in {IF Exists(Ref) THEN "entry" ELSE "404", "error"}
      /\ UNCHANGED <<turn, page, rows, walk, end, listed, listingFailed, faulty, registry, cancelled>>
  BY DEF Fetch, MoreRefs, Seen, Ref
<1>2. /\ Types' /\ Fresh' /\ WalkInOrder' /\ OutageOnRecord' /\ PagesRead'
      /\ \A n : Exists(n)' <=> Exists(n)
  BY <1>1, RowsStand DEF IInv, Types
<1>3. ExplicitInOrder'
  BY <1>1 DEF IInv, ExplicitInOrder
<1>4. StandingStill'
  BY <1>1, <1>2 DEF IInv, StandingStill, registry
<1>5. QED
  BY <1>2, <1>3, <1>4 DEF IInv

LEMMA SortPreserves == IInv /\ Sort => IInv'
<1> SUFFICES ASSUME IInv, Sort PROVE IInv'
  OBVIOUS
<1>1. /\ phase = "answered" /\ turn \in 1..Len(ExplicitRefs) /\ turn' = turn + 1
      /\ Ref \in Names /\ Ref \in Explicit[DockerHub] /\ end[Ref] # "row"
      /\ end' = [end EXCEPT ![Ref] = Outcome] /\ end \in [Names -> Ends]
      /\ phase' \in {"explicit", "done"} /\ (phase' = "done" => cancelled)
      /\ reply \in {"entry", "404", "error"}
      /\ UNCHANGED <<page, rows, walk, listed, listingFailed, faulty, registry, cancelled>>
  BY Refs DEF Sort, Ref, IInv, Types, ExplicitInOrder
<1>2. Outcome \in {"read", "absent", "unread"}
  BY DEF Outcome
<1>3. /\ end' \in [Names -> Ends] /\ end'[Ref] = Outcome
      /\ \A n \in Names : n # Ref => end'[n] = end[n]
  BY <1>1, <1>2 DEF Ends
<1>4. /\ Types' /\ Fresh' /\ WalkInOrder' /\ OutageOnRecord' /\ PagesRead'
      /\ \A n : Exists(n)' <=> Exists(n)
  BY <1>1, <1>2, <1>3, RowsStand
<1>5. ExplicitInOrder'
  <2>1. \A i \in 1..Len(ExplicitRefs) : i < turn' => end'[ExplicitRefs[i]] # "none"
    <3> TAKE i \in 1..Len(ExplicitRefs)
    <3>1. CASE ExplicitRefs[i] = Ref
      BY <1>2, <1>3, <3>1
    <3>2. CASE ExplicitRefs[i] # Ref
      <4>1. i < turn' => i < turn
        BY <1>1, <3>2 DEF Ref
      <4>2. ExplicitRefs[i] \in Names
        BY Refs
      <4>3. QED
        BY <1>1, <1>3, <3>2, <4>1, <4>2 DEF IInv, ExplicitInOrder
    <3>3. QED
      BY <3>1, <3>2
  <2>2. QED
    BY <1>1, <2>1 DEF ExplicitInOrder
<1>6. StandingStill'
  <2> SUFFICES ASSUME churn = 0 PROVE StandingStill'
    BY <1>1 DEF StandingStill, registry
  <2>1. /\ Outcome = "read" => Exists(Ref)
        /\ Outcome = "absent" => ~Exists(Ref)
    BY <1>1 DEF Outcome, IInv, StandingStill
  <2>2. \A n \in Names :
          /\ end'[n] \in {"row", "read"} => Exists(n)
          /\ end'[n] = "absent" => ~Exists(n)
          /\ Exists(n) /\ OwnerOf[n] \in listed => end'[n] = "row"
    BY <1>1, <1>2, <1>3, <2>1 DEF IInv, StandingStill
  <2>3. QED
    BY <1>1, <1>4, <2>2 DEF StandingStill
<1>7. QED
  BY <1>4, <1>5, <1>6 DEF IInv

LEMMA ReturnPreserves == IInv /\ Return => IInv'
<1> SUFFICES ASSUME IInv, Return PROVE IInv'
  OBVIOUS
<1>1. /\ phase = "explicit" /\ phase' = "done" /\ (turn > Len(ExplicitRefs) \/ cancelled)
      /\ UNCHANGED <<turn, page, rows, walk, reply, end, listed, listingFailed, faulty, registry, cancelled>>
  BY DEF Return
<1>2. /\ Types' /\ Fresh' /\ WalkInOrder' /\ OutageOnRecord' /\ PagesRead'
      /\ \A n : Exists(n)' <=> Exists(n)
  BY <1>1, RowsStand DEF IInv, Types
<1>3. ExplicitInOrder'
  BY <1>1, Refs DEF IInv, Types, ExplicitInOrder
<1>4. StandingStill'
  BY <1>1, <1>2 DEF IInv, StandingStill, registry
<1>5. QED
  BY <1>2, <1>3, <1>4 DEF IInv

LEMMA StepPreservesIInv == RInv /\ IInv /\ [Next]_vars => IInv'
  BY StartPreserves, FetchPagePreserves, FailPagePreserves, ClassifyPreserves,
     EndWildcardsPreserves, SkipSeenPreserves, FetchPreserves, SortPreserves,
     ReturnPreserves, ChurnPreserves, CancelPreserves DEF Next, Done, RInv

LEMMA InvariantIInv == Spec => []IInv
  BY InitIInv, StepPreservesIInv, InvariantRInv, PTL DEF Spec

-----------------------------------------------------------------------------
(* The invariant of the type: how far the loops and the walk can get.      *)

Bounds ==
    /\ cancelled \in BOOLEAN /\ reply \in {"none", "entry", "404", "error"}
    /\ page <= MaxOwnerPages + 1 /\ (walk = "reading" => page <= MaxOwnerPages)
    /\ turn <= 1 + IF phase \in {"idle", "wildcards"} THEN Len(WildRefs) ELSE Len(ExplicitRefs)

LEMMA InvariantBounds == Spec => []Bounds
<1>1. MaxOwnerPages \in Nat \ {0} /\ Len(WildRefs) \in Nat /\ Len(ExplicitRefs) \in Nat
  BY HubAssumption, Refs
<1>2. Init => Bounds
  <2> SUFFICES ASSUME Init PROVE Bounds
    OBVIOUS
  <2>1. cancelled \in BOOLEAN
    BY DEF Init
  <2>2. QED
    BY <1>1, <2>1 DEF Init, Bounds
<1>3. IInv /\ Bounds /\ [Next]_vars => Bounds'
  <2> SUFFICES ASSUME IInv, Bounds, [Next]_vars PROVE Bounds'
    OBVIOUS
  <2>1. turn \in Nat \ {0} /\ page \in Nat \ {0} /\ (phase = "answered" => turn <= Len(ExplicitRefs))
    BY DEF IInv, Types, ExplicitInOrder
  <2>2. CASE FetchPage
    BY <1>1, <2>1, <2>2 DEF FetchPage, Walking, WalkEnd, Bounds
  <2>3. CASE Start \/ FailPage \/ Classify \/ EndWildcards
    BY <1>1, <2>1, <2>3 DEF Start, FailPage, Walking, Classify, EndWildcards, Bounds
  <2>4. CASE SkipSeen \/ Fetch \/ Return
    BY <1>1, <2>1, <2>4 DEF SkipSeen, Fetch, Return, MoreRefs, Bounds
  <2>5. CASE Sort
    BY <1>1, <2>1, <2>5 DEF Sort, Outcome, Bounds
  <2>6. CASE Delist \/ Enlist \/ UNCHANGED vars
    BY <2>6 DEF Delist, Enlist, vars, reader, Bounds
  <2>7. CASE Cancel
    <3>1. cancelled' \in BOOLEAN
      BY <2>7 DEF Cancel
    <3>2. QED
      BY <2>7, <3>1 DEF Cancel, reader, Bounds
  <2>8. QED
    BY <2>2, <2>3, <2>4, <2>5, <2>6, <2>7 DEF Next, Done
<1>4. QED
  BY <1>2, <1>3, InvariantIInv, PTL DEF Spec

-----------------------------------------------------------------------------
(* The invariant of the loss: a removal moves at most one row across the   *)
(* cursor of a walk, and an appearance none that was not gone before.      *)

\* Rows the walk has passed without reading, though they were never gone.
Passed == {n \in Names \ gone : n \notin rows /\ n \in Behind(Owner, (page - 1) * PageSize)}

\* Names of an owner that were never gone and that this set has not.
Lacking(o, known) == {n \in Names \ gone : OwnerOf[n] = o /\ n \notin known}

Measured == {n \in Names : end[n] = "row"}

LossInv ==
    /\ AtOwner => /\ walk = "reading" => Cardinality(Passed) <= removals[Owner]
                  /\ walk = "whole" => Cardinality(Lacking(Owner, rows)) <= removals[Owner]
    /\ \A o \in listed : Cardinality(Lacking(o, Measured)) <= removals[o]

LEMMA NamesFinite ==
  ASSUME NEW S, S \subseteq Names
  PROVE  IsFiniteSet(S) /\ Cardinality(S) \in Nat
<1>1. IsFiniteSet(S)
  BY FS_Subset, ContractAssumption
<1>2. QED
  BY <1>1, FS_CardinalityType

\* A smaller set of names under a bound that has not fallen.
LEMMA StillBounded ==
  ASSUME NEW S, S \subseteq Names, NEW T, T \subseteq S,
         NEW m \in Nat, NEW n \in Nat, m <= n, Cardinality(S) <= m
  PROVE  Cardinality(T) <= n
<1>1. IsFiniteSet(S) /\ Cardinality(S) \in Nat /\ Cardinality(T) \in Nat
  BY NamesFinite
<1>2. Cardinality(T) <= Cardinality(S)
  BY <1>1, FS_Subset
<1>3. QED
  BY <1>1, <1>2

\* One name more under a bound that is one more.
LEMMA OneMore ==
  ASSUME NEW S, S \subseteq Names, NEW x, NEW T, T \subseteq S \union {x},
         NEW m \in Nat, Cardinality(S) <= m
  PROVE  Cardinality(T) <= m + 1
<1>1. IsFiniteSet(S) /\ Cardinality(S) \in Nat
  BY NamesFinite
<1>2. IsFiniteSet(S \union {x}) /\ Cardinality(S \union {x}) <= Cardinality(S) + 1
  <2>1. /\ IsFiniteSet(S \union {x})
        /\ Cardinality(S \union {x}) = IF x \in S THEN Cardinality(S) ELSE Cardinality(S) + 1
    BY <1>1, FS_AddElement
  <2>2. QED
    BY <1>1, <2>1
<1>3. Cardinality(T) <= Cardinality(S \union {x})
  BY <1>2, FS_Subset
<1>4. IsFiniteSet(T)
  BY <1>2, FS_Subset
<1>5. Cardinality(T) \in Nat /\ Cardinality(S \union {x}) \in Nat
  BY <1>2, <1>4, FS_CardinalityType
<1>6. QED
  BY <1>1, <1>2, <1>3, <1>5

\* What a listed owner lacks stays within its removals while the names are
\* measured or gone for good.
LEMMA ListedStand ==
  ASSUME RInv, RInv', LossInv, Types, listed' = listed, gone \subseteq gone', Measured \subseteq Measured',
         \A o \in Owners : removals[o] <= removals'[o]
  PROVE  \A o \in listed' : Cardinality(Lacking(o, Measured)') <= removals'[o]
<1> SUFFICES ASSUME NEW o \in listed PROVE Cardinality(Lacking(o, Measured)') <= removals'[o]
  OBVIOUS
<1>1. o \in Owners /\ removals[o] \in Nat /\ removals'[o] \in Nat
  BY DEF Types, RInv, GoodRegistry
<1>2. Lacking(o, Measured) \subseteq Names /\ Lacking(o, Measured)' \subseteq Lacking(o, Measured)
  BY DEF Lacking
<1>3. Cardinality(Lacking(o, Measured)) <= removals[o]
  BY DEF LossInv
<1>4. QED
  BY <1>1, <1>2, <1>3, StillBounded

\* Before its first page a walk has passed nothing.
LEMMA NothingPassedYet ==
  ASSUME RInv', AtOwner', page' = 1
  PROVE  Cardinality(Passed') <= removals'[Owner']
<1>1. (page' - 1) * PageSize = 0
  BY ListingAssumption
<1>2. Passed' = {}
  BY <1>1 DEF Passed, Behind
<1>3. Cardinality(Passed') = 0
  BY <1>2, FS_EmptySet
<1>4. removals'[Owner'] \in Nat
  BY Refs DEF AtOwner, Owner, RInv, GoodRegistry
<1>5. QED
  BY <1>3, <1>4

LEMMA FetchPageBoundsLoss ==
  ASSUME RInv, IInv, LossInv, FetchPage, AtOwner', Owner' = Owner
  PROVE  /\ walk' = "reading" => Cardinality(Passed') <= removals[Owner]
         /\ walk' = "whole" => Cardinality(Lacking(Owner, rows)') <= removals[Owner]
<1> DEFINE l == listing[Owner]
<1>1. /\ AtOwner /\ walk = "reading" /\ page \in Nat \ {0} /\ page' = page + 1
      /\ rows' = rows \union Kept(l, page) /\ walk' = WalkEnd(More(l, page), page)
      /\ gone' = gone /\ listing' = listing
  BY Refs DEF FetchPage, Walking, AtOwner, IInv, Types, registry
<1>2. Owner \in Owners /\ Len(l) \in Nat /\ removals[Owner] \in Nat
  BY <1>1, OwnerIsNext DEF IInv, RInv, GoodRegistry, OwnListings
<1>3. ASSUME NEW i \in 1..Len(l), i <= page * PageSize, l[i] \in Names \ gone, l[i] \notin rows'
      PROVE  l[i] \in Passed
  <2>1. l[i] \notin PageOf(l, page) /\ l[i] \notin rows
    BY <1>1, <1>3, ListingAssumption DEF Kept
  <2>2. (page - 1) * PageSize \in Nat
    BY <1>1, PageBounds
  <2>3. ~((page - 1) * PageSize < i)
    BY <1>3, <2>1, PageRows
  <2>4. i <= (page - 1) * PageSize
    BY <2>2, <2>3
  <2>5. QED
    BY <1>3, <2>1, <2>4 DEF Passed, Behind
<1>4. (page' - 1) * PageSize = page * PageSize /\ page * PageSize \in Nat
  BY <1>1, PageBounds
<1>5. Passed' \subseteq Passed
  BY <1>1, <1>3, <1>4 DEF Passed, Behind
<1>6. ASSUME walk' = "whole" PROVE Lacking(Owner, rows)' \subseteq Passed
  <2>1. Len(l) <= page * PageSize
    BY <1>1, <1>2, <1>4, <1>6 DEF WalkEnd, More
  <2>2. ASSUME NEW n \in Lacking(Owner, rows)' PROVE n \in Passed
    <3>1. n \in Names \ gone /\ OwnerOf[n] = Owner /\ n \notin rows'
      BY <1>1, <2>2 DEF Lacking
    <3>2. PICK i \in 1..Len(l) : l[i] = n
      BY <1>1, <1>2, <3>1, ListingHolds DEF RInv, GoneKnows, GoodRegistry, AtOwner
    <3>3. i <= page * PageSize
      BY <1>2, <1>4, <2>1
    <3>4. QED
      BY <1>3, <3>1, <3>2, <3>3
  <2>3. QED
    BY <2>2
<1>7. Passed \subseteq Names /\ Cardinality(Passed) <= removals[Owner]
  BY <1>1 DEF LossInv, Passed
<1>8. Cardinality(Passed') <= removals[Owner]
  BY <1>2, <1>5, <1>7, StillBounded
<1>9. QED
  BY <1>2, <1>6, <1>7, <1>8, StillBounded

LEMMA ChurnBoundsLoss ==
  ASSUME RInv, RInv', IInv, LossInv, Delist \/ Enlist
  PROVE  LossInv'
<1>1. /\ UNCHANGED reader /\ phase # "idle" /\ (AtOwner' <=> AtOwner) /\ Owner' = Owner
      /\ Measured' = Measured
  BY DEF Delist, Enlist, Running, reader, AtOwner, Owner, Measured
<1>2. GoodRegistry /\ GoneKnows
  BY <1>1 DEF RInv
<1>3. /\ gone \subseteq gone'
      /\ \A o \in Owners : removals[o] \in Nat /\ removals'[o] \in Nat /\ removals[o] <= removals'[o]
  <2>1. CASE Delist
    BY <1>2, <2>1, WithdrawKeepsRegistry DEF Delist, GoodRegistry
  <2>2. CASE Enlist
    BY <1>2, <2>2, AppearKeepsRegistry DEF Enlist, GoodRegistry
  <2>3. QED
    BY <2>1, <2>2
<1>4. \A o \in listed' : Cardinality(Lacking(o, Measured)') <= removals'[o]
  BY <1>1, <1>3, ListedStand DEF IInv, reader
<1>5. ASSUME AtOwner, walk = "reading" PROVE Cardinality(Passed') <= removals'[Owner]
  <2>1. PICK w \in Owners : w = Owner
    BY <1>5, OwnerIsNext DEF IInv
  <2>2. PICK k \in Nat : k = (page - 1) * PageSize
    BY PageBounds DEF IInv, Types
  <2>3. /\ Passed = {n \in Names \ gone : n \notin rows /\ n \in Behind(w, k)}
        /\ Passed' = {n \in Names \ gone' : n \notin rows /\ n \in Behind(w, k)'}
    BY <1>1, <2>1, <2>2 DEF Passed, Behind, reader
  <2>4. Cardinality(Passed) <= removals[w] /\ Passed \subseteq Names
    BY <1>5, <2>1 DEF LossInv, Passed
  <2>5. CASE Delist
    <3>1. PICK o \in Owners : Withdraw(o)
      BY <2>5 DEF Delist
    <3>2. /\ removals' = [removals EXCEPT ![o] = @ + 1]
          /\ \A p \in Owners : p # o => listing'[p] = listing[p]
          /\ \E x : Behind(o, k)' \subseteq Behind(o, k) \union {x}
      BY <1>2, <3>1, WithdrawKeepsRegistry
    <3>3. CASE o = w
      <4>1. PICK x : Behind(w, k)' \subseteq Behind(w, k) \union {x}
        BY <3>2, <3>3
      <4>2. Passed' \subseteq Passed \union {x}
        BY <1>3, <2>3, <4>1
      <4>3. removals'[w] = removals[w] + 1
        BY <3>2, <3>3 DEF GoodRegistry, RInv
      <4>4. QED
        BY <1>3, <2>1, <2>4, <4>2, <4>3, OneMore
    <3>4. CASE o # w
      <4>1. Behind(w, k)' = Behind(w, k)
        BY <3>2, <3>4 DEF Behind
      <4>2. Passed' \subseteq Passed
        BY <1>3, <2>3, <4>1
      <4>3. QED
        BY <1>3, <2>1, <2>4, <4>2, StillBounded
    <3>5. QED
      BY <3>3, <3>4
  <2>6. CASE Enlist
    <3>1. PICK n \in Names : Appear(n)
      BY <2>6 DEF Enlist
    <3>2. n \in gone /\ Behind(w, k)' \subseteq Behind(w, k) \union {n}
      BY <1>2, <3>1, AppearKeepsRegistry
    <3>3. Passed' \subseteq Passed
      BY <1>3, <2>3, <3>2
    <3>4. QED
      BY <1>3, <2>1, <2>4, <3>3, StillBounded
  <2>7. QED
    BY <2>5, <2>6
<1>6. ASSUME AtOwner, walk = "whole" PROVE Cardinality(Lacking(Owner, rows)') <= removals'[Owner]
  <2>1. Owner \in Owners
    BY <1>6, OwnerIsNext DEF IInv
  <2>2. Lacking(Owner, rows)' \subseteq Lacking(Owner, rows) /\ Lacking(Owner, rows) \subseteq Names
    BY <1>1, <1>3 DEF Lacking, reader
  <2>3. Cardinality(Lacking(Owner, rows)) <= removals[Owner]
    BY <1>6 DEF LossInv
  <2>4. QED
    BY <1>3, <2>1, <2>2, <2>3, StillBounded
<1>7. QED
  BY <1>1, <1>4, <1>5, <1>6 DEF LossInv, reader

LEMMA InvariantLossInv == Spec => []LossInv
<1>1. Init => LossInv
  BY DEF Init, LossInv, AtOwner
<1>2. RInv /\ RInv' /\ IInv /\ IInv' /\ LossInv /\ [Next]_vars => LossInv'
  <2> SUFFICES ASSUME RInv, RInv', IInv, IInv', LossInv, [Next]_vars PROVE LossInv'
    OBVIOUS
  <2>1. CASE Delist \/ Enlist
    BY <2>1, ChurnBoundsLoss
  <2>2. CASE Start
    BY <2>2, NothingPassedYet DEF Start, IInv, Fresh, LossInv
  <2>3. CASE UNCHANGED registry
    <3>1. /\ gone' = gone /\ removals' = removals /\ listing' = listing
          /\ \A o \in Owners : removals[o] \in Nat
      BY <2>3 DEF registry, RInv, GoodRegistry
    <3>2. ASSUME listed' = listed, Measured \subseteq Measured'
          PROVE  \A o \in listed' : Cardinality(Lacking(o, Measured)') <= removals'[o]
      BY <3>1, <3>2, ListedStand DEF IInv
    <3>3. CASE FetchPage
      <4>1. AtOwner /\ AtOwner' /\ Owner' = Owner /\ listed' = listed /\ Measured' = Measured
        BY <3>3, Refs DEF FetchPage, Walking, AtOwner, Owner, Measured, IInv, Types
      <4>2. QED
        BY <3>1, <3>2, <3>3, <4>1, FetchPageBoundsLoss DEF LossInv
    <3>4. CASE FailPage
      <4>1. walk' = "failed" /\ listed' = listed /\ Measured' = Measured
        BY <3>4 DEF FailPage, Measured
      <4>2. QED
        BY <3>2, <4>1 DEF LossInv
    <3>5. CASE Classify
      <4>1. /\ AtOwner /\ page' = 1 /\ walk' = "reading"
            /\ listed' = IF walk = "whole" /\ ~cancelled THEN listed \union {Owner} ELSE listed
            /\ Measured' = Measured \union rows
        BY <3>5, Refs DEF Classify, AtOwner, Measured, IInv, Types
      <4>2. ASSUME NEW o \in listed' PROVE Cardinality(Lacking(o, Measured)') <= removals[o]
        <5>1. Lacking(o, Measured)' = Lacking(o, Measured \union rows)
          BY <3>1, <4>1 DEF Lacking
        <5>2. o \in Owners
          BY <4>2 DEF IInv, Types
        <5>3. CASE o \in listed
          <6>1. /\ Lacking(o, Measured \union rows) \subseteq Lacking(o, Measured)
                /\ Lacking(o, Measured) \subseteq Names
            BY DEF Lacking
          <6>2. QED
            BY <3>1, <5>1, <5>2, <5>3, <6>1, StillBounded DEF LossInv
        <5>4. CASE o \notin listed
          <6>1. /\ Lacking(o, Measured \union rows) \subseteq Lacking(o, rows)
                /\ Lacking(o, rows) \subseteq Names
            BY DEF Lacking
          <6>2. o = Owner /\ Cardinality(Lacking(o, rows)) <= removals[o]
            BY <4>1, <4>2, <5>4 DEF LossInv
          <6>3. QED
            BY <3>1, <5>1, <5>2, <6>1, <6>2, StillBounded
        <5>5. QED
          BY <5>3, <5>4
      <4>3. QED
        BY <3>1, <4>1, <4>2, NothingPassedYet DEF LossInv
    <3>6. CASE EndWildcards \/ SkipSeen \/ Fetch \/ Sort \/ Return
      <4>1. listed' = listed /\ ~AtOwner'
        BY <3>6, Refs DEF EndWildcards, SkipSeen, Fetch, Sort, Return, MoreRefs, AtOwner, IInv, Types
      <4>2. Measured \subseteq Measured'
        BY <3>6 DEF EndWildcards, SkipSeen, Fetch, Sort, Return, Measured, IInv, Types, ExplicitInOrder
      <4>3. QED
        BY <3>2, <4>1, <4>2 DEF LossInv
    <3>7. CASE Cancel \/ UNCHANGED vars
      <4>1. UNCHANGED reader
        BY <3>7 DEF Cancel, vars
      <4>2. QED
        BY <3>1, <4>1 DEF reader, LossInv, AtOwner, Passed, Behind, Lacking, Measured, Owner
    <3>8. QED
      BY <3>3, <3>4, <3>5, <3>6, <3>7, <2>1, <2>2 DEF Next, Done
  <2>4. QED
    BY <2>1, <2>2, <2>3 DEF Next, FetchPage, FailPage, Classify, EndWildcards, SkipSeen,
         Fetch, Sort, Return, Cancel, Done, vars
<1>3. QED
  BY <1>1, <1>2, InvariantRInv, InvariantIInv, PTL DEF Spec

-----------------------------------------------------------------------------
(* The theorems.                                                           *)

\* On a registry that stands still the reader's collection is what the
\* accounting assumes of it: never false, and whole unless it was cut short
\* (client.go:96-243, registry.go).
THEOREM HonoursContractAlways == Spec => []HonoursContract
<1>1. IInv => HonoursContract
  <2> SUFFICES ASSUME IInv, phase = "done", churn = 0
               PROVE  IF cancelled THEN Truthful(DockerHub, Pop, Collection)
                                   ELSE Whole(DockerHub, Pop, Collection)
    BY DEF HonoursContract
  <2> DEFINE c == Collection
  <2>1. c.end = end /\ c.listed = listed /\ c.listingFailed = listingFailed
    BY DEF Collection
  <2>2. \A n \in Names : n \in Pop <=> Exists(n)
    BY DEF Pop
  <2>3. \A o : Visited(o) => o \in Wildcard[DockerHub]
    BY Refs DEF Visited
  <2>4. listed \subseteq Wildcard[DockerHub]
    BY <2>3 DEF IInv, WalkInOrder
  <2>5. listingFailed =>
          \E o \in Wildcard[DockerHub] \ listed :
             \A n \in Names \ Explicit[DockerHub] : OwnerOf[n] = o => end[n] = "none"
    BY <2>3 DEF IInv, OutageOnRecord, NoRowOf, WalkInOrder
  <2>6. \A n \in Names :
          /\ end[n] = "row" => Exists(n) /\ Wild(DockerHub, n)
          /\ end[n] = "read" => Exists(n) /\ Covered(DockerHub, n)
          /\ end[n] = "absent" => ~Exists(n) /\ n \in Explicit[DockerHub]
          /\ end[n] = "unread" => n \in Explicit[DockerHub]
    BY <2>3 DEF IInv, WalkInOrder, StandingStill, Wild, Covered
  <2>7. c \in CollectionType
    <3>1. listingFailed \in BOOLEAN
      BY DEF IInv, Types
    <3>2. QED
      BY <3>1 DEF IInv, Types, Collection, CollectionType
  <2>8. Truthful(DockerHub, Pop, c)
    BY <2>1, <2>2, <2>4, <2>5, <2>6, <2>7 DEF Truthful
  <2>9. CASE ~cancelled
    <3>1. \A n \in Explicit[DockerHub] : end[n] # "none"
      BY <2>9, Refs DEF IInv, ExplicitInOrder
    <3>2. \A n \in Pop : OwnerOf[n] \in listed => end[n] = "row"
      BY <2>2 DEF IInv, StandingStill, Pop
    <3>3. QED
      BY <2>1, <2>8, <2>9, <3>1, <3>2 DEF Whole
  <2>10. QED
    BY <2>8, <2>9
<1>2. QED
  BY <1>1, InvariantIInv, PTL

\* However the registry changes meanwhile, ListingFailed is set exactly when an
\* owner's listing broke on a live context before a row was kept
\* (client.go:124-131).
THEOREM ListingFailedIsAnOutageAlways == Spec => []ListingFailedIsAnOutage
<1>1. IInv => ListingFailedIsAnOutage
  <2> SUFFICES ASSUME IInv PROVE ListingFailedIsAnOutage
    OBVIOUS
  <2>1. phase = "done" => \A o \in faulty : Visited(o)
    BY DEF IInv, WalkInOrder, AtOwner
  <2>2. QED
    BY <2>1 DEF IInv, OutageOnRecord, NoRowOf, ListingFailedIsAnOutage
<1>2. QED
  BY <1>1, InvariantIInv, PTL
\* Every reachable state of a Collect is well formed: the walk stays within
\* its cap and the loops within their lists.
THEOREM TypeCorrect == Spec => []TypeOK
<1>1. RInv /\ IInv /\ Bounds => TypeOK
  <2> SUFFICES ASSUME RInv, IInv, Bounds PROVE TypeOK
    OBVIOUS
  <2>1. RegistryTypeOK
    <3>1. ASSUME NEW o \in Owners
          PROVE  Held(o) \subseteq Names \union Unsafe /\ IsInjective(listing[o])
      <4>1. listing[o] \in Seq(Names \union Unsafe)
        BY DEF RInv, GoodRegistry, OwnListings
      <4>2. DOMAIN listing[o] = 1..Len(listing[o])
        BY <4>1
      <4>3. QED
        BY <4>1, <4>2 DEF RInv, GoodRegistry, SingleRows, Held, ToSet, IsInjective
    <3>2. QED
      BY <3>1 DEF RInv, GoodRegistry, RegistryTypeOK
  <2>2. /\ turn \in 1..Len(WildRefs) + Len(ExplicitRefs) + 1
        /\ page \in 1..MaxOwnerPages + 1
    BY Refs, HubAssumption DEF IInv, Types, Bounds
  <2>3. Collection \in CollectionType
    BY DEF IInv, Types, Collection, CollectionType
  <2>4. cancelled \in BOOLEAN
    BY DEF Bounds
  <2>5. QED
    BY <2>1, <2>2, <2>3, <2>4 DEF TypeOK, IInv, Types, Bounds
<1>2. QED
  BY <1>1, InvariantRInv, InvariantIInv, InvariantBounds, PTL

\* A walk loses no more of an owner's repositories than were removed while it
\* ran, however removals, appearances and requests interleave
\* (client.go:253-287).
THEOREM LossBoundedByRemovalsAlways == Spec => []LossBoundedByRemovals
<1>1. LossInv => LossBoundedByRemovals
  <2> SUFFICES ASSUME LossInv, NEW o \in listed
               PROVE  Cardinality({n \in Names \ gone : OwnerOf[n] = o /\ end[n] # "row"}) <= removals[o]
    BY DEF LossBoundedByRemovals
  <2>1. {n \in Names \ gone : OwnerOf[n] = o /\ end[n] # "row"} = Lacking(o, Measured)
    BY DEF Lacking, Measured
  <2>2. QED
    BY <2>1 DEF LossInv
<1>2. QED
  BY <1>1, InvariantLossInv, PTL

=============================================================================
