-------------------------------- MODULE Ghcr --------------------------------
(***************************************************************************)
(* One Collect of the GHCR reader (src/internal/ghcr): every owner/* ref is*)
(* expanded by reading its packages listing, first in the organization's   *)
(* form and then in the user's, and every package found or configured is   *)
(* scraped.  The pages are HTML: each may print how many packages it shows,*)
(* which is the only check that its links were all recognised.             *)
(*                                                                         *)
(* GitHub serves the truth or fails; what the reader recognises of a page  *)
(* may be less than what it shows, and the printed count may be unusable.  *)
(***************************************************************************)
EXTENDS MovingListing

CONSTANTS
    WildRefs,           \* the owners of the owner/* refs, in configuration order
    Kinds,              \* the account kinds the owners may have, see AccountKinds
    MaxListingPages     \* maxListingPages

AccountKinds == {"org", "user", "none"}

ASSUME GhcrAssumption ==
    /\ WildRefs \in Seq(Owners)
    /\ ToSet(WildRefs) = Wildcard[GHCR] /\ IsInjective(WildRefs)
    /\ Kinds \subseteq [Owners -> AccountKinds] /\ Kinds # {}
    /\ MaxListingPages \in Nat \ {0}

VARIABLES
    phase,          \* where Collect is
    cancelled,      \* ctx.Err() # nil
    kind,           \* [Owners -> AccountKinds]
    turn,           \* the ref of the running loop
    form,           \* the listing form being read
    page,           \* the page it asks for next
    names,          \* the names this form has given
    refused,        \* it showed a name the allowlist refuses
    unchecked,      \* a page of it stated no usable count
    walk,           \* "reading", or how the walk ended
    orgWalk,        \* how the organization form ended, once the user form is read
    packages,       \* the packages to scrape, in order
    reply,          \* what the running scrape answered
    end,            \* [Names -> Ends], the collection so far
    listed,         \* Listed
    listingFailed,  \* ListingFailed
    faulty,         \* owners whose own listing was not read as it stood
    wasEmpty        \* owners without a package at some time since Collect began

lister == <<form, page, names, refused, unchecked, walk, orgWalk>>
collection == <<end, listed, listingFailed>>
vars == <<phase, cancelled, kind, turn, lister, packages, reply, collection, faulty,
          wasEmpty, registry>>

FreshLister ==
    /\ form' = "org" /\ page' = 1 /\ names' = {} /\ refused' = FALSE
    /\ unchecked' = FALSE /\ walk' = "reading" /\ orgWalk' = "none"

Init ==
    /\ phase = "idle" /\ cancelled = FALSE /\ kind \in Kinds
    /\ RegistryInit
    /\ turn = 1 /\ form = "org" /\ page = 1 /\ names = {} /\ refused = FALSE
    /\ unchecked = FALSE /\ walk = "reading" /\ orgWalk = "none"
    /\ packages = <<>> /\ reply = "none"
    /\ end = [n \in Names |-> "none"] /\ listed = {} /\ listingFailed = FALSE
    /\ faulty = {} /\ wasEmpty = {}

Start ==
    /\ phase = "idle"
    /\ phase' = "wildcards"
    /\ Populate
    /\ \A o \in Owners : kind[o] = "none" => listing'[o] = <<>>
    /\ wasEmpty' = {o \in Owners : kind[o] # "none" /\ listing'[o] = <<>>}
    /\ UNCHANGED <<cancelled, kind, turn, lister, packages, reply, collection, faulty>>

-----------------------------------------------------------------------------
(* readListing: the pages of one form of one owner's listing.              *)

Owner == WildRefs[turn]

\* An organization has no packages page in the user form: the request is
\* redirected to its profile, a page without package links or count.
Profile == form = "user" /\ kind[Owner] = "org"
\* The form answers 404.
NoSuchPage == kind[Owner] = "none" \/ (form = "org" /\ kind[Owner] = "user")

Unusable == -1

\* What parsePackageList and statedPackages may make of the page GitHub serves:
\* any part of its links, and its count or none.
Pages ==
    IF Profile THEN [rows: {{}}, stated: {Unusable}]
    ELSE LET shown == PageOf(listing[Owner], page) IN
         [rows: SUBSET shown, stated: {Cardinality(shown), Unusable}]

RefusedOn(p) == p.rows \intersect Unsafe # {}

\* Mutant: the printed count is never compared with the links found.
MiscountedNever(p) == FALSE

\* listingPagePopulation: the count and the links disagree.
Miscounted(p) == p.stated # Unusable /\ p.stated # Cardinality(p.rows)

\* appendUnseenNames.
Unseen(p) == p.rows \ (Unsafe \union names)

\* Mutant: any page without a new name is a clean end.
LastPageEndReserved(p) ==
    IF RefusedOn(p) THEN "format"
    ELSE IF names = {} /\ p.stated = 0 THEN "empty" ELSE "end"

\* A page without a new name ends the walk: cleanly if it shows nothing, and
\* with proof of an empty owner if it says so and nothing came before.
LastPageEnd(p) ==
    IF p.rows # {} THEN "format"
    ELSE IF names = {} /\ p.stated = 0 THEN "empty" ELSE "end"

\* Mutant: the page after the cap is read too.
PageEndUncapped(p) ==
    IF Miscounted(p) THEN "format"
    ELSE IF Unseen(p) = {} THEN LastPageEnd(p) ELSE "reading"

\* How the walk stands after a page.
PageEnd(p) ==
    IF Miscounted(p) THEN "format"
    ELSE IF Unseen(p) = {} THEN LastPageEnd(p)
    ELSE IF page = MaxListingPages THEN "capped" ELSE "reading"

Walking == phase = "wildcards" /\ turn <= Len(WildRefs) /\ walk = "reading"

ReadPage ==
    /\ Walking /\ ~cancelled /\ ~NoSuchPage
    /\ \E p \in Pages :
        /\ walk' = PageEnd(p)
        /\ names' = IF Miscounted(p) THEN names ELSE names \union Unseen(p)
        /\ refused' = (refused \/ RefusedOn(p))
        /\ unchecked' = (unchecked \/ p.stated = Unusable)
        /\ faulty' = IF ~Profile /\ (PageEnd(p) = "format" \/ p.stated = Unusable)
                     THEN faulty \union {Owner} ELSE faulty
    /\ page' = page + 1
    /\ UNCHANGED <<phase, cancelled, kind, turn, form, orgWalk, packages, reply, collection,
                   wasEmpty, registry>>

NotFound ==
    /\ Walking /\ ~cancelled /\ NoSuchPage
    /\ walk' = "404"
    /\ faulty' = IF kind[Owner] = "none" THEN faulty \union {Owner} ELSE faulty
    /\ UNCHANGED <<phase, cancelled, kind, turn, form, page, names, refused, unchecked, orgWalk,
                   packages, reply, collection, wasEmpty, registry>>

\* The request failed, or the context ended it.
FailPage ==
    /\ Walking
    /\ walk' = "failed"
    /\ faulty' = IF ~cancelled /\ (form = kind[Owner] \/ kind[Owner] = "none")
                 THEN faulty \union {Owner} ELSE faulty
    /\ UNCHANGED <<phase, cancelled, kind, turn, form, page, names, refused, unchecked, orgWalk,
                   packages, reply, collection, wasEmpty, registry>>

-----------------------------------------------------------------------------
(* scrapePackageList and expandWildcard.                                   *)

Ended == phase = "wildcards" /\ turn <= Len(WildRefs) /\ walk # "reading"

\* Mutant: only a 404 of the organization form has the user form tried.
NotAnOrgOn404 == form = "org" /\ walk = "404"

\* The organization form gave neither a name nor a listing that states zero.
NotAnOrg == form = "org" /\ names = {} /\ walk # "empty"

TryUser ==
    /\ Ended /\ NotAnOrg
    /\ form' = "user" /\ orgWalk' = walk
    /\ page' = 1 /\ walk' = "reading" /\ unchecked' = FALSE /\ refused' = FALSE
    /\ UNCHANGED <<phase, cancelled, kind, turn, names, packages, reply, collection, faulty,
                   wasEmpty, registry>>

\* How the whole listing ended: without a name, an organization form that
\* failed is what counts, and a user form that shows nothing proves nothing.
ListingEnd ==
    IF form = "org" \/ names # {} THEN walk
    ELSE IF orgWalk \notin {"404", "end"} THEN orgWalk
    ELSE IF walk = "end" THEN "format" ELSE walk

Errored == ListingEnd \notin {"end", "capped"}

\* An error under a dead context is a stop.
Stopped == Errored /\ cancelled

\* No names, and no statement that there are none.
WhollyFailed == Errored /\ ~cancelled /\ names = {} /\ ListingEnd # "empty"

\* Read to its end, every page's count checked, no candidate refused.
ReadWhole == ListingEnd \in {"end", "empty"} /\ ~unchecked /\ ~refused

\* The names a loop adds to the packages it has, one after the other.
NotIn(s, t) == SetToSeq(s \ ToSet(t))

Expand ==
    /\ Ended /\ ~NotAnOrg
    /\ packages' = IF Stopped THEN packages ELSE packages \o NotIn(names, packages)
    /\ listed' = IF ReadWhole /\ ~Stopped THEN listed \union {Owner} ELSE listed
    /\ listingFailed' = (listingFailed \/ WhollyFailed)
    /\ turn' = turn + 1
    /\ FreshLister
    /\ UNCHANGED <<phase, cancelled, kind, reply, end, faulty, wasEmpty, registry>>

\* buildPackageList: the explicit refs no listing gave follow the ones it did.
EndWildcards ==
    /\ phase = "wildcards" /\ turn > Len(WildRefs)
    /\ phase' = "packages" /\ turn' = 1
    /\ packages' = packages \o NotIn(Explicit[GHCR], packages)
    /\ UNCHANGED <<cancelled, kind, lister, reply, collection, faulty, wasEmpty, registry>>

-----------------------------------------------------------------------------
(* Collect's loop over scrapePackage.                                      *)

Package == packages[turn]

\* The page of a package that exists gives an entry, that of one that does not
\* a 404; either request may fail, or the page be unreadable.
Scrape ==
    /\ phase = "packages" /\ turn <= Len(packages) /\ ~cancelled
    /\ phase' = "answered"
    /\ reply' \in {IF Exists(Package) THEN "entry" ELSE "404", "error"}
    /\ UNCHANGED <<cancelled, kind, turn, lister, packages, collection, faulty, wasEmpty, registry>>

\* An error under a dead context breaks the loop, whatever the error.
Interrupted == cancelled /\ reply # "entry"

Outcome ==
    IF reply = "entry" THEN "read" ELSE IF reply = "404" THEN "absent" ELSE "unread"

Sort ==
    /\ phase = "answered"
    /\ phase' = IF Interrupted THEN "done" ELSE "packages"
    /\ end' = IF Interrupted THEN end ELSE [end EXCEPT ![Package] = Outcome]
    /\ turn' = turn + 1 /\ reply' = "none"
    /\ UNCHANGED <<cancelled, kind, lister, packages, listed, listingFailed, faulty, wasEmpty, registry>>

\* The loop is over, or the next request fails at once under a dead context.
Return ==
    /\ phase = "packages" /\ (turn > Len(packages) \/ cancelled)
    /\ phase' = "done"
    /\ UNCHANGED <<cancelled, kind, turn, lister, packages, reply, collection, faulty, wasEmpty, registry>>

-----------------------------------------------------------------------------
(* The environment.                                                        *)

Running == phase \notin {"idle", "done"}

Delist ==
    /\ Running
    /\ \E o \in Owners :
        /\ Withdraw(o)
        /\ wasEmpty' = IF listing'[o] = <<>> THEN wasEmpty \union {o} ELSE wasEmpty
    /\ UNCHANGED <<phase, cancelled, kind, turn, lister, packages, reply, collection, faulty>>

Enlist ==
    /\ Running
    /\ \E n \in Names : kind[OwnerOf[n]] # "none" /\ Appear(n)
    /\ UNCHANGED <<phase, cancelled, kind, turn, lister, packages, reply, collection, faulty, wasEmpty>>

Cancel ==
    /\ Running /\ ~cancelled
    /\ cancelled' = TRUE
    /\ UNCHANGED <<phase, kind, turn, lister, packages, reply, collection, faulty, wasEmpty, registry>>

\* Collect has returned.
Done == phase = "done" /\ UNCHANGED vars

Next == \/ Start \/ ReadPage \/ NotFound \/ FailPage \/ TryUser \/ Expand \/ EndWildcards
        \/ Scrape \/ Sort \/ Return
        \/ Delist \/ Enlist \/ Cancel \/ Done

Spec == Init /\ [][Next]_vars

-----------------------------------------------------------------------------
(* Properties.                                                             *)

Collection == [end |-> end, listed |-> listed, listingFailed |-> listingFailed]

\* Owners without a package to scrape but those an explicit ref names.
Unfound(o) == \A n \in ToSet(packages) \ Explicit[GHCR] : OwnerOf[n] # o

TypeOK ==
    /\ phase \in {"idle", "wildcards", "packages", "answered", "done"}
    /\ cancelled \in BOOLEAN /\ kind \in Kinds
    /\ RegistryTypeOK
    /\ turn \in 1..Len(WildRefs) + Cardinality(Names) + 1
    /\ form \in {"org", "user"} /\ page \in 1..MaxListingPages + 1
    /\ names \subseteq Names
    /\ refused \in BOOLEAN /\ unchecked \in BOOLEAN
    /\ walk \in {"reading", "end", "empty", "capped", "404", "failed", "format"}
    /\ orgWalk \in {"none", "end", "404", "failed", "format"}
    /\ ToSet(packages) \subseteq Names /\ IsInjective(packages)
    /\ reply \in {"none", "entry", "404", "error"}
    /\ Collection \in CollectionType
    /\ faulty \subseteq Owners /\ wasEmpty \subseteq Owners

\* While GitHub stands still the reader keeps the promise the accounting relies
\* on, however little it recognises of a page: a name is absent only if it does
\* not exist, and an owner listed only if every package of it was scraped.
HonoursContract ==
    phase = "done" /\ churn = 0 =>
        IF cancelled THEN Truthful(GHCR, Pop, Collection)
                     ELSE Whole(GHCR, Pop, Collection)

\* ListingFailed is an owner whose listing gave nothing and proved nothing
\* (scraper.go:535): it takes a fault of the owner's own form, or an owner
\* without packages whose organization form could not be asked, so a failed
\* kind probe never hides a valid user listing; and without it, an owner that
\* gave nothing was really empty, or is the owner of a name a ref spells out.
ListingFailedIsAnOutage ==
    /\ listingFailed => \E o \in (faulty \union wasEmpty) \ listed : o \in Wildcard[GHCR] /\ Unfound(o)
    /\ phase = "done" /\ ~cancelled /\ ~listingFailed =>
         \A o \in Wildcard[GHCR] : Unfound(o) =>
            o \in wasEmpty \/ \E n \in Explicit[GHCR] : OwnerOf[n] = o

\* A listing read whole while its owner changes can miss packages that were
\* there all along, but never more of them than were removed: a page that
\* re-serves what is known already is never taken for the end (scraper.go:312).
LossBoundedByRemovals ==
    phase = "done" /\ ~cancelled =>
        \A o \in listed :
            Cardinality({n \in Names \ gone : OwnerOf[n] = o /\ end[n] = "none"}) <= removals[o]

\* The wildcard case of account.go's presence: a name no explicit ref covers is
\* reported absent when its owner's listing was whole and the cycle knows
\* nothing of it.
ReportedAbsent(n) ==
    /\ end[n] = "none" /\ n \notin Explicit[GHCR]
    /\ Wild(GHCR, n) /\ OwnerOf[n] \in listed

\* The listing documents a package shifted across the read cursor as leaving
\* an absent series, which "already means not measured this cycle"
\* (src/internal/ghcr/scraper.go:222), and registrystats_image_present as 0 only
\* "when it definitively reported it absent" (src/internal/obs/obs.go:89): a
\* name reported absent was absent at some time of the collection.
AbsentIsDefinitive ==
    phase = "done" /\ ~cancelled => \A n \in Names : ReportedAbsent(n) => n \in gone
=============================================================================
