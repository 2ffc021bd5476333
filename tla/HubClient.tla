------------------------------ MODULE HubClient ------------------------------
(***************************************************************************)
(* One Collect of the Docker Hub reader (src/internal/dockerhub/client.go):*)
(* the page walk of every owner/* ref, then the metadata fetch of every    *)
(* explicit ref no listing row covered.  One step per request, per answer  *)
(* read and per loop turn; the registry changes between any two of them,   *)
(* since each page is a request of its own.                                *)
(*                                                                         *)
(* Docker Hub answers truthfully or not at all: a request fails for any    *)
(* reason the code has (retries exhausted, an answer of the wrong shape).  *)
(***************************************************************************)
EXTENDS MovingListing

CONSTANTS
    WildRefs,       \* the owners of the owner/* refs, in configuration order
    ExplicitRefs,   \* the explicit refs, in configuration order
    MaxOwnerPages   \* maxOwnerPages

ASSUME HubAssumption ==
    /\ WildRefs \in Seq(Owners) /\ ExplicitRefs \in Seq(Names)
    /\ ToSet(WildRefs) = Wildcard[DockerHub] /\ IsInjective(WildRefs)
    /\ ToSet(ExplicitRefs) = Explicit[DockerHub] /\ IsInjective(ExplicitRefs)
    /\ Nested = {} /\ MaxOwnerPages \in Nat \ {0}

VARIABLES
    phase,          \* where the reader is
    cancelled,      \* ctx.Err() # nil
    turn,           \* the ref of the running loop
    page,           \* the page the walk asks for next
    rows,           \* the names this owner's walk has read
    walk,           \* "reading", or how the walk ended: "whole", "capped", "failed"
    reply,          \* what the running metadata fetch answered
    end,            \* [Names -> Ends], the collection so far
    listed,         \* Listed
    listingFailed,  \* ListingFailed
    faulty          \* owners whose walk failed while the context was alive

reader == <<phase, turn, page, rows, walk, reply, end, listed, listingFailed, faulty>>
vars == <<reader, registry, cancelled>>

Init ==
    /\ phase = "idle" /\ cancelled = FALSE
    /\ RegistryInit
    /\ turn = 1 /\ page = 1 /\ rows = {} /\ walk = "reading" /\ reply = "none"
    /\ end = [n \in Names |-> "none"] /\ listed = {} /\ listingFailed = FALSE
    /\ faulty = {}

Start ==
    /\ phase = "idle"
    /\ phase' = "wildcards"
    /\ Populate
    /\ UNCHANGED <<cancelled, turn, page, rows, walk, reply, end, listed, listingFailed, faulty>>

-----------------------------------------------------------------------------
(* collectWildcards, collectWildcardRef and listRepos.                     *)

Owner == WildRefs[turn]

\* The next token of page p.
More(l, p) == p * PageSize < Len(l)

\* parseRepoListPage keeps the rows with a safe name and refuses a page that
\* has rows and keeps none.
Kept(l, p) == PageOf(l, p) \ Unsafe
Refused(l, p) == PageOf(l, p) # {} /\ Kept(l, p) = {}

\* Mutant: nothing stops the walk but the end of the listing.
WalkEndUncapped(more, p) == IF ~more THEN "whole" ELSE "reading"

\* Mutant: a walk stopped at the page cap counts as read whole.
WalkEndWholeAtCap(more, p) == IF ~more \/ p = MaxOwnerPages THEN "whole" ELSE "reading"

\* How the walk stands once it has read page p.
WalkEnd(more, p) ==
    IF ~more THEN "whole" ELSE IF p = MaxOwnerPages THEN "capped" ELSE "reading"

Walking == phase = "wildcards" /\ turn <= Len(WildRefs) /\ walk = "reading"

FetchPage ==
    /\ Walking /\ ~cancelled
    /\ LET l == listing[Owner] IN
       /\ ~Refused(l, page)
       /\ rows' = rows \union Kept(l, page)
       /\ walk' = WalkEnd(More(l, page), page)
    /\ page' = page + 1
    /\ UNCHANGED <<phase, turn, reply, end, listed, listingFailed, faulty, registry, cancelled>>

\* The request failed, or the context ended it, or its answer was refused.
FailPage ==
    /\ Walking
    /\ walk' = "failed"
    /\ faulty' = IF cancelled THEN faulty ELSE faulty \union {Owner}
    /\ UNCHANGED <<phase, turn, page, rows, reply, end, listed, listingFailed, registry, cancelled>>

\* Mutant: a listing the context cut short is classified like any other.
OutageEvenStopped == walk = "failed" /\ rows = {}

\* A walk that failed on its first page, unless a stop explains it.
Outage == ~cancelled /\ walk = "failed" /\ rows = {}

\* collectWildcardRef's switch and its marks in the seen map.
Classify ==
    /\ phase = "wildcards" /\ turn <= Len(WildRefs) /\ walk # "reading"
    /\ end' = [n \in Names |-> IF n \in rows THEN "row" ELSE end[n]]
    /\ listed' = IF walk = "whole" /\ ~cancelled THEN listed \union {Owner} ELSE listed
    /\ listingFailed' = (listingFailed \/ Outage)
    /\ turn' = turn + 1 /\ page' = 1 /\ rows' = {} /\ walk' = "reading"
    /\ UNCHANGED <<phase, reply, faulty, registry, cancelled>>

EndWildcards ==
    /\ phase = "wildcards" /\ turn > Len(WildRefs)
    /\ phase' = "explicit" /\ turn' = 1
    /\ UNCHANGED <<page, rows, walk, reply, end, listed, listingFailed, faulty, registry, cancelled>>

-----------------------------------------------------------------------------
(* collectExplicit and fetchExplicit.                                      *)

Ref == ExplicitRefs[turn]

\* Mutant: a ref a listing row covers is fetched all the same.
FetchedTwice(n) == FALSE

\* seen[ref]: a listing row covered it.
Seen(n) == end[n] = "row"

MoreRefs == phase = "explicit" /\ turn <= Len(ExplicitRefs)

\* The loop is over, or a stop ends it between two refs.
Return ==
    /\ phase = "explicit" /\ (turn > Len(ExplicitRefs) \/ cancelled)
    /\ phase' = "done"
    /\ UNCHANGED <<turn, page, rows, walk, reply, end, listed, listingFailed, faulty, registry, cancelled>>

SkipSeen ==
    /\ MoreRefs /\ ~cancelled /\ Seen(Ref)
    /\ turn' = turn + 1
    /\ UNCHANGED <<phase, page, rows, walk, reply, end, listed, listingFailed, faulty, registry, cancelled>>

\* The metadata request, from the context check to its answer: the repository,
\* a 404 for one that does not exist, or no usable answer.
Fetch ==
    /\ MoreRefs /\ ~cancelled /\ ~Seen(Ref)
    /\ phase' = "answered"
    /\ reply' \in {IF Exists(Ref) THEN "entry" ELSE "404", "error"}
    /\ UNCHANGED <<turn, page, rows, walk, end, listed, listingFailed, faulty, registry, cancelled>>

\* fetchExplicit's outcome: an error under a dead context is a stop, a 404 too.
Outcome ==
    IF reply = "entry" THEN "read"
    ELSE IF reply = "404" /\ ~cancelled THEN "absent" ELSE "unread"

Sort ==
    /\ phase = "answered"
    /\ end' = [end EXCEPT ![Ref] = Outcome]
    \* the cancelled outcome returns at once
    /\ phase' = IF cancelled /\ reply # "entry" THEN "done" ELSE "explicit"
    /\ turn' = turn + 1 /\ reply' = "none"
    /\ UNCHANGED <<page, rows, walk, listed, listingFailed, faulty, registry, cancelled>>

-----------------------------------------------------------------------------
(* The environment.                                                        *)

Running == phase \notin {"idle", "done"}

Delist ==
    /\ Running
    /\ \E o \in Owners : Withdraw(o)
    /\ UNCHANGED <<reader, cancelled>>

Enlist ==
    /\ Running
    /\ \E n \in Names : Appear(n)
    /\ UNCHANGED <<reader, cancelled>>

Cancel ==
    /\ Running /\ ~cancelled
    /\ cancelled' = TRUE
    /\ UNCHANGED <<reader, registry>>

\* Collect has returned.
Done == phase = "done" /\ UNCHANGED vars

Next == \/ Start \/ FetchPage \/ FailPage \/ Classify \/ EndWildcards
        \/ SkipSeen \/ Fetch \/ Sort \/ Return
        \/ Delist \/ Enlist \/ Cancel \/ Done

Spec == Init /\ [][Next]_vars

-----------------------------------------------------------------------------
(* Properties.                                                             *)

Collection == [end |-> end, listed |-> listed, listingFailed |-> listingFailed]

TypeOK ==
    /\ phase \in {"idle", "wildcards", "explicit", "answered", "done"}
    /\ cancelled \in BOOLEAN
    /\ RegistryTypeOK
    /\ turn \in 1..Len(WildRefs) + Len(ExplicitRefs) + 1
    /\ page \in 1..MaxOwnerPages + 1
    /\ rows \subseteq Names
    /\ walk \in {"reading", "whole", "capped", "failed"}
    /\ reply \in {"none", "entry", "404", "error"}
    /\ Collection \in CollectionType
    /\ faulty \subseteq Owners

\* On a registry that stands still the reader keeps the promise the accounting
\* relies on: a cut-short collection says nothing false, an undisturbed one
\* decides every explicit ref and holds every row of a listing it calls whole.
HonoursContract ==
    phase = "done" /\ churn = 0 =>
        IF cancelled THEN Truthful(DockerHub, Pop, Collection)
                     ELSE Whole(DockerHub, Pop, Collection)

\* ListingFailed is exactly a wholesale outage: some owner's listing broke on
\* a live context before a row was kept, whatever the owners after it answered
\* (client.go:124-131), which collect.go:137 makes an unhealthy check.
ListingFailedIsAnOutage ==
    /\ listingFailed => \E o \in faulty \ listed : \A n \in Names : OwnerOf[n] = o => end[n] # "row"
    /\ phase = "done" /\ ~cancelled
         /\ (\E o \in faulty : \A n \in Names : OwnerOf[n] = o => end[n] # "row")
       => listingFailed

\* A listing read whole while its owner changes can lose a repository that was
\* there all along, but never more of them than repositories were removed since
\* Collect began: a removal moves at most one row across the walk's page boundary.
LossBoundedByRemovals ==
    \A o \in listed :
        Cardinality({n \in Names \ gone : OwnerOf[n] = o /\ end[n] # "row"}) <= removals[o]

\* The wildcard case of account.go's presence: a name no explicit ref covers is
\* reported absent when its owner's listing was whole and held no row for it.
ReportedAbsent(n) ==
    /\ end[n] = "none" /\ n \notin Explicit[DockerHub]
    /\ Wild(DockerHub, n) /\ OwnerOf[n] \in listed

\* registrystats_image_present is documented as "0 when it definitively
\* reported it absent" (src/internal/obs/obs.go:89, docs/monitoring.md:15): a
\* name reported absent was absent from the registry at some time of the
\* collection.
AbsentIsDefinitive ==
    phase = "done" /\ ~cancelled => \A n \in Names : ReportedAbsent(n) => n \in gone
=============================================================================
