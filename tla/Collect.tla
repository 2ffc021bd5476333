------------------------------- MODULE Collect -------------------------------
(***************************************************************************)
(* One collection cycle: collect.Run (src/internal/collect/collect.go),    *)
(* the accounting of its sources (src/internal/collect/account.go), and    *)
(* the check publish makes before the cycle leaves the collect loop.       *)
(*                                                                         *)
(* The registries are the environment: what a source's Collect may return  *)
(* is the Contract.  A registry's population stands still while one cycle  *)
(* reads it; HubClient and Ghcr model populations that do not.             *)
(***************************************************************************)
EXTENDS Contract, Sequences

CONSTANTS
    Active,     \* the sources that have refs, in the order Run invokes them
    Rank,       \* [Names -> Int], the byte order of "owner/repo"
    DetailCap   \* MaxDetailedNames

\* The first k sources of the cycle.
Invoked(k) == {Active[i] : i \in 1..k}

ASSUME CollectAssumption ==
    /\ Active \in Seq(Registries)
    /\ \A i, j \in 1..Len(Active) : Active[i] = Active[j] => i = j
    /\ Rank \in [Names -> Int]
    /\ \A m, n \in Names : Rank[m] = Rank[n] => m = n
    /\ DetailCap \in Nat

VARIABLES
    phase,      \* where the collect goroutine is
    cancelled,  \* ctx.Err() # nil
    turn,       \* how many sources have been invoked
    exists,     \* [Registries -> SUBSET Names], the registries' populations
    results,    \* [Registries -> collection], what each invoked source returned
    collects,   \* [Registries -> Nat], collects_total since the cycle began
    errors,     \* [Registries -> Nat], collect_errors_total since the cycle began
    cycle       \* the accounted cycle

vars == <<phase, cancelled, turn, exists, results, collects, errors, cycle>>

Phases == {"idle", "choosing", "collecting", "judging", "publishing", "published"}

-----------------------------------------------------------------------------
(* collectSource's verdicts.                                               *)

\* More than half the fetches yielding no entry is a failure.
Healthy(c) == ~c.listingFailed /\ Fetched(c) * 2 >= Attempted(c)

\* Mutant: a 404 does not count as an answer.
AnsweredByEntries(c) == Healthy(c)

\* A 404 is a miss for health and still an answer.
Answered(c) == ~c.listingFailed /\ Definitive(c) * 2 >= Attempted(c)

\* Mutant: failed fetches alone are not a failure.
FailedListing(c) == c.listingFailed /\ ~cancelled

\* Mutant: a truncated collection of a stopping process counts as an outage.
FailedEvenCancelled(c) == ~Healthy(c)

\* A stop is not a collection failure.
Failed(c) == ~Healthy(c) /\ ~cancelled

-----------------------------------------------------------------------------
(* account.                                                                *)

\* The names any source measured, and every explicit ref.
SeenNames == UNION {Entries(results[s]) \union Explicit[s] : s \in Invoked(Len(Active))}

\* Mutant: the cap admits one name too many.
WithinCapByOne(n) == Cardinality({m \in SeenNames : Rank[m] < Rank[n]}) <= DetailCap

\* Fewer than DetailCap names come before this one.
WithinCap(n) == Cardinality({m \in SeenNames : Rank[m] < Rank[n]}) < DetailCap

\* detailedNames: the first MaxDetailedNames of them in byte order.
DetailedNames == {n \in SeenNames : WithinCap(n)}

\* Mutant: unread images do not keep a source from being complete.
CompleteOnListings(s, c) == ~c.listingFailed /\ Wildcard[s] \subseteq c.listed

\* Every fetch ended in an entry or a not-found, every listing was read whole.
Complete(s, c) ==
    /\ ~c.listingFailed
    /\ Definitive(c) = Attempted(c)
    /\ Wildcard[s] \subseteq c.listed

\* Mutant: a name whose scrape failed is absent when its listing was whole.
MissingOnFailedRead(s, c, n) ==
    /\ n \notin Entries(c)
    /\ n \in Absent(c) \/ (Wild(s, n) /\ OwnerOf[n] \in c.listed)

\* Not found by its own fetch, or not in the whole listing that covers it.
Missing(s, c, n) ==
    /\ n \notin Entries(c)
    /\ \/ n \in Absent(c)
       \/ /\ n \notin Unread(c) \union Explicit[s]
          /\ Wild(s, n) /\ OwnerOf[n] \in c.listed

\* presence's records: the detailed names this source could hold and decided.
Presence(s, c) ==
    {[source |-> s, name |-> n, present |-> n \in Entries(c)] :
        n \in {m \in DetailedNames : /\ ~(s = DockerHub /\ m \in Nested)
                                     /\ m \in Entries(c) \/ Missing(s, c, m)}}

\* Mutant: each source applies the cap to its own names.
ImagesCappedPerSource(s, c) ==
    {[source |-> s, name |-> n,
      detailed |-> Cardinality({m \in Entries(c) : Rank[m] < Rank[n]}) < DetailCap] :
        n \in Entries(c)}

\* The source's images, marked when inside the detail cap.
Images(s, c) ==
    {[source |-> s, name |-> n, detailed |-> n \in DetailedNames] : n \in Entries(c)}

Omitted(c) == Cardinality(Entries(c) \ DetailedNames)

NoCycle == [images |-> {}, presence |-> {}, complete |-> {}, answered |-> {},
            omitted |-> [s \in Registries |-> 0]]

Account ==
    LET sources == Invoked(Len(Active)) IN
    [images   |-> UNION {Images(s, results[s]) : s \in sources},
     presence |-> UNION {Presence(s, results[s]) : s \in sources},
     complete |-> {s \in sources : Complete(s, results[s])},
     answered |-> {s \in sources : Answered(results[s])},
     omitted  |-> [s \in Registries |-> IF s \in sources THEN Omitted(results[s]) ELSE 0]]

-----------------------------------------------------------------------------
(* Run and publish.                                                        *)

Init ==
    /\ phase = "idle" /\ cancelled = FALSE /\ turn = 0
    /\ exists = [s \in Registries |-> {}]
    /\ results = [s \in Registries |-> NoCollection]
    /\ collects = [s \in Registries |-> 0] /\ errors = [s \in Registries |-> 0]
    /\ cycle = NoCycle

BeginCycle ==
    /\ phase = "idle"
    /\ phase' = "choosing" /\ turn' = 0
    /\ exists' \in {e \in [Registries -> SUBSET Names] :
                        \A s \in Registries : e[s] \subseteq Population(s)}
    /\ results' = [s \in Registries |-> NoCollection]
    /\ collects' = [s \in Registries |-> 0] /\ errors' = [s \in Registries |-> 0]
    /\ cycle' = NoCycle
    /\ UNCHANGED cancelled

\* Run's ctx.Err() checks, before a source and before the accounting.
Stopped == cancelled

\* Mutant: the loop runs past the last source.
MoreSourcesByOne == turn <= Len(Active)

\* The loop over the active sources has one left.
MoreSources == turn < Len(Active)

Invoke ==
    /\ phase = "choosing" /\ ~Stopped /\ MoreSources
    /\ phase' = "collecting" /\ turn' = turn + 1
    /\ UNCHANGED <<cancelled, exists, results, collects, errors, cycle>>

\* src.Collect returns, cut short if the context ended meanwhile.
Return ==
    /\ phase = "collecting"
    /\ phase' = "judging"
    /\ LET s == Active[turn] IN
       \E c \in CollectionType :
          /\ IF cancelled THEN Truthful(s, exists[s], c) ELSE Whole(s, exists[s], c)
          /\ results' = [results EXCEPT ![s] = c]
    /\ UNCHANGED <<cancelled, turn, exists, collects, errors, cycle>>

\* The verdict and RecordCollect, which reads the context once more.
Record ==
    /\ phase = "judging"
    /\ phase' = "choosing"
    /\ LET s == Active[turn] IN
       /\ collects' = [collects EXCEPT ![s] = @ + 1]
       /\ errors' = [errors EXCEPT ![s] = @ + IF Failed(results[s]) THEN 1 ELSE 0]
    /\ UNCHANGED <<cancelled, turn, exists, results, cycle>>

\* An interrupted Run returns what it has; publish refuses it.
Interrupt ==
    /\ phase = "choosing" /\ Stopped
    /\ phase' = "idle"
    /\ UNCHANGED <<cancelled, turn, exists, results, collects, errors, cycle>>

Finish ==
    /\ phase = "choosing" /\ ~Stopped /\ ~MoreSources
    /\ phase' = "publishing"
    /\ cycle' = Account
    /\ UNCHANGED <<cancelled, turn, exists, results, collects, errors>>

\* publish, which checks the context again under its lock.
Publish ==
    /\ phase = "publishing"
    /\ phase' = IF cancelled THEN "idle" ELSE "published"
    /\ UNCHANGED <<cancelled, turn, exists, results, collects, errors, cycle>>

Rest ==
    /\ phase = "published"
    /\ phase' = "idle"
    /\ UNCHANGED <<cancelled, turn, exists, results, collects, errors, cycle>>

\* SIGTERM, at any moment.
Cancel ==
    /\ ~cancelled
    /\ cancelled' = TRUE
    /\ UNCHANGED <<phase, turn, exists, results, collects, errors, cycle>>

Next == \/ BeginCycle \/ Invoke \/ Return \/ Record \/ Interrupt \/ Finish
        \/ Publish \/ Rest \/ Cancel

Spec == Init /\ [][Next]_vars

-----------------------------------------------------------------------------
(* Properties.  A cycle counts once it is published.                       *)

TypeOK ==
    /\ phase \in Phases
    /\ cancelled \in BOOLEAN
    /\ turn \in 0..Len(Active)
    /\ exists \in [Registries -> SUBSET Names]
    /\ results \in [Registries -> CollectionType]
    /\ collects \in [Registries -> Nat]
    /\ errors \in [Registries -> Nat]

\* While the registries stand still, registrystats_image_present never lies: 1
\* for a name the registry holds, 0 for one it does not, whatever fetches and
\* listings failed and wherever a shutdown hit (account.go:127-177).
PresenceIsTrue ==
    phase = "published" =>
        \A p \in cycle.presence : p.present <=> p.name \in exists[p.source]

\* collect_complete = 1 promises that nothing the configuration covers was
\* missed: every such image is measured, and every detailed name that the
\* source could hold has a presence series (account.go:113-125).
CompleteMissesNothing ==
    phase = "published" =>
        \A s \in cycle.complete :
            /\ {i.name : i \in {i \in cycle.images : i.source = s}}
                 = {n \in exists[s] : Covered(s, n)}
            /\ {p.name : p \in {p \in cycle.presence : p.source = s}}
                 = {n \in DetailedNames : Covered(s, n) /\ n \in Population(s)}

\* Detail series follow the byte order across both registries, so the two
\* images of one name are in or out together (account.go:13-18).
DetailFollowsRank ==
    \A i, j \in cycle.images :
        i.detailed /\ ~j.detailed => Rank[i.name] < Rank[j.name]

\* The cap is exact: never exceeded, and full whenever an image is omitted.
CapIsExact ==
    phase = "published" =>
        /\ Cardinality(DetailedNames) <= DetailCap
        /\ (\E s \in Registries : cycle.omitted[s] > 0)
              => Cardinality(DetailedNames) = DetailCap

\* A source whose every read was definitive, or that met the health threshold,
\* also stamps its last success: the three verdicts of one cycle never
\* contradict each other (collect.go:137-140, account.go:115-125).
VerdictsAgree ==
    phase = "published" =>
        \A s \in Invoked(Len(Active)) :
            s \in cycle.complete \/ Healthy(results[s]) => s \in cycle.answered

\* Every published cycle is counted once for each source, and as an error
\* exactly when the source was unhealthy, so increase() over the two counters
\* reads as checks and failed checks (collect.go:142-148).
CountersMatchVerdicts ==
    phase = "published" =>
        \A s \in Invoked(Len(Active)) :
            /\ collects[s] = 1
            /\ errors[s] = IF Healthy(results[s]) THEN 0 ELSE 1

\* A counted error is a real one: shutdown cutting a collection short never
\* advances collect_errors_total (collect.go:122-126).
ErrorsAreReal ==
    \A s \in Registries : errors[s] > 0 => Whole(s, exists[s], results[s])
=============================================================================
