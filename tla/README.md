# A TLA+ model of registry-stats

registry-stats polls Docker Hub and the GitHub Container Registry for the pull
counts and times of configured images and serves them as Prometheus metrics.
It is one small Go process, and what makes it hard to get right is not the
parsing but the joints: a collect loop and a shutdown that share a lock, a
marker file that outlives the process, a scrape that runs beside a publication,
and a registry that changes between two requests. This directory models those
joints, checks them with TLC and proves the central ones with TLAPS.

## The system

| Component | Source | State it keeps | Operations | Talks to |
|---|---|---|---|---|
| Process lifecycle | `main.go` `run`, `collectLoop` | context, server, collect goroutine | boot, bind, arm, serve, drain, exit | everything |
| Publication | `main.go` `publication` | the mutex, and through it gauges, marker, readiness | `publish`, `drain` | metrics, marker, readiness gate |
| Health marker | `main.go` `refreshPresentMarker`, the `health` library | the file `/tmp/.healthy` | set, refresh, clean up, probe | every registry request refreshes it |
| Cycle | `internal/collect/collect.go` | none across cycles | `Run`, `collectSource` | the readers, the metrics |
| Accounting | `internal/collect/account.go` | `CapWatch`'s last verdict (a log line) | `account`, `complete`, `presence` | called by `Run` |
| Metrics | `internal/obs/obs.go` | gauges, and the keys of the last cycle | `SetImage`, `SetPresence`, `SetSources`, `RecordCollect` | publication, scrapes |
| Docker Hub reader | `internal/dockerhub` | none across cycles | `Collect`: page walk, explicit fetches | pacing, Docker Hub |
| GHCR reader | `internal/ghcr` | none across cycles | `Collect`: listing walk with cross-checks, scrapes | pacing, github.com |
| Pacing | `internal/pacing` | the last start time, a mutex | `RoundTrip`, `reserve` | both readers, one each |
| Configuration | `internal/config`, `internal/urlsafe` | none | parse the environment | `run` |
| HTTP surface | `internal/webapi` | none | routes | readiness flag, metrics |

Hard behaviour, by component, and the property that makes it correct:

- **Lifecycle, publication, marker.** A cycle may be anywhere when the signal
  comes. After the drain no cycle may be published and readiness may not return
  (a late cycle still counts itself in `collects_total`); a publication must never
  contradict the marker; a killed process must not leave its successor healthy;
  the process must end.
- **Cycle and accounting.** Any mix of failed listings, failed reads, not-founds
  and a shutdown at any point. What is published must be true, what is called
  complete must be complete, and a shutdown must not count as an outage.
- **Metrics.** A scrape sees every intermediate state of a publication.
- **Docker Hub reader.** Pages are independent reads of a moving listing.
- **Pacing.** Requests race for start times and give up while they wait.
- **GHCR reader.** As the Docker Hub reader, with printed totals, re-served
  names and an owner that may be an organisation or a user: the only proof that
  a page was understood is a number printed on it, and the only proof of the end
  is a page with nothing new.
- **Marker lease.** A sum of timeouts, retry waits and pacing gaps must stay
  below a deadline for every healthy cycle, and a hung one must pass it.
- **Configuration.** Decoding, folding, checking and deduplicating in the right
  order, and a product that overflows.

`PROJECT.json` lists every component with its status and every hazard at its
line.

## The modules

| Module | What it is |
|---|---|
| `ReadinessGate` | Abstract: what `GET /api/health` promises over process lifetimes. |
| `Lifecycle` | `main.go`: `run()` and the collect loop as two goroutines, shutdown, crash and restart. Implements `ReadinessGate`. |
| `LifecycleProofs` | Its inductive invariants, all its safety properties and the refinement, proved. |
| `Lease`, `MCLease` | The marker's age: requests, retries, redirects, pacing waits, missed writes and hangs against a clock, and the probe of the `health` subcommand. |
| `LeaseProofs` | Its inductive invariant and all its properties, proved. |
| `Contract` | What a source's `Collect` may return (`registry.Collection`): the assumption of `Collect`, the promise of `HubClient` and `Ghcr`. |
| `Collect`, `MCCollect` | `collect.Run`, `collectSource` and `account`, with the context check of `publish`. |
| `CollectProofs` | Its inductive invariants and all its properties, proved. |
| `SeriesBoard` | Abstract: what a scrape may see of a publication. |
| `Gauges`, `MCGauges` | `obs.go`'s three Set calls and `retire`, one series at a time. Implements `SeriesBoard`. |
| `GaugesProofs` | Its inductive invariant, its properties and the refinement, proved. |
| `MovingListing` | External: owners' listings served in pages, changing between any two requests. Extended by both readers. |
| `HubClient`, `MCHubClient` | `dockerhub/client.go`'s `Collect` against a changing registry. |
| `HubClientProofs` | Its inductive invariants, the contract, what an outage is and the bound on lost rows, proved. |
| `Ghcr`, `MCGhcr` | `ghcr/client.go` and `ghcr/scraper.go`: `Collect` with the listing walk in both account forms, against a changing registry and a parser that may miss things. |
| `GhcrProofs` | Its inductive invariants, the contract, what an outage is and the bound on lost packages, proved. |
| `Pacing`, `MCPacing` | `pacing.go`: the claims of concurrent requests. |
| `PacingProofs` | Its inductive invariant and all its properties, proved. |
| `Config`, `MCConfig` | `config.go` and `urlsafe.go`: the poll interval and the two repo lists. |
| `ConfigProofs` | The interval's property and what a parsed list holds, proved. |

They meet at stated interfaces rather than in one product. `Collect` assumes
`Contract` of whatever a source returns, and `HubClient` and `Ghcr` are checked
to keep it, each against the same `MovingListing`; `Lease` takes from `Pacing`
that a claim is a gap after the last and sees a cycle as requests only;
`Gauges` takes as its cycles the set `Cycles`, the shape `Account` of `Collect`
gives an image and its presence; `Lifecycle` treats a whole `SetImage`,
`SetPresence`, `SetSources` as one step, which `Gauges` takes apart, and a whole
source walk as a number of requests, which `HubClient` takes apart.

### Lifecycle

`main` and `collector` are the control points of the two goroutines. `Prepare`
to `Serve` follow `run()` line by line: the clean-up of an inherited marker, the
bind, `marker.Set(true)`, `go collectLoop`, `webhttp.Run`. `SendRequest`,
`CheckMarker` and `RefreshMarker` are one registry request passing
`progressTransport`: the check and the write of `refreshPresentMarker` are two
steps, as they are two system calls. `publish` is five steps under
`publication.mu`, `drain` is one because nothing else happens under its lock.
`Die` resets everything but the marker file, which becomes an `inherited` one.
`Crash` is enabled wherever a process runs.

### Contract and Collect

A collection says of every name how the source came to know it (a listing
`row`, a fetch that `read` it, `absent`, `unread`, `none`); entries, lists and
counters of `registry.Collection` follow. `Truthful` is what even a cut-short
collection keeps, `Whole` what an undisturbed one adds. `Collect`'s `Return`
chooses any collection the contract allows, for any population of the two
registries, and `Account` is computed exactly as `account.go` does: cap, images,
presence, completeness. A population stands still during one cycle.
Entries are sets: a source has one entry for each name. The Docker Hub reader may
append a row twice when its listing shifts (`client.go:271`), and past the cap
such a name is omitted twice; that repeat is not modelled.

### Gauges

One step per `Set` and per `Delete`, in the order the code makes them, so every
read a concurrent scrape makes of a series is a read of one of the states. A
scrape is no snapshot: it gathers the families one by one, so two of its reads
may be of different states, and nothing here says which values one scrape pairs
while a publication runs. `Wanted(c)` is the series cycle `c` asks for; `prev` and
`current` are the four key maps; `old` and `new` are the cycles the properties
compare the exposed series with. Times are "set" or zero, which is all the
bookkeeping looks at. Of the three gauges `SetSources` writes for a source,
`collect_complete` is a series of the board; the omitted count and the last
success are left out.

### HubClient

One step per page request, per answer classified and per turn of the explicit
loop. `Delist` and `Enlist` change any owner's listing between any two steps, at
any place. Docker Hub is assumed truthful: it may fail a request for any reason
(`FailPage`, the `error` reply), and a page or a 404 it does answer is right at
that moment. Names the urlsafe allowlist refuses are rows the walk drops. The
totals a page advertises only choose between two log levels for a walk that is
already partial, so they are not modelled.

### Ghcr

`ReadPage` is one turn of `readListing`: `Pages` is what the parser may make of
the page GitHub serves, any subset of its links and its printed count or none,
and `PageEnd` grades it in the code's order, count first (`Miscounted`), then
progress (`Unseen`), then the kind of end (`LastPageEnd`). `TryUser` and
`ListingEnd` are the two forms of `scrapePackageList`, `Expand` is
`expandWildcard` with its stop, outage and confirmed-empty cases, `EndWildcards`
appends the explicit refs, and `Scrape`, `Sort` are `Collect`'s loop. An
organisation's user form leads to a profile page (`Profile`), a user's
organisation form is a 404. GitHub may fail any request (`FailPage`, the `error`
reply) but serves no wrong page. `names` is the set of the names a walk has met:
the code keeps them in the order of the pages, but the walk asks only which are
new, and the order of the scrapes (`NotIn` takes any one, fixed) is lost in the
sort of the entries. `faulty` and `wasEmpty` are history for the
properties only. Package names that differ in case alone are one name here;
`appendPackages` folds them.

### Lease

Times are kept as ages. A request is claimed (`Request`, `Retry`, `Redirect`),
waits for its start, touches the marker and goes out (`Send`), and ends
(`Settle`, `BackOff`). `attempt` runs from the claim, since the client's timeout
covers the pacing wait, and over the redirect hops. An attempt may end at any
time up to the timeout, and a wait behind the claim of one that gave up leaves
the source's `pace` up to two gaps ahead. `Touch` may fail to write; `missed`
counts that. `Hang` stops the collector in any stage for good. `Older` stops an
age from growing once it is past every deadline, which keeps the state space
finite and changes no comparison.

### Config

One step per token of a list. A token is a record of path segments rather than
characters: decoded text, upper case or not, percent-escaped or not, joined by a
raw slash or by `%2F` (`Tokens`); `NameSize` adds the bytes of its texts, which is
what the budget counts once escapes are decoded. `PollInterval` multiplies in two's complement (`Wrap`).

### Pacing

One `RoundTrip` per request, retries and redirects being further ones. The clock
moves at any time, also while the mutex is held; `gap()` is any member of
`Gaps`, which is how GHCR's jitter and Docker Hub's fixed gap both fit. A context
may end at any time, the client's timeout included.

## The runs

| Run | Module, configuration | Bounds | What it shows |
|---|---|---|---|
| `lifecycle_scheduled` | `Lifecycle`, `LifecycleScheduled.cfg` | 2 requests a cycle; unbounded cycles, lifetimes, crashes | the safety of shutdown, marker and gate, and the refinement of `ReadinessGate` |
| `lifecycle_live` | `Lifecycle`, `LifecycleLive.cfg` | 1 request a cycle, fairness | a cancelled process ends, a cycle ends |
| `lifecycle_oneshot` | `Lifecycle`, `LifecycleOneShot.cfg` | 2 requests, fairness, one-shot mode | one publication per process, and images make it ready |
| `collect` | `MCCollect`, `Collect.cfg` | both sources, three names of two owners, one of them nested, explicit and wildcard refs, a cap of two | presence, completeness, the cap, the verdicts and the counters |
| `gauges` | `MCGauges`, `Gauges.cfg` | one image per registry, two counts, one source; unbounded cycles | the refinement of `SeriesBoard`, and no verdict exposed ahead of its data |
| `hub_client` | `MCHubClient`, `HubClient.cfg` | two walked owners, up to five rows, pages of two, two pages, two changes of the registry | the contract, what an outage is, and the bound on lost rows |
| `hub_churn` | `MCHubClient`, `HubChurn.cfg` | as above, four rows, one change | a **violation**, see Findings |
| `pacing` | `MCPacing`, `Pacing.cfg` | three requests, gaps of two and three ticks, four ticks | spacing, no early start, no needless wait |
| `ghcr` | `MCGhcr`, `Ghcr.cfg` | an organisation with up to three rows, a refused one among them, a user or nobody; pages of two, three pages, two changes of the organisation's listing | the contract, what an outage is, and the bound on lost packages |
| `ghcr_churn` | `MCGhcr`, `GhcrChurn.cfg` | three packages and one, one change | a **violation**, see Findings |
| `lease` | `MCLease`, `Lease.cfg` | two sources, a timeout of five ticks, a retry wait of up to four, gaps of one and two, intervals of zero and three | the bound on silence, no false alarm, no missed hang |
| `config` | `MCConfig`, `Config.cfg` | three tokens of nineteen spellings, both registries; an 8-bit duration with an hour of 16 units, eleven poll values | the interval and the lists |

Why the bounds are enough. A cycle's requests matter only through the refresh of
the marker, and two of them already interleave with a clean-up and with each
other's effects; cycles, lifetimes and crashes are not bounded at all. In
`Collect` the cap cuts between names of both registries and every population and
every answer is enumerated. In `Gauges` the families and keys do not interact
except through the order of the calls, two counts suffice to tell old from new,
and the number of cycles is unbounded. In `HubClient` five rows on two pages of
two reach the page cap, an exactly full last page, a partial page and a page
whose rows are all refused; two changes reach a removal and an insertion in one
walk and two losses. In `Pacing` three requests give a holder, a waiter and a
claim of an abandoned request; claims may lie beyond the last tick. The requests
are interchangeable there, so `pacing` uses symmetry; it checks no liveness.
In `Ghcr` three rows on pages of two reach a second page, a re-served row after
an insertion, a lost one after a removal and an exactly full last page, and an
insertion into it the page cap; only the organisation's listing changes, since
the two owners' walks share nothing. In `Lease` the timeout is the smallest that
fits two gaps, so an attempt can run out behind a claim; the proof covers every
other choice. In `Config` 8 hours turn negative, 16 become zero and 17 one hour.
`pacing` and `config` turn the deadlock check off: the clock of the one stops at
the bound, and `Load` of the other returns.

### Fairness

`FairSpec` of `Lifecycle` assumes weak fairness of each step of `run()`, of the
collector as a whole, and of the deadline timer together with the awaited
channel; strong fairness only of `Drain`, since `sync.Mutex` hands itself to a
starving waiter although a scheduled collector may take it again and again.
Every request has a timeout and a cycle sends finitely many, so the collector
does not stay in one request. Nothing is assumed of signals, server errors,
crashes or restarts.

### Findings

`hub_churn` is a real disagreement with the documentation. Docker Hub's listing
is read in pages; `listRepos` calls the walk whole once a page has no `next`
token (`client.go:273`), and checks its rows against the totals the pages
advertise only at the page cap. A repository removed between two page requests
shifts another one over the page boundary, unread, and the owner still enters
`Listed`. If that name is measured or configured on GHCR, `presence`
(`account.go:170`) publishes `registrystats_image_present 0` for it, documented
as "0 when it definitively reported it absent" (`obs.go:89`,
`docs/monitoring.md:15`). It needs an owner with more than 99 repositories and
heals at the next check. `LossBoundedByRemovals` says how far it goes: never more
lost names than removals.

`ghcr_churn` is its twin in the GHCR reader. `readListing` compares every page's
printed count with that page's own links, which stays true while a removal moves
a package behind the read cursor, so the walk ends `whole` (`scraper.go:255`).
The comment at `scraper.go:214-224` knows the shift and calls it harmless: the
series is absent, which "already means not measured this cycle". That holds for
the image series; the presence series of the same name is a published 0 when the
name is measured or configured on Docker Hub. The re-served names of an insertion
are caught (`scraper.go:312`), and `LossBoundedByRemovals` holds here too.

`ReadyAfterData` shows a smaller one that no document contradicts: if the HTTP
server fails and the collector outlives the shutdown deadline, a publication
already past its context check can set readiness after the deferred clean-up has
removed its marker. The process is about to exit by then, so the property allows
it under `late`.

## The proofs

Everything below holds for every value of the constants, from the named
assumptions in the modules (`LifecycleAssumption`, `ContractAssumption`,
`CollectAssumption`, `GaugesAssumption`, `ListingAssumption`, `HubAssumption`,
`GhcrAssumption`, `PacingAssumption`, `LeaseAssumption`, `ConfigAssumption`), all of which TLC evaluates.

**`LifecycleProofs`.** The properties are not inductive by themselves. `IInv`
adds to `TypeOK`: the mutex is held exactly inside `publish`
(`LockHeldInside`); a drained process is cancelled, past its drain, not ready,
and no publish past its context check is under way (`DrainIsFinal`), which is the whole
argument for `DrainedStaysUnready`, because the drain can only take the lock
between two publications and every later one is refused; which collector states
go with which `main` states (`CollectorLifetime`); a process that has not served
has published nothing (`BootIsBlank`); what the marker can be at each control
point (`MarkerByPhase`); and that a publish under way has already written the
gauges, then the marker (`PublishInOrder`). The step proof has one case per
action, grouped as `Next` is. The action properties and the refinement of
`ReadinessGate` follow from `IInv` and `IInv'`, step by step. One-shot mode has an
invariant of its own (`OnlyCycle`): once its only cycle has decided the gauges,
the collector is on its way out of `publish` or has ended, and no step leads back
to the loop.

**`CollectProofs`.** `IInv` says every returned collection is truthful, the ones
of an uncancelled cycle are whole (`Answers`), and the accounted cycle is
`Account` of them (`Accounted`). `PresenceIsTrueAlways` then needs no counting.
`CompleteMissesNothingAlways` rests on `CountsDecide`: `Definitive = Attempted`
on finite sets forces that no name is unread. `CInv` is the invariant of the
counters: a source is counted once it is recorded, as an error only on a whole
answer, and exactly by its health unless shutdown came before the accounting.
`DetailFollowsRankAlways` needs that a cycle on record is `Account` of the
current answers (`CycleOfResults`), and that fewer names come before an earlier
name than before a later one. `CapIsExactAlways` numbers the
cycle's names by how many come before each: the numbers are 0, 1, 2 ... without a
gap or a double (`PositionNumbersNames`, a pigeon-hole), and the names in detail
are those numbered below the cap, so there are exactly as many as the cap unless
all of them are (`DetailedNamesFillCap`).

**`GaugesProofs`.** Each series is at its old or its new value (`OldOrNew`), and at
its new one once its call has returned (`DoneIsShown`). The four key maps are
what makes the next publication right: `prev` holds exactly the keys a family
last showed (`PrevIsShown`) and `current` exactly those the running call has
set (`CurrentIsSet`), `Pending` being what the loop has yet to reach. At a
call's return a key in neither map has no series and never had one, one in
`prev` alone has been deleted, and so the whole family shows the new cycle
(`ReturnCompletes`). Each step is then a move of one series or a stutter of
`SeriesBoard`. `WorkIsWanted` says that the loops visit exactly the keys with a
series to set. `VerdictsShown` says which verdicts have moved: those `SetSources`
has come to, and so `VerdictFollowsData` follows from `DoneIsShown`. It is a claim
about one moment; a scrape that overlaps the change of a verdict may have read
`image_present` before it.

**`HubClientProofs`.** `WalkInOrder` ties rows, verdicts and faults to the owners
walked so far, which, since a listing holds its owner's repositories only
(`OwnListings`) and no owner is walked twice, keeps one owner's outage apart from
the others' rows (`OutageOnRecord`, which no change of the registry disturbs).
`StandingStill` holds while the registry has not changed: the rows are the
names at the places up to the page boundary (`PagesRead`), so a walk that met the
end has them all, and every answer on record is still true. `PageRows` is what a
page holds of its listing. The bound on lost rows is
`LossInv`: at every moment of a walk the rows it has passed without reading, of
those that were there all along (`Passed`), are at most the removals so far. A
removal before the page boundary moves one row across it and counts one; an
insertion moves none across that was never gone; a page request reads whatever
lies up to the next boundary. At the end of the listing what was passed is all
that is lacking.
`ListingAssumption` asks of the external registry that an owner's listing names
that owner's repositories only, and none twice.

**`GhcrProofs`.** The same two arguments for a reader that trusts no page. `IInv`
ties names, flags and verdicts to the owners walked so far and keeps one owner's
outage apart from another's packages, over the two forms a listing is asked in:
an organisation form that failed is an outage only if the user form brings
nothing either. `EmptyKnown` is
what the end of each form proves of an owner no name was found for.
`StandingStill` holds while no listing has changed: every name met exists, and a
scrape's answer is true. `LossInv` is the bound on lost packages, and serves the
contract too, since nothing is removed while the listings stand still: a walk that
ends unrefused and unmiscounted then lacks no package. It has one case more than
Docker Hub's, the page that brings nothing new: only an empty one may end a
listing (`LastPageEnd`), since a page that re-serves known names says nothing of
those behind it.

**`PacingProofs`.** `IInv` says that one request at a time is inside `reserve`
(`Mutex`), that every written claim is at or before `last` and the one about to
be written a gap after it (`LastIsLatest`), and that nobody wakes early
(`NotEarly`). `ReserveKeeps` is the one step with content.

**`LeaseProofs`.** A bound on the silence is not inductive; what is left to wait
must be part of it. `PacingBounded` carries, for a request that waits, the time
its start still lies ahead: an attempt just begun reaches its start before its
timeout, because two gaps are shorter than the timeout, and only a redirect hop,
whose attempt has touched the marker already, may run out waiting
(`AttemptOver`). `BackoffBounded` adds the rest of the retry wait and the pace
left over for the claim after it, `RestBounded` the interval between two cycles,
and `AgeBounded` turns the silence into the marker's age with one refresh
missed: the previous one was at most an interval and half a lease before. One
lemma per action; `TickKeeps` is the one with content, since it takes from each
wait what it adds to the silence. `LeaseAssumption` asks that two gaps are
shorter than the timeout and no longer than the longest retry wait: 10 s against
30 s and 60 s in the code.

**`ConfigProofs`.** `WholeHours` says that an hour count up to the clamp does not
wrap, for any word a year of hours fits, and `SeenIsList` that the set of refs
seen is the list so far, so that an accepted one is new. `RefsAreCanonicalAlways`
is two arguments. Of one token: an accepted one has an addressable ref
(`AcceptedIsAddressable`), a well written one with an addressable ref is accepted
(`AddressableIsAccepted`), and an accepted token means another's ref exactly when
it has the same (`MeansItsRef`). The second needs that no part of a name is longer
than the name (`PartFits`), a fact about a recursive sum; it is proved from the
least length that would break it (`Least`), which takes no induction rule. Of the
parse: `Parsed` says of the tokens done so far that each is blank, warned about
or in the list, that each ref has its token, and that an earlier ref was given
before any token gave a later one; an accepted ref is new, so no token before it
gives it.

Only model-checked, not proved: liveness (`ShutdownCompletes`, `CycleEnds`,
`ImagesLeadToReady`), whose fairness is out of the prover's reach. Every invariant
and action property of a passing run, and both refinements, are proved. The two
expected violations, `AbsentIsDefinitive` of either reader, are false.

## Not modelled

- The text of GitHub's pages: `parsePackageList`, `statedPackages` and
  `parseDownloads` are their outcomes. The publish time changes no other state.
- `LISTEN_ADDR` and `LOG_LEVEL`: one assignment each.
- `MintCollectSources` and `ObserveCollectDuration`: counters no later step reads.
- The whole exporter in one instance: the interfaces above carry the argument,
  and the product of two registries' populations, a publication and a shutdown
  is beyond what TLC can enumerate at a size where each part is interesting.
- HTTP routes, log lines (`CapWatch`'s included), the dashboard, the alert
  rules, scripts and container files.
- The `health`, `webhttp`, `scheduler`, `httpx` and `metrics` libraries are not
  in the repository; they appear only as the code here uses them.

## Plan

Done, in the order of importance: the lifecycle, the cycle and its contract, the
metrics, the two readers, pacing, the lease, the configuration, and the proofs
above. What would add most next:

1. `CapWatch` beside `Collect`, over several cycles.
2. The two readers' contract and the accounting in one theorem: what `Collect`
   assumes of a source is stated with the operators the readers' theorems use,
   but the step between the two is read, not proved.
