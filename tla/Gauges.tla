------------------------------- MODULE Gauges -------------------------------
(***************************************************************************)
(* The per-cycle label bookkeeping of src/internal/obs/obs.go, one step    *)
(* per series write or delete, in the order publish makes them             *)
(* (src/main.go:198-200).  A scrape runs in a goroutine of its own, takes  *)
(* no part in publication.mu and reads one family after another, so each   *)
(* series it reads is read in some state below, and no two of them need be *)
(* read in the same one.                                                   *)
(***************************************************************************)
EXTENDS Naturals, FiniteSets

CONSTANTS
    Keys,      \* image keys: registry, owner and repo
    HubKeys,   \* those of Docker Hub
    Counts,    \* pull counts
    Sources,   \* the active sources
    Gone,      \* no series: a value no family takes
    NoImage    \* no image: a cycle did not measure the key

ASSUME GaugesAssumption ==
    /\ HubKeys \subseteq Keys
    /\ Counts \subseteq Nat
    /\ Gone \notin Counts \union {0, 1}
    /\ NoImage \notin Keys

\* The families whose departed series are retired.
Families == {"pulls", "pushed", "updated", "present"}

ImageSeries == Families \X Keys

\* The verdict of a source; the other two gauges SetSources writes with it, the
\* omitted count and the last success, are left out.
Verdict(s) == <<"complete", s>>
VerdictSeries == {Verdict(s) : s \in Sources}

Series == ImageSeries \union VerdictSeries

\* An image as a cycle measured it.  A time is only "set" or zero here: that is
\* all the bookkeeping looks at.
ImageMetric == [pulls: Counts, detailed: BOOLEAN, lastPushed: BOOLEAN, updated: BOOLEAN]

\* What account hands over (Collect): only GHCR states a push time and only
\* Docker Hub an update time; a measured name inside the detail cap is present,
\* one past the cap has no presence, and any other is absent or undecided.  Only
\* before the first cycle has a source no verdict.
Cycles ==
    {c \in [image: [Keys -> ImageMetric \union {NoImage}],
            presence: [Keys -> {0, 1, Gone}],
            complete: [Sources -> {0, 1, Gone}]] :
        \A k \in Keys :
            LET i == c.image[k] IN
            IF i = NoImage THEN c.presence[k] # 1
            ELSE /\ IF k \in HubKeys THEN ~i.lastPushed ELSE ~i.updated
                 /\ c.presence[k] = IF i.detailed THEN 1 ELSE Gone}

NoCycle == [image |-> [k \in Keys |-> NoImage], presence |-> [k \in Keys |-> Gone],
            complete |-> [s \in Sources |-> Gone]]

\* The series a cycle asks for: SetImage's conditions, SetPresence's and
\* SetSources'.
Wanted(c) ==
    [s \in Series |->
        LET i == c.image[s[2]] IN
        IF s[1] = "complete" THEN c.complete[s[2]]
        ELSE IF s[1] = "present" THEN c.presence[s[2]]
        ELSE IF i = NoImage THEN Gone
        ELSE IF s[1] = "pulls" THEN i.pulls
        ELSE IF i.detailed /\ IF s[1] = "pushed" THEN i.lastPushed ELSE i.updated
             THEN 1 ELSE Gone]

VARIABLES
    step,      \* which call of publish runs: a position of PublishOrder, 0 for none
    retiring,  \* that call has set its series and now deletes the departed
    old,       \* the cycle published before new, and new once new is published
    new,       \* the cycle being published, or the last one published
    board,     \* [Series -> value], the exposed series
    left,      \* the keys, or sources, the running call has yet to set
    hand,      \* the image whose count is set and whose detail is not, or NoImage
    prev,      \* [Families -> SUBSET Keys], prevPulls and its three siblings
    current    \* [Families -> SUBSET Keys], the keys the running call has set

vars == <<step, retiring, old, new, board, left, hand, prev, current>>

NoKeys == [f \in Families |-> {}]

Init ==
    /\ step = 0 /\ retiring = FALSE
    /\ old = NoCycle /\ new = NoCycle
    /\ board = Wanted(NoCycle)
    /\ left = {} /\ hand = NoImage
    /\ prev = NoKeys /\ current = NoKeys

-----------------------------------------------------------------------------
(* publish's three calls.                                                  *)

\* Mutant: the verdicts are published before the presence they vouch for.
SourcesFirst == <<"images", "sources", "presence">>

PublishOrder == <<"images", "presence", "sources">>

Running(call) == step > 0 /\ PublishOrder[step] = call

\* What the call at position i has to set.
Work(i, c) ==
    IF PublishOrder[i] = "images" THEN {k \in Keys : c.image[k] # NoImage}
    ELSE IF PublishOrder[i] = "presence" THEN {k \in Keys : c.presence[k] # Gone}
    ELSE Sources

\* The families a call owns.
Owned == IF Running("images") THEN {"pulls", "pushed", "updated"}
         ELSE IF Running("presence") THEN {"present"} ELSE {}

\* publish gets a cycle past its context check.
Begin ==
    /\ step = 0
    /\ step' = 1
    /\ old' = new
    /\ new' \in Cycles /\ \A s \in Sources : new'.complete[s] # Gone
    /\ left' = Work(1, new')
    /\ UNCHANGED <<retiring, board, hand, prev, current>>

\* Set one series of the new cycle, in place.
Show(f, k) ==
    /\ board' = [board EXCEPT ![<<f, k>>] = Wanted(new)[<<f, k>>]]
    /\ current' = [current EXCEPT ![f] = @ \union {k}]

\* SetImage's loop body: the pull count of an image ...
SetPulls ==
    /\ Running("images") /\ ~retiring /\ hand = NoImage
    /\ \E k \in left :
        /\ Show("pulls", k)
        /\ hand' = k
        /\ left' = left \ {k}
    /\ UNCHANGED <<step, retiring, old, new, prev>>

\* ... and, inside the detail cap, the one time its registry states.
HasDetail(c, k) ==
    c.image[k].detailed /\ IF k \in HubKeys THEN c.image[k].updated ELSE c.image[k].lastPushed

\* The family of the one time a registry states.
DetailFamily(k) == IF k \in HubKeys THEN "updated" ELSE "pushed"

SetDetail ==
    /\ Running("images") /\ hand # NoImage
    /\ IF HasDetail(new, hand)
          THEN /\ board' = [board EXCEPT ![<<DetailFamily(hand), hand>>] = 1]
               /\ current' = [current EXCEPT ![DetailFamily(hand)] = @ \union {hand}]
          ELSE UNCHANGED <<board, current>>
    /\ hand' = NoImage
    /\ UNCHANGED <<step, retiring, old, new, left, prev>>

\* SetPresence's loop body.
SetPresent ==
    /\ Running("presence") /\ ~retiring
    /\ \E k \in left : Show("present", k) /\ left' = left \ {k}
    /\ UNCHANGED <<step, retiring, old, new, hand, prev>>

\* SetSources' loop body: the verdict of one source, never retired.
SetSource ==
    /\ Running("sources")
    /\ \E s \in left :
        /\ board' = [board EXCEPT ![Verdict(s)] = new.complete[s]]
        /\ left' = left \ {s}
    /\ UNCHANGED <<step, retiring, old, new, hand, prev, current>>

\* The loop is over: retire begins.
StartRetire ==
    /\ Owned # {} /\ ~retiring /\ left = {} /\ hand = NoImage
    /\ retiring' = TRUE
    /\ UNCHANGED <<step, old, new, board, left, hand, prev, current>>

\* The keys retire still has to drop.
Departed(f) == {k \in prev[f] \ current[f] : board[<<f, k>>] # Gone}

\* retire, one delete per step, in the order of the map's iteration.
Retire ==
    /\ retiring
    /\ \E f \in Owned : \E k \in Departed(f) :
          board' = [board EXCEPT ![<<f, k>>] = Gone]
    /\ UNCHANGED <<step, retiring, old, new, left, hand, prev, current>>

\* Mutant: the keys of a family are not handed over to the next cycle.
RememberedPullsOnly ==
    [f \in Families |-> IF f \in Owned \ {"pushed"} THEN current[f] ELSE prev[f]]

\* m.prevX = x, for the families of the call.
Remembered == [f \in Families |-> IF f \in Owned THEN current[f] ELSE prev[f]]

\* Mutant: the position is not reset after the last call.
NextStepUnreset == step + 1

\* The position after this call's, 0 once all three are done.
NextStep == (step + 1) % 4

\* A call returns and the next one begins; after the last, publish goes on.
Return ==
    /\ step > 0 /\ left = {} /\ hand = NoImage
    /\ Owned # {} => retiring /\ \A f \in Owned : Departed(f) = {}
    /\ step' = NextStep
    /\ retiring' = FALSE
    /\ prev' = Remembered
    /\ current' = NoKeys
    /\ left' = IF step < 3 THEN Work(step + 1, new) ELSE {}
    /\ old' = IF step < 3 THEN old ELSE new
    /\ UNCHANGED <<new, board, hand>>

Next == \/ Begin \/ SetPulls \/ SetDetail \/ SetPresent \/ SetSource
        \/ StartRetire \/ Retire \/ Return

Spec == Init /\ [][Next]_vars

-----------------------------------------------------------------------------
(* Properties.                                                             *)

TypeOK ==
    /\ step \in 0..3 /\ retiring \in BOOLEAN
    /\ old \in Cycles /\ new \in Cycles
    /\ board \in [Series -> Counts \union {0, 1, Gone}]
    /\ left \subseteq Keys \union Sources
    /\ hand \in Keys \union {NoImage}
    /\ prev \in [Families -> SUBSET Keys]
    /\ current \in [Families -> SUBSET Keys]

Board == INSTANCE SeriesBoard
    WITH Values <- Counts \union {0, 1, Gone}, shown <- board,
         from <- Wanted(old), to <- Wanted(new)

\* Whenever a scrape reads, it reads each series at its old or its new value;
\* each series, verdicts included, moves at most once in a publication, and
\* nothing is left behind (obs.go:168-174, 196-199, 224-225).
BoardPromise == Board!BoardSpec

\* A verdict is never newer than the series it vouches for.  From the moment the
\* exposed collect_complete of any source has left the previous cycle's value,
\* and until the next cycle is published, every exposed image series is this
\* cycle's own: SetSources comes last (main.go:198-200), after the deletes of the
\* other two.  So a scrape that starts once a verdict has changed reads no image
\* of an older cycle.  A scrape that overlaps the change may: it reads
\* image_present ahead of collect_complete (obs.go:115-117) and may be a cycle
\* stale (obs.go:173-174).
VerdictFollowsData ==
    step = 0 \/ (\E v \in VerdictSeries : board[v] # Wanted(old)[v])
        => \A s \in ImageSeries : board[s] = Wanted(new)[s]
=============================================================================
