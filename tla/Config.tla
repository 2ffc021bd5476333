-------------------------------- MODULE Config --------------------------------
(***************************************************************************)
(* What main.go's run() is configured with (internal/config, Load): the    *)
(* poll interval as a duration of a machine word, and the two repo lists,  *)
(* one token at a time, in canonical form and without repeats.  A token is *)
(* a record of path segments, each with its decoded text, whether a letter *)
(* of it is upper case and whether any of it is percent-escaped.           *)
(***************************************************************************)
EXTENDS Integers, Sequences

CONSTANTS
    Texts,              \* the decoded, lower-case texts of segments
    SafeTexts,          \* those the urlsafe allowlist accepts
    Broken,             \* those whose percent-escapes do not decode
    Size,               \* [Texts -> Nat], their length in bytes
    MaxSegmentBytes,    \* urlsafe.MaxSegmentBytes
    Lists,              \* the repo lists in question
    Polls,              \* the values of POLL_INTERVAL_HOURS, [kind, hours]
    HalfWord,           \* 2^63, half the values of a time.Duration
    Hour,               \* time.Hour
    MaxPollHours        \* maxPollHours

DockerHub == "dockerhub"
GHCR == "ghcr"

\* A segment; there is no upper-case asterisk.
Segments ==
    {s \in [text: Texts, upper: BOOLEAN, escaped: BOOLEAN] : s.text = "*" => ~s.upper}

\* repo is the sequence of path elements after the first "/", joined by "/" if
\* raw, else by "%2F".
Tokens == [slash: BOOLEAN, owner: Segments, repo: Seq(Segments) \ {<<>>}, raw: BOOLEAN]

ASSUME ConfigAssumption ==
    /\ SafeTexts \subseteq Texts /\ Broken \subseteq Texts \ SafeTexts
    /\ {"", "*"} \subseteq Texts \ SafeTexts
    /\ Size \in [Texts -> Nat] /\ Size["*"] = 1
    /\ MaxSegmentBytes \in Nat
    /\ Lists \subseteq [{DockerHub, GHCR} -> Seq(Tokens)]
    /\ \A p \in Polls : p.hours \in Int
    /\ HalfWord \in Nat /\ Hour \in Nat \ {0} /\ MaxPollHours \in Nat \ {0}
    \* a year of nanoseconds fits the word
    /\ \A h \in 0..MaxPollHours : h * Hour < HalfWord

VARIABLES
    poll, lists,    \* the environment
    stage,          \* "interval", a registry while its list is parsed, "loaded"
    at,             \* the position of the next token
    seen,           \* the refs the running parse has accepted
    refs,           \* [registry -> Seq(ref)], the lists accepted
    skipped,        \* [registry -> set of positions], the tokens warned about
    interval,       \* Config.PollInterval
    clamped         \* the clamp warning was given

vars == <<poll, lists, stage, at, seen, refs, skipped, interval, clamped>>

-----------------------------------------------------------------------------
(* The poll interval.                                                      *)

\* Two's complement arithmetic on a time.Duration.
Wrap(n) == ((n + HalfWord) % (2 * HalfWord)) - HalfWord

\* Unset, malformed and negative values give the default of one hour.
PollHours(p) == IF p.kind = "number" /\ p.hours >= 0 THEN p.hours ELSE 1

\* Mutant: no upper bound.
ClampNever(h) == h

Clamp(h) == IF h > MaxPollHours THEN MaxPollHours ELSE h

PollInterval(p) == Wrap(Clamp(PollHours(p)) * Hour)

-----------------------------------------------------------------------------
(* One ref.                                                                *)

Lower(s) == [s EXCEPT !.upper = FALSE]
Unescape(s) == [s EXCEPT !.escaped = FALSE]
Star == [text |-> "*", upper |-> FALSE, escaped |-> FALSE]

Blank(t) == ~t.slash /\ t.owner.text = ""

\* A "%" is not in the allowlist.
IsSafeURLSegment(s) ==
    ~s.escaped /\ s.text \in SafeTexts /\ Size[s.text] <= MaxSegmentBytes

\* The bytes of the first n elements, for each n.
BytesTo(sizes) ==
    LET f[n \in 0..Len(sizes)] == IF n = 0 THEN 0 ELSE f[n - 1] + sizes[n] IN f

\* The elements and the slashes between them.
NameSize(name) ==
    Len(name) - 1 + BytesTo([k \in DOMAIN name |-> Size[name[k].text]])[Len(name)]

CheckReference(owner, name) == Size[owner.text] + 1 + NameSize(name) <= MaxSegmentBytes

Decoded(name) == [k \in DOMAIN name |-> Unescape(name[k])]

\* Mutant: the path elements are checked before they are decoded.
PackageNameUndecoded(t) ==
    /\ ~t.raw
    /\ \A k \in DOMAIN t.repo : t.repo[k].text \notin Broken
    /\ CheckReference(t.owner, Decoded(t.repo))
    /\ \A k \in DOMAIN t.repo : t.repo[k].escaped \/ IsSafeURLSegment(t.repo[k])

PackageName(t) ==
    /\ ~t.raw
    /\ \A k \in DOMAIN t.repo : t.repo[k].text \notin Broken
    /\ CheckReference(t.owner, Decoded(t.repo))
    /\ \A k \in DOMAIN t.repo : IsSafeURLSegment(Unescape(t.repo[k]))

RepoName(reg, t) ==
    \/ t.repo = <<Star>> /\ CheckReference(t.owner, t.repo)
    \/ /\ t.repo # <<Star>> /\ reg # GHCR
       /\ Len(t.repo) = 1 /\ IsSafeURLSegment(t.repo[1])
       /\ CheckReference(t.owner, t.repo)
    \/ t.repo # <<Star>> /\ reg = GHCR /\ PackageName(t)

\* resolveRef accepts the token, and the ref it returns.
Resolves(reg, t) == t.slash /\ IsSafeURLSegment(t.owner) /\ RepoName(reg, t)

ResolveRef(t) ==
    [owner |-> Lower(t.owner), repo |-> [k \in DOMAIN t.repo |-> Lower(Unescape(t.repo[k]))]]

-----------------------------------------------------------------------------
(* Load.                                                                   *)

Init ==
    /\ poll \in Polls /\ lists \in Lists
    /\ stage = "interval" /\ at = 1 /\ seen = {}
    /\ refs = [reg \in {DockerHub, GHCR} |-> <<>>]
    /\ skipped = [reg \in {DockerHub, GHCR} |-> {}]
    /\ interval = 0 /\ clamped = FALSE

LoadInterval ==
    /\ stage = "interval" /\ stage' = DockerHub
    /\ interval' = PollInterval(poll)
    /\ clamped' = (PollHours(poll) > MaxPollHours)
    /\ UNCHANGED <<poll, lists, at, seen, refs, skipped>>

Parsing == stage \in {DockerHub, GHCR} /\ at <= Len(lists[stage])
Token == lists[stage][at]

SkipBlank ==
    /\ Parsing /\ Blank(Token)
    /\ at' = at + 1
    /\ UNCHANGED <<poll, lists, stage, seen, refs, skipped, interval, clamped>>

Refuse ==
    /\ Parsing /\ ~Blank(Token) /\ ~Resolves(stage, Token)
    /\ at' = at + 1
    /\ skipped' = [skipped EXCEPT ![stage] = @ \union {at}]
    /\ UNCHANGED <<poll, lists, stage, seen, refs, interval, clamped>>

Repeated(t) == ResolveRef(t) \in seen

SkipRepeated ==
    /\ Parsing /\ Resolves(stage, Token) /\ Repeated(Token)
    /\ at' = at + 1
    /\ UNCHANGED <<poll, lists, stage, seen, refs, skipped, interval, clamped>>

Accept ==
    /\ Parsing /\ Resolves(stage, Token) /\ ~Repeated(Token)
    /\ at' = at + 1
    /\ seen' = seen \union {ResolveRef(Token)}
    /\ refs' = [refs EXCEPT ![stage] = Append(@, ResolveRef(Token))]
    /\ UNCHANGED <<poll, lists, stage, skipped, interval, clamped>>

EndList ==
    /\ stage \in {DockerHub, GHCR} /\ at > Len(lists[stage])
    /\ stage' = IF stage = DockerHub THEN GHCR ELSE "loaded"
    /\ at' = 1 /\ seen' = {}
    /\ UNCHANGED <<poll, lists, refs, skipped, interval, clamped>>

Next == LoadInterval \/ SkipBlank \/ Refuse \/ SkipRepeated \/ Accept \/ EndList

Spec == Init /\ [][Next]_vars

-----------------------------------------------------------------------------
(* Properties.                                                             *)

\* The interval is what the user asked for, in whole hours up to a year, and
\* one-shot mode only when the user asked for that: no value of the variable
\* comes out negative, as another interval or as zero through overflow.
IntervalIsSane ==
    stage # "interval" =>
        /\ interval >= 0 /\ interval <= MaxPollHours * Hour
        /\ interval = 0 <=> poll.kind = "number" /\ poll.hours = 0
        /\ poll.kind = "number" /\ poll.hours \in 0..MaxPollHours => interval = poll.hours * Hour
        /\ clamped <=> poll.kind = "number" /\ poll.hours > MaxPollHours

\* A ref that can be put into a request: lower case, elements the allowlist
\* accepts and nothing escaped, a nested name on GHCR only, within the budget.
Addressable(reg, ref) ==
    LET Fits(s) == ~s.upper /\ ~s.escaped /\ s.text \in SafeTexts IN
    /\ Fits(ref.owner)
    /\ \/ ref.repo = <<Star>>
       \/ \A k \in DOMAIN ref.repo : Fits(ref.repo[k])
    /\ Len(ref.repo) > 1 => reg = GHCR
    /\ CheckReference(ref.owner, ref.repo)

\* The ref a token means, and whether it is written as the docs have it: a
\* slash of a name as %2F, and only on GHCR escapes at all; "*" as itself.
Means(t, ref) ==
    /\ t.slash /\ t.owner.text = ref.owner.text /\ Len(t.repo) = Len(ref.repo)
    /\ \A k \in DOMAIN ref.repo : t.repo[k].text = ref.repo[k].text

WellWritten(reg, t) ==
    /\ ~t.owner.escaped /\ ~t.raw
    /\ \A k \in DOMAIN t.repo :
         t.repo[k].escaped => reg = GHCR /\ t.repo[k].text \notin Broken \union {"*"}

\* A list names no ref twice.
Distinct(list) == \A i, j \in DOMAIN list : i # j => list[i] # list[j]

\* A parsed list holds addressable refs only, each one once.  Every token but a
\* blank one is in it or was warned about, and every ref of it is what a token
\* that was accepted means, "*" for "*" only.  A refused token that is written as
\* the docs have it means no ref the registry could serve.  The refs come in the
\* order of their first mention.
RefsAreCanonical ==
    \A reg \in {DockerHub, GHCR} : stage = "loaded" \/ (stage = GHCR /\ reg = DockerHub) =>
        LET list == lists[reg]
            Mentions(k, ref) == k \notin skipped[reg] /\ Means(list[k], ref)
        IN
        /\ \A i \in DOMAIN refs[reg] : Addressable(reg, refs[reg][i])
        /\ Distinct(refs[reg])
        /\ \A k \in DOMAIN list :
             Blank(list[k]) \/ k \in skipped[reg] \/ \E i \in DOMAIN refs[reg] : Mentions(k, refs[reg][i])
        /\ \A k \in skipped[reg] :
             WellWritten(reg, list[k]) => ~Addressable(reg, ResolveRef(list[k])) \/ ~list[k].slash
        /\ \A i, j \in DOMAIN refs[reg] : i < j =>
             \E k \in DOMAIN list : /\ Mentions(k, refs[reg][i])
                                    /\ \A l \in 1..k : ~Mentions(l, refs[reg][j])
        /\ \A i \in DOMAIN refs[reg] :
             \E k \in DOMAIN list : /\ Mentions(k, refs[reg][i])
                                    /\ refs[reg][i].repo = <<Star>> => list[k].repo = <<Star>>
=============================================================================
