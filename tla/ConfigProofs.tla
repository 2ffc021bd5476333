----------------------------- MODULE ConfigProofs -----------------------------
(***************************************************************************)
(* The poll interval is what was asked for, for every width of a duration  *)
(* a year of hours fits; and a parsed list holds exactly the refs its      *)
(* tokens mean, for every list of tokens and every budget of bytes.        *)
(***************************************************************************)
EXTENDS Config, WellFoundedInduction, TLAPS

\* What an hour count between zero and the clamp becomes.
LEMMA WholeHours ==
    ASSUME NEW h \in 0..MaxPollHours
    PROVE  /\ Wrap(h * Hour) = h * Hour
           /\ h * Hour \in Nat /\ h * Hour <= MaxPollHours * Hour
           /\ h * Hour = 0 <=> h = 0
<1>1. h \in Nat /\ h <= MaxPollHours /\ MaxPollHours \in Nat /\ Hour \in Nat /\ Hour > 0 /\ HalfWord \in Nat
  <2>1. MaxPollHours \in Nat \ {0} /\ Hour \in Nat \ {0} /\ HalfWord \in Nat
    BY ConfigAssumption
  <2>2. QED
    BY <2>1, SMT
<1>2. h * Hour \in Nat
  BY <1>1, SMT
<1>3. h * Hour < HalfWord
  BY ConfigAssumption
<1>4. h * Hour <= MaxPollHours * Hour
  <2>1. MaxPollHours * Hour = h * Hour + (MaxPollHours - h) * Hour
    BY <1>1, SMT
  <2>2. (MaxPollHours - h) * Hour >= 0
    BY <1>1, SMT
  <2>3. QED
    BY <1>1, <1>2, <2>1, <2>2, SMT
<1>5. h * Hour = 0 <=> h = 0
  BY <1>1, SMT
<1>6. Wrap(h * Hour) = h * Hour
  <2>1. ASSUME NEW n \in Nat, n < HalfWord
        PROVE  (n + HalfWord) % (2 * HalfWord) = n + HalfWord
    BY <1>1, <2>1, SMT
  <2>2. (h * Hour + HalfWord) % (2 * HalfWord) = h * Hour + HalfWord
    BY <1>2, <1>3, <2>1
  <2>3. QED
    BY <1>1, <1>2, <2>2, SMT DEF Wrap
<1>7. QED
  BY <1>2, <1>4, <1>5, <1>6

\* The interval once it has been read.
IntervalRead ==
    /\ poll \in Polls
    /\ stage # "interval" => /\ interval = PollInterval(poll)
                             /\ clamped = (PollHours(poll) > MaxPollHours)

LEMMA ReadIsSane == IntervalRead => IntervalIsSane
<1> SUFFICES ASSUME IntervalRead, stage # "interval"
             PROVE  /\ interval >= 0 /\ interval <= MaxPollHours * Hour
                    /\ interval = 0 <=> poll.kind = "number" /\ poll.hours = 0
                    /\ poll.kind = "number" /\ poll.hours \in 0..MaxPollHours
                         => interval = poll.hours * Hour
                    /\ clamped <=> poll.kind = "number" /\ poll.hours > MaxPollHours
  BY DEF IntervalIsSane
<1> DEFINE hours == Clamp(PollHours(poll))
<1>1. poll.hours \in Int /\ MaxPollHours \in Nat /\ MaxPollHours > 0
  <2>1. MaxPollHours \in Nat \ {0} /\ poll.hours \in Int
    BY ConfigAssumption DEF IntervalRead
  <2>2. QED
    BY <2>1, SMT
<1>2. /\ PollHours(poll) \in Nat
      /\ poll.kind = "number" /\ poll.hours >= 0 => PollHours(poll) = poll.hours
      /\ ~(poll.kind = "number" /\ poll.hours >= 0) => PollHours(poll) = 1
  BY <1>1, SMT DEF PollHours
<1>3. /\ hours \in 0..MaxPollHours
      /\ hours = 0 <=> poll.kind = "number" /\ poll.hours = 0
      /\ poll.kind = "number" /\ poll.hours \in 0..MaxPollHours => hours = poll.hours
      /\ PollHours(poll) > MaxPollHours <=> poll.kind = "number" /\ poll.hours > MaxPollHours
  BY <1>1, <1>2, SMT DEF Clamp
<1>4. interval = Wrap(hours * Hour) /\ clamped = (PollHours(poll) > MaxPollHours)
  BY DEF IntervalRead, PollInterval
<1> HIDE DEF hours
<1>5. interval = hours * Hour /\ interval \in Nat /\ interval <= MaxPollHours * Hour
      /\ (interval = 0 <=> hours = 0)
  BY <1>3, <1>4, WholeHours
<1>6. interval >= 0
  BY <1>5, SMT
<1>7. QED
  BY <1>3, <1>4, <1>5, <1>6

LEMMA IntervalReadKept == IntervalRead /\ [Next]_vars => IntervalRead'
<1> SUFFICES ASSUME IntervalRead, [Next]_vars PROVE IntervalRead'
  OBVIOUS
<1>1. CASE LoadInterval
  BY <1>1 DEF IntervalRead, LoadInterval
<1>2. CASE SkipBlank \/ Refuse \/ SkipRepeated \/ Accept
  BY <1>2 DEF IntervalRead, SkipBlank, Refuse, SkipRepeated, Accept
<1>3. CASE EndList
  BY <1>3 DEF IntervalRead, EndList, DockerHub, GHCR
<1>4. CASE UNCHANGED vars
  BY <1>4 DEF IntervalRead, vars
<1>5. QED
  BY <1>1, <1>2, <1>3, <1>4 DEF Next

\* No value of POLL_INTERVAL_HOURS overflows into a negative, a shorter or a
\* zero interval, whatever the width of a duration.
THEOREM IntervalIsSaneAlways == Spec => []IntervalIsSane
<1>1. Init => IntervalRead
  BY DEF Init, IntervalRead
<1>2. QED
  BY <1>1, IntervalReadKept, ReadIsSane, PTL DEF Spec

-----------------------------------------------------------------------------
(* The lists.                                                              *)

\* Every ref a token of either list could resolve to.
Possible == {ResolveRef(lists[reg][k]) : reg \in {DockerHub, GHCR}, k \in Nat}

Elements(list) == {list[k] : k \in DOMAIN list}

\* seen is the list of the running parse as a set; a list not yet parsed is
\* empty, and none repeats a ref.
SeenIsList ==
    /\ at \in Nat /\ stage \in {"interval", DockerHub, GHCR, "loaded"}
    /\ refs \in [{DockerHub, GHCR} -> Seq(Possible)]
    /\ stage \in {DockerHub, GHCR} =>
         seen = Elements(refs[stage])
    /\ stage = "interval" => refs[DockerHub] = <<>> /\ seen = {}
    /\ stage \in {"interval", DockerHub} => refs[GHCR] = <<>>
    /\ \A reg \in {DockerHub, GHCR} : Distinct(refs[reg])

\* A ref that is not in a list can be appended without a repeat.
LEMMA AppendDistinct ==
    ASSUME NEW S, NEW list \in Seq(S), NEW ref \in S, Distinct(list),
           ref \notin Elements(list)
    PROVE  /\ Append(list, ref) \in Seq(S)
           /\ Distinct(Append(list, ref))
           /\ Elements(Append(list, ref)) = Elements(list) \union {ref}
<1> DEFINE new == Append(list, ref)
<1>1. /\ new \in Seq(S) /\ DOMAIN list = 1..Len(list) /\ DOMAIN new = 1..Len(list) + 1
      /\ Len(list) \in Nat /\ new[Len(list) + 1] = ref
      /\ \A k \in 1..Len(list) : new[k] = list[k]
  BY SMT
<1> HIDE DEF new
<1>2. \A k \in 1..Len(list) + 1 : k \in 1..Len(list) \/ k = Len(list) + 1
  BY <1>1, SMT
<1>3. \A k \in 1..Len(list) : k \in 1..Len(list) + 1 /\ k # Len(list) + 1
  BY <1>1, SMT
<1>4. Len(list) + 1 \in 1..Len(list) + 1
  BY <1>1, SMT
<1>5. Distinct(new)
  <2> SUFFICES ASSUME NEW i \in DOMAIN new, NEW j \in DOMAIN new, i # j
               PROVE  new[i] # new[j]
    BY DEF Distinct
  <2>1. CASE i \in 1..Len(list) /\ j \in 1..Len(list)
    BY <1>1, <2>1 DEF Distinct
  <2>2. CASE i = Len(list) + 1 /\ j \in 1..Len(list)
    BY <1>1, <2>2 DEF Elements
  <2>3. CASE j = Len(list) + 1 /\ i \in 1..Len(list)
    BY <1>1, <2>3 DEF Elements
  <2>4. QED
    BY <1>1, <1>2, <2>1, <2>2, <2>3
<1>6. Elements(new) = Elements(list) \union {ref}
  BY <1>1, <1>2, <1>3, <1>4 DEF Elements
<1>7. QED
  BY <1>1, <1>5, <1>6 DEF new

LEMMA InitSeen == Init => SeenIsList
<1> SUFFICES ASSUME Init PROVE SeenIsList
  OBVIOUS
<1>1. \A reg \in {DockerHub, GHCR} : refs[reg] = <<>>
  BY DEF Init
<1>2. \A S : <<>> \in Seq(S)
  BY SMT
<1>3. DOMAIN <<>> = {}
  BY SMT
<1>4. at \in Nat
  BY SMT DEF Init
<1>5. refs \in [{DockerHub, GHCR} -> Seq(Possible)]
  BY <1>2 DEF Init
<1>6. Distinct(<<>>)
  BY <1>3 DEF Distinct
<1>7. stage = "interval" /\ seen = {} /\ stage \notin {DockerHub, GHCR}
  BY DEF Init, DockerHub, GHCR
<1>8. QED
  BY <1>1, <1>4, <1>5, <1>6, <1>7 DEF SeenIsList

LEMMA AcceptKeeps == SeenIsList /\ Accept => SeenIsList'
<1> SUFFICES ASSUME SeenIsList, Accept PROVE SeenIsList'
  OBVIOUS
<1>1. /\ stage \in {DockerHub, GHCR} /\ stage' = stage /\ lists' = lists
      /\ at' = at + 1 /\ at \in Nat
  BY DEF Accept, Parsing, SeenIsList
<1>2. ResolveRef(Token) \in Possible /\ ResolveRef(Token) \notin seen
  BY <1>1 DEF Accept, Repeated, Possible, Token
<1> DEFINE ref == ResolveRef(Token)
<1> HIDE DEF ref
<1>3. refs[stage] \in Seq(Possible) /\ Distinct(refs[stage]) /\ seen = Elements(refs[stage])
  BY <1>1 DEF SeenIsList
<1>4. /\ Append(refs[stage], ref) \in Seq(Possible)
      /\ Distinct(Append(refs[stage], ref))
      /\ Elements(Append(refs[stage], ref)) = seen \union {ref}
  <2>1. ref \in Possible /\ ref \notin Elements(refs[stage])
    BY <1>2, <1>3 DEF ref
  <2>2. QED
    BY <1>3, <2>1, AppendDistinct
<1>5. /\ refs' = [refs EXCEPT ![stage] = Append(refs[stage], ref)]
      /\ seen' = seen \union {ref}
  BY DEF Accept, ref
<1>6. refs \in [{DockerHub, GHCR} -> Seq(Possible)] /\ Possible' = Possible
  BY <1>1 DEF SeenIsList, Possible
<1>7. /\ refs' \in [{DockerHub, GHCR} -> Seq(Possible)]
      /\ refs'[stage] = Append(refs[stage], ref)
      /\ \A reg \in {DockerHub, GHCR} : reg # stage => refs'[reg] = refs[reg]
  BY <1>1, <1>4, <1>5, <1>6
<1>8. at' \in Nat
  BY <1>1, SMT
<1>9. \A reg \in {DockerHub, GHCR} : Distinct(refs'[reg])
  BY <1>4, <1>7 DEF SeenIsList
<1>10. stage = DockerHub => refs'[GHCR] = <<>>
  BY <1>7 DEF SeenIsList, DockerHub, GHCR
<1>11. stage # "interval"
  BY <1>1 DEF DockerHub, GHCR
<1>12. seen' = Elements(refs'[stage])
  BY <1>4, <1>5, <1>7
<1>13. QED
  BY <1>1, <1>6, <1>7, <1>8, <1>9, <1>10, <1>11, <1>12 DEF SeenIsList

LEMMA OthersKeepSeen ==
    SeenIsList /\ (LoadInterval \/ SkipBlank \/ Refuse \/ SkipRepeated \/ EndList \/ UNCHANGED vars)
      => SeenIsList'
<1> SUFFICES ASSUME SeenIsList,
                    LoadInterval \/ SkipBlank \/ Refuse \/ SkipRepeated \/ EndList \/ UNCHANGED vars
             PROVE  SeenIsList'
  OBVIOUS
<1>1. refs' = refs /\ lists' = lists
  BY DEF LoadInterval, SkipBlank, Refuse, SkipRepeated, EndList, vars
<1>2. Possible' = Possible
  BY <1>1 DEF Possible
<1>3. at' = at \/ at' = at + 1 \/ at' = 1
  BY DEF LoadInterval, SkipBlank, Refuse, SkipRepeated, EndList, vars
<1>4. at' \in Nat
  BY <1>3, SMT DEF SeenIsList
<1>5. DOMAIN <<>> = {}
  BY SMT
<1>6. CASE LoadInterval
  BY <1>1, <1>2, <1>4, <1>5, <1>6 DEF SeenIsList, Elements, LoadInterval, DockerHub, GHCR
<1>7. CASE SkipBlank \/ Refuse \/ SkipRepeated \/ UNCHANGED vars
  BY <1>1, <1>2, <1>4, <1>7 DEF SeenIsList, SkipBlank, Refuse, SkipRepeated, vars
<1>8. CASE EndList
  BY <1>1, <1>2, <1>4, <1>5, <1>8 DEF SeenIsList, Elements, EndList, DockerHub, GHCR
<1>9. QED
  BY <1>6, <1>7, <1>8

\* Neither list names a ref twice, for any list of tokens: a repeat is seen in
\* whatever case and with whatever escapes it is written.
THEOREM ListsAreDistinct == Spec => [](\A reg \in {DockerHub, GHCR} : Distinct(refs[reg]))
<1>1. SeenIsList /\ [Next]_vars => SeenIsList'
  BY AcceptKeeps, OthersKeepSeen DEF Next
<1>2. SeenIsList => \A reg \in {DockerHub, GHCR} : Distinct(refs[reg])
  BY DEF SeenIsList
<1>3. QED
  BY <1>1, <1>2, InitSeen, PTL DEF Spec

-----------------------------------------------------------------------------
(* The length of a name.                                                   *)

\* A set of naturals that is not empty has a least one.
LEMMA Least ==
  ASSUME NEW T \in SUBSET Nat, T # {}
  PROVE  \E x \in T : \A y \in T : x <= y
<1> DEFINE R == OpToRel(<, Nat)
<1>1. IsWellFoundedOn(R, Nat)
  BY NatLessThanWellFounded
<1>2. \A x, y \in Nat : y < x => <<y, x>> \in R
  BY DEF OpToRel
<1> HIDE DEF R
<1>3. PICK x \in T : \A y \in T : ~ (<<y, x>> \in R)
  <2>1. T \subseteq Nat
    OBVIOUS
  <2>2. QED
    BY <1>1, <2>1, WFMin
<1>4. \A y \in T : x <= y
  <2> SUFFICES ASSUME NEW y \in T PROVE x <= y
    OBVIOUS
  <2>1. x \in Nat /\ y \in Nat /\ ~(y < x)
    BY <1>2, <1>3
  <2>2. QED
    BY <2>1, SMT
<1>5. QED
  BY <1>4

\* g adds the first m sizes.
Adds(sizes, g, m) ==
    /\ g \in [0..m -> Nat] /\ g[0] = 0
    /\ \A n \in 1..m : g[n] = g[n - 1] + sizes[n]

\* A function that adds the first elements extends to one more.
LEMMA AddsOneMore ==
  ASSUME NEW sizes \in Seq(Nat), NEW m \in 1..Len(sizes), NEW g, Adds(sizes, g, m - 1)
  PROVE  \E h : Adds(sizes, h, m)
<1> DEFINE h == [n \in 0..m |-> IF n = m THEN g[m - 1] + sizes[m] ELSE g[n]]
<1>1. m \in Nat /\ m - 1 \in Nat /\ sizes[m] \in Nat /\ m # 0 /\ m - 1 \in 0..(m-1) /\ 0 \in 0..m
  OBVIOUS
<1>2. g[m - 1] \in Nat /\ g[0] = 0 /\ \A n \in 0..(m-1) : g[n] \in Nat
  BY <1>1 DEF Adds
<1>3. \A n \in 0..m : n = m \/ n \in 0..(m-1)
  BY <1>1
<1>4. g[m - 1] + sizes[m] \in Nat
  BY <1>1, <1>2
<1>5. h \in [0..m -> Nat]
  BY <1>2, <1>3, <1>4
<1>6. h[0] = 0
  BY <1>1, <1>2
<1>7. ASSUME NEW n \in 1..m PROVE h[n] = h[n - 1] + sizes[n]
  <2>1. n \in 0..m /\ n - 1 \in 0..m /\ n - 1 # m /\ (n # m => n \in 1..(m-1))
    BY <1>1
  <2>2. h[n - 1] = g[n - 1]
    BY <2>1
  <2>3. CASE n = m
    BY <2>1, <2>2, <2>3
  <2>4. CASE n # m
    <3>1. h[n] = g[n]
      BY <2>1, <2>4
    <3>2. n \in 1..(m-1)
      BY <2>1, <2>4
    <3>3. g[n] = g[n - 1] + sizes[n]
      BY <3>2 DEF Adds
    <3>4. QED
      BY <3>1, <3>3, <2>2
  <2>5. QED
    BY <2>3, <2>4
<1> HIDE DEF h
<1>8. Adds(sizes, h, m)
  BY <1>5, <1>6, <1>7 DEF Adds
<1>9. QED
  BY <1>8

\* The recursive function exists, and is the only one that adds the elements:
\* by the least length for which it would not.
LEMMA BytesAdd ==
  ASSUME NEW sizes \in Seq(Nat)
  PROVE  Adds(sizes, BytesTo(sizes), Len(sizes))
<1> DEFINE L == Len(sizes)
           Is(g) == g = [n \in 0..L |-> IF n = 0 THEN 0 ELSE g[n - 1] + sizes[n]]
           Bad == {m \in 0..L : ~ \E g : Adds(sizes, g, m)}
<1>1. L \in Nat /\ \A n \in 1..L : sizes[n] \in Nat
  OBVIOUS
<1>2. Bad = {}
  <2> SUFFICES ASSUME Bad # {} PROVE FALSE
    OBVIOUS
  <2>1. PICK m \in Bad : \A k \in Bad : m <= k
    <3>1. Bad \in SUBSET Nat
      BY <1>1
    <3> HIDE DEF Bad
    <3>2. QED
      BY <3>1, Least
  <2>2. m \in 0..L /\ ~ \E g : Adds(sizes, g, m)
    BY <2>1
  <2>3. CASE m = 0
    <3> DEFINE g == [n \in 0..0 |-> 0]
    <3>1. Adds(sizes, g, 0)
      BY DEF Adds
    <3> HIDE DEF g
    <3>2. QED
      BY <2>2, <2>3, <3>1
  <2>4. CASE m # 0
    <3>1. m - 1 \in 0..L /\ m \in 1..L /\ ~(m <= m - 1)
      BY <1>1, <2>2, <2>4
    <3>2. m - 1 \notin Bad
      BY <2>1, <3>1
    <3>3. PICK g : Adds(sizes, g, m - 1)
      BY <3>1, <3>2
    <3>5. QED
      BY <2>2, <3>1, <3>3, AddsOneMore
  <2>5. QED
    BY <2>3, <2>4
<1>3. PICK g : Adds(sizes, g, L)
  <2>1. L \in 0..L
    BY <1>1
  <2>2. QED
    BY <1>2, <2>1
<1>4. Is(g)
  <2> DEFINE h == [n \in 0..L |-> IF n = 0 THEN 0 ELSE g[n - 1] + sizes[n]]
  <2>1. \A n \in 0..L : n # 0 => n \in 1..L
    BY <1>1
  <2>2. g \in [0..L -> Nat] /\ \A n \in 0..L : g[n] = h[n]
    BY <1>3, <2>1 DEF Adds
  <2>3. h = [n \in 0..L |-> h[n]] /\ g = [n \in 0..L |-> g[n]]
    BY <2>2
  <2>4. QED
    BY <2>2, <2>3
<1>5. BytesTo(sizes) = CHOOSE f : Is(f)
  BY DEF BytesTo
<1> DEFINE f == BytesTo(sizes)
<1>6. Is(f)
  BY <1>4, <1>5
<1>7. \A n \in 0..L : f[n] = IF n = 0 THEN 0 ELSE f[n - 1] + sizes[n]
  BY <1>6
<1> HIDE DEF f
<1>8. 0 \in 0..L /\ \A n \in 1..L : n \in 0..L /\ n # 0
  BY <1>1
<1>9. f[0] = 0 /\ \A n \in 1..L : f[n] = f[n - 1] + sizes[n]
  BY <1>7, <1>8
<1>10. f \in [0..L -> Nat]
  <2> DEFINE Odd == {m \in 0..L : f[m] \notin Nat}
  <2>1. Odd = {}
    <3> SUFFICES ASSUME Odd # {} PROVE FALSE
      OBVIOUS
    <3>1. PICK m \in Odd : \A k \in Odd : m <= k
      <4>1. Odd \in SUBSET Nat
        BY <1>1
      <4> HIDE DEF Odd
      <4>2. QED
        BY <4>1, Least
    <3>2. m \in 0..L /\ f[m] \notin Nat
      BY <3>1
    <3>3. m # 0
      BY <1>9, <3>2
    <3>4. m - 1 \in 0..L /\ m \in 1..L /\ ~(m <= m - 1)
      BY <1>1, <3>2, <3>3
    <3>5. f[m - 1] \in Nat
      BY <3>1, <3>4
    <3>6. f[m] = f[m - 1] + sizes[m]
      BY <1>9, <3>4
    <3>7. sizes[m] \in Nat
      BY <1>1, <3>4
    <3>8. QED
      BY <3>2, <3>5, <3>6, <3>7
  <2>2. f = [n \in 0..L |-> f[n]]
    <3>1. f = [n \in 0..L |-> IF n = 0 THEN 0 ELSE f[n - 1] + sizes[n]]
      BY <1>6
    <3>2. QED
      BY <1>7, <3>1, Zenon
  <2>3. \A n \in 0..L : f[n] \in Nat
    BY <2>1
  <2>4. QED
    BY <2>2, <2>3
<1>11. QED
  BY <1>9, <1>10 DEF Adds, f

\* No part of a name is longer than the name.
LEMMA PartFits ==
    ASSUME NEW sizes \in Seq(Nat)
    PROVE  /\ BytesTo(sizes)[Len(sizes)] \in Nat
           /\ \A n \in 1..Len(sizes) : sizes[n] <= BytesTo(sizes)[Len(sizes)]
<1> DEFINE L == Len(sizes)
           f == BytesTo(sizes)
           Bad == {m \in 0..L : \E n \in 1..m : sizes[n] > f[m]}
<1>1. L \in Nat /\ \A n \in 1..L : sizes[n] \in Nat
  OBVIOUS
<1>2. /\ \A n \in 0..L : f[n] \in Nat
      /\ \A n \in 1..L : f[n] = f[n - 1] + sizes[n]
  BY BytesAdd DEF Adds
<1> HIDE DEF f
<1>3. Bad = {}
  <2> SUFFICES ASSUME Bad # {} PROVE FALSE
    OBVIOUS
  <2>1. PICK m \in Bad : \A k \in Bad : m <= k
    <3>1. Bad \in SUBSET Nat
      BY <1>1
    <3> HIDE DEF Bad
    <3>2. QED
      BY <3>1, Least
  <2>2. PICK n \in 1..m : sizes[n] > f[m]
    BY <2>1
  <2>3. m \in 0..L /\ m \in 1..L /\ m - 1 \in 0..L /\ ~(m <= m - 1)
    BY <1>1, <2>1, <2>2
  <2>4. f[m] = f[m - 1] + sizes[m] /\ f[m - 1] \in Nat /\ f[m] \in Nat /\ sizes[m] \in Nat
    BY <1>1, <1>2, <2>3
  <2>5. n # m
    <3>1. \A a, b, c \in Nat : b = a + c => ~(c > b)
      BY SMT
    <3>2. QED
      BY <2>2, <2>4, <3>1
  <2>6. n \in 1..(m - 1) /\ sizes[n] \in Nat
    BY <1>1, <2>2, <2>3, <2>5
  <2>7. m - 1 \notin Bad
    BY <2>1, <2>3
  <2>8. ~(sizes[n] > f[m - 1])
    BY <2>3, <2>6, <2>7
  <2>9. \A a, b, c, d \in Nat : a > b /\ b = c + d => a > c
    BY SMT
  <2>10. QED
    BY <2>2, <2>4, <2>6, <2>8, <2>9
<1>4. L \in 0..L
  BY <1>1
<1>5. f[L] \in Nat
  BY <1>2, <1>4
<1>6. \A n \in 1..L : sizes[n] <= f[L]
  <2> SUFFICES ASSUME NEW n \in 1..L PROVE sizes[n] <= f[L]
    OBVIOUS
  <2>1. ~(sizes[n] > f[L])
    BY <1>3, <1>4
  <2>2. sizes[n] \in Nat
    BY <1>1
  <2>3. QED
    BY <1>5, <2>1, <2>2
<1>7. QED
  BY <1>5, <1>6 DEF f

\* A name is a sequence of sizes, as long as its longest element at least.
LEMMA NameIsLong ==
    ASSUME NEW name \in Seq(Segments) \ {<<>>}
    PROVE  /\ NameSize(name) \in Nat
           /\ \A k \in DOMAIN name : Size[name[k].text] <= NameSize(name)
<1> DEFINE sizes == [k \in DOMAIN name |-> Size[name[k].text]]
<1>1. Len(name) \in Nat /\ Len(name) # 0 /\ DOMAIN name = 1..Len(name)
  OBVIOUS
<1>2. \A k \in DOMAIN name : name[k].text \in Texts
  BY DEF Segments
<1>3. \A k \in DOMAIN name : Size[name[k].text] \in Nat
  BY <1>2, ConfigAssumption
<1>4. sizes \in Seq(Nat) /\ Len(sizes) = Len(name)
  BY <1>1, <1>3
<1>5. \A k \in DOMAIN name : sizes[k] = Size[name[k].text]
  OBVIOUS
<1> HIDE DEF sizes
<1>6. /\ BytesTo(sizes)[Len(name)] \in Nat
      /\ \A k \in 1..Len(name) : sizes[k] <= BytesTo(sizes)[Len(name)]
  BY <1>4, PartFits
<1>7. NameSize(name) = Len(name) - 1 + BytesTo(sizes)[Len(name)]
  BY DEF NameSize, sizes
<1>8. NameSize(name) \in Nat
  BY <1>1, <1>6, <1>7, SMT
<1>9. \A a, b, c, d \in Nat : a <= b /\ c = d - 1 + b /\ d # 0 => a <= c
  BY SMT
<1>10. QED
  BY <1>1, <1>3, <1>5, <1>6, <1>7, <1>8, <1>9

\* The length of a name depends on its texts only.
LEMMA SameTexts ==
    ASSUME NEW a, NEW b, Len(a) = Len(b), DOMAIN a = DOMAIN b,
           \A k \in DOMAIN a : a[k].text = b[k].text
    PROVE  NameSize(a) = NameSize(b)
<1>1. [k \in DOMAIN a |-> Size[a[k].text]] = [k \in DOMAIN b |-> Size[b[k].text]]
  OBVIOUS
<1>2. QED
  BY <1>1 DEF NameSize

\* What lowering the case and removing the escapes leaves of a segment.
LEMMA Canonical ==
    ASSUME NEW s \in Segments
    PROVE  /\ Lower(s) = [text |-> s.text, upper |-> FALSE, escaped |-> s.escaped]
           /\ Unescape(s) = [text |-> s.text, upper |-> s.upper, escaped |-> FALSE]
           /\ Lower(Unescape(s)) = [text |-> s.text, upper |-> FALSE, escaped |-> FALSE]
           /\ s = [text |-> s.text, upper |-> s.upper, escaped |-> s.escaped]
<1> DEFINE AllSegments == [text: Texts, upper: BOOLEAN, escaped: BOOLEAN]
<1>1. s \in AllSegments
  BY DEF Segments
<1>2. ASSUME NEW r \in AllSegments
      PROVE  /\ Lower(r) \in AllSegments /\ Lower(r).text = r.text
             /\ Lower(r).upper = FALSE /\ Lower(r).escaped = r.escaped
             /\ Unescape(r) \in AllSegments /\ Unescape(r).text = r.text
             /\ Unescape(r).upper = r.upper /\ Unescape(r).escaped = FALSE
  BY <1>2 DEF Lower, Unescape
<1>3. ASSUME NEW r \in AllSegments
      PROVE  r = [text |-> r.text, upper |-> r.upper, escaped |-> r.escaped]
  BY <1>3
<1> HIDE DEF AllSegments
<1>4. /\ Lower(s) = [text |-> s.text, upper |-> FALSE, escaped |-> s.escaped]
      /\ s = [text |-> s.text, upper |-> s.upper, escaped |-> s.escaped]
  <2> DEFINE low == Lower(s)
  <2>1. low \in AllSegments /\ low.text = s.text /\ low.upper = FALSE /\ low.escaped = s.escaped
    BY <1>1, <1>2
  <2> HIDE DEF low
  <2>2. low = [text |-> s.text, upper |-> FALSE, escaped |-> s.escaped]
    BY <1>3, <2>1
  <2>3. QED
    BY <1>1, <1>3, <2>2 DEF low
<1>5. /\ Unescape(s) \in AllSegments /\ Unescape(s).text = s.text
      /\ Unescape(s).upper = s.upper /\ Unescape(s).escaped = FALSE
  BY <1>1, <1>2
<1>6. Unescape(s) = [text |-> s.text, upper |-> s.upper, escaped |-> FALSE]
  BY <1>3, <1>5
<1>7. Lower(Unescape(s)) = [text |-> s.text, upper |-> FALSE, escaped |-> FALSE]
  <2> DEFINE low == Lower(Unescape(s))
  <2>1. low \in AllSegments /\ low.text = s.text /\ low.upper = FALSE /\ low.escaped = FALSE
    BY <1>2, <1>5
  <2> HIDE DEF low
  <2>2. low = [text |-> s.text, upper |-> FALSE, escaped |-> FALSE]
    BY <1>3, <2>1
  <2>3. QED
    BY <2>2 DEF low
<1>8. QED
  BY <1>4, <1>6, <1>7

\* A token's ref has the token's texts.
LEMMA RefOfToken ==
    ASSUME NEW t \in Tokens
    PROVE  LET ref == ResolveRef(t) IN
           /\ ref.owner = [text |-> t.owner.text, upper |-> FALSE, escaped |-> t.owner.escaped]
           /\ Len(ref.repo) = Len(t.repo) /\ DOMAIN ref.repo = DOMAIN t.repo
           /\ DOMAIN t.repo = 1..Len(t.repo) /\ Len(t.repo) \in Nat /\ Len(t.repo) # 0
           /\ \A k \in DOMAIN t.repo :
                ref.repo[k] = [text |-> t.repo[k].text, upper |-> FALSE, escaped |-> FALSE]
<1>1. t.owner \in Segments /\ t.repo \in Seq(Segments) /\ t.repo # <<>>
  BY DEF Tokens
<1>2. DOMAIN t.repo = 1..Len(t.repo) /\ Len(t.repo) \in Nat /\ Len(t.repo) # 0
  BY <1>1
<1> DEFINE low == [k \in DOMAIN t.repo |-> Lower(Unescape(t.repo[k]))]
<1>3. ResolveRef(t).owner = Lower(t.owner) /\ ResolveRef(t).repo = low
  BY DEF ResolveRef
<1>4. \A k \in DOMAIN t.repo : t.repo[k] \in Segments
  BY <1>1
<1>5. \A k \in DOMAIN t.repo :
        low[k] = [text |-> t.repo[k].text, upper |-> FALSE, escaped |-> FALSE]
  BY <1>4, Canonical
<1>6. DOMAIN low = DOMAIN t.repo /\ Len(low) = Len(t.repo)
  BY <1>2
<1> HIDE DEF low
<1>7. QED
  BY <1>1, <1>2, <1>3, <1>5, <1>6, Canonical

-----------------------------------------------------------------------------
(* One token.                                                              *)

\* The reference check reads texts only, so case and escapes do not matter.
LEMMA ChecksAgree ==
    ASSUME NEW t \in Tokens
    PROVE  /\ CheckReference(t.owner, Decoded(t.repo)) <=> CheckReference(t.owner, t.repo)
           /\ CheckReference(ResolveRef(t).owner, ResolveRef(t).repo)
                <=> CheckReference(t.owner, t.repo)
<1> DEFINE ref == ResolveRef(t)
<1>1. /\ ref.owner.text = t.owner.text
      /\ Len(ref.repo) = Len(t.repo) /\ DOMAIN ref.repo = DOMAIN t.repo
      /\ DOMAIN t.repo = 1..Len(t.repo) /\ Len(t.repo) \in Nat
      /\ \A k \in DOMAIN t.repo : ref.repo[k].text = t.repo[k].text
  <2>1. /\ ref.owner = [text |-> t.owner.text, upper |-> FALSE, escaped |-> t.owner.escaped]
        /\ Len(ref.repo) = Len(t.repo) /\ DOMAIN ref.repo = DOMAIN t.repo
        /\ DOMAIN t.repo = 1..Len(t.repo) /\ Len(t.repo) \in Nat
        /\ \A k \in DOMAIN t.repo :
             ref.repo[k] = [text |-> t.repo[k].text, upper |-> FALSE, escaped |-> FALSE]
    BY RefOfToken
  <2> HIDE DEF ref
  <2>2. ref.owner.text = t.owner.text
    BY <2>1
  <2>3. ASSUME NEW k \in DOMAIN t.repo PROVE ref.repo[k].text = t.repo[k].text
    <3>1. ref.repo[k] = [text |-> t.repo[k].text, upper |-> FALSE, escaped |-> FALSE]
      BY <2>1
    <3>2. QED
      BY <3>1
  <2>4. QED
    BY <2>1, <2>2, <2>3
<1> HIDE DEF ref
<1>2. NameSize(ref.repo) = NameSize(t.repo)
  BY <1>1, SameTexts
<1>3. /\ Len(Decoded(t.repo)) = Len(t.repo) /\ DOMAIN Decoded(t.repo) = DOMAIN t.repo
  BY <1>1 DEF Decoded
<1>4. ASSUME NEW k \in DOMAIN t.repo
      PROVE  Decoded(t.repo)[k].text = t.repo[k].text
  <2>1. t.repo[k] \in Segments
    BY DEF Tokens
  <2>2. QED
    BY <2>1, Canonical DEF Decoded
<1>5. NameSize(Decoded(t.repo)) = NameSize(t.repo)
  BY <1>3, <1>4, SameTexts
<1>6. QED
  BY <1>1, <1>2, <1>5 DEF CheckReference, ref

\* A name of one element is the asterisk for the ref exactly if it is one
\* element with that text for the token.
LEMMA StarStays ==
    ASSUME NEW t \in Tokens
    PROVE  /\ ResolveRef(t).repo = <<Star>> <=> Len(t.repo) = 1 /\ t.repo[1].text = "*"
           /\ t.repo = <<Star>> => ResolveRef(t).repo = <<Star>>
<1> DEFINE name == ResolveRef(t).repo
<1>1. /\ Len(name) = Len(t.repo) /\ DOMAIN name = DOMAIN t.repo
      /\ DOMAIN t.repo = 1..Len(t.repo) /\ Len(t.repo) \in Nat
      /\ \A k \in DOMAIN t.repo :
           name[k] = [text |-> t.repo[k].text, upper |-> FALSE, escaped |-> FALSE]
  BY RefOfToken
<1>2. name = [k \in DOMAIN t.repo |-> name[k]]
  BY DEF ResolveRef
<1> HIDE DEF name
<1>3. ASSUME Len(t.repo) = 1, t.repo[1].text = "*" PROVE name = <<Star>>
  <2>1. DOMAIN t.repo = 1..1 /\ 1 \in DOMAIN t.repo
    BY <1>1, <1>3
  <2>2. name[1] = Star
    BY <1>1, <1>3, <2>1 DEF Star
  <2>3. \A k \in 1..1 : k = 1
    OBVIOUS
  <2>4. name = [k \in 1..1 |-> Star]
    BY <1>2, <2>1, <2>2, <2>3
  <2>5. <<Star>> = [k \in 1..1 |-> Star]
    BY <2>3
  <2>6. QED
    BY <2>4, <2>5
<1>4. ASSUME name = <<Star>> PROVE Len(t.repo) = 1 /\ t.repo[1].text = "*"
  <2>1. Len(name) = 1 /\ name[1] = Star
    BY <1>4
  <2>2. 1 \in DOMAIN t.repo
    BY <1>1, <2>1
  <2>3. name[1] = [text |-> t.repo[1].text, upper |-> FALSE, escaped |-> FALSE]
    BY <1>1, <2>2
  <2>4. QED
    BY <1>1, <2>1, <2>3 DEF Star
<1>5. t.repo = <<Star>> => Len(t.repo) = 1 /\ t.repo[1].text = "*"
  BY DEF Star
<1>6. QED
  BY <1>3, <1>4, <1>5 DEF name

\* What an accepted token is made of.
LEMMA Accepted ==
    ASSUME NEW reg \in {DockerHub, GHCR}, NEW t \in Tokens, Resolves(reg, t)
    PROVE  /\ t.slash /\ ~t.owner.escaped /\ t.owner.text \in SafeTexts
           /\ CheckReference(t.owner, t.repo)
           /\ Len(t.repo) > 1 => reg = GHCR
           /\ \/ t.repo = <<Star>>
              \/ \A k \in DOMAIN t.repo : t.repo[k].text \in SafeTexts
<1>1. t.slash /\ ~t.owner.escaped /\ t.owner.text \in SafeTexts
  BY DEF Resolves, IsSafeURLSegment
<1>2. DOMAIN t.repo = 1..Len(t.repo) /\ Len(t.repo) \in Nat
  BY DEF Tokens
<1>3. \A k \in DOMAIN t.repo : t.repo[k] \in Segments
  BY DEF Tokens
<1>4. CASE t.repo = <<Star>>
  <2>1. Len(t.repo) = 1 /\ CheckReference(t.owner, t.repo)
    BY <1>4 DEF Resolves, RepoName
  <2>2. QED
    BY <1>1, <1>4, <2>1
<1>5. CASE t.repo # <<Star>> /\ reg # GHCR
  <2>1. Len(t.repo) = 1 /\ t.repo[1].text \in SafeTexts /\ CheckReference(t.owner, t.repo)
    BY <1>5 DEF Resolves, RepoName, IsSafeURLSegment
  <2>2. \A k \in DOMAIN t.repo : k = 1
    BY <1>2, <2>1
  <2>3. QED
    BY <1>1, <2>1, <2>2
<1>6. CASE t.repo # <<Star>> /\ reg = GHCR
  <2>1. PackageName(t)
    BY <1>6 DEF Resolves, RepoName
  <2>2. CheckReference(t.owner, t.repo)
    BY <2>1, ChecksAgree DEF PackageName
  <2>3. ASSUME NEW k \in DOMAIN t.repo PROVE t.repo[k].text \in SafeTexts
    <3>1. Unescape(t.repo[k]).text \in SafeTexts
      BY <2>1 DEF PackageName, IsSafeURLSegment
    <3>2. QED
      BY <1>3, <3>1, Canonical
  <2>4. QED
    BY <1>1, <1>6, <2>2, <2>3
<1>7. QED
  BY <1>4, <1>5, <1>6

\* The ref of an accepted token can be put into a request.
LEMMA AcceptedIsAddressable ==
    ASSUME NEW reg \in {DockerHub, GHCR}, NEW t \in Tokens, Resolves(reg, t)
    PROVE  Addressable(reg, ResolveRef(t))
<1> DEFINE ref == ResolveRef(t)
<1>1. /\ t.slash /\ ~t.owner.escaped /\ t.owner.text \in SafeTexts
      /\ CheckReference(t.owner, t.repo)
      /\ Len(t.repo) > 1 => reg = GHCR
      /\ \/ t.repo = <<Star>>
         \/ \A k \in DOMAIN t.repo : t.repo[k].text \in SafeTexts
  BY Accepted
<1>2. /\ ref.owner = [text |-> t.owner.text, upper |-> FALSE, escaped |-> t.owner.escaped]
      /\ Len(ref.repo) = Len(t.repo) /\ DOMAIN ref.repo = DOMAIN t.repo
      /\ \A k \in DOMAIN t.repo :
           ref.repo[k] = [text |-> t.repo[k].text, upper |-> FALSE, escaped |-> FALSE]
  BY RefOfToken
<1>3. CheckReference(ref.owner, ref.repo)
  BY <1>1, ChecksAgree
<1>4. t.repo = <<Star>> => ref.repo = <<Star>>
  BY StarStays
<1> HIDE DEF ref
<1>5. ~ref.owner.upper /\ ~ref.owner.escaped /\ ref.owner.text \in SafeTexts
  BY <1>1, <1>2
<1>6. \/ ref.repo = <<Star>>
      \/ \A k \in DOMAIN ref.repo :
           ~ref.repo[k].upper /\ ~ref.repo[k].escaped /\ ref.repo[k].text \in SafeTexts
  <2>1. CASE t.repo = <<Star>>
    BY <1>4, <2>1
  <2>2. CASE \A k \in DOMAIN t.repo : t.repo[k].text \in SafeTexts
    <3> SUFFICES ASSUME NEW k \in DOMAIN ref.repo
                 PROVE  ~ref.repo[k].upper /\ ~ref.repo[k].escaped /\ ref.repo[k].text \in SafeTexts
      OBVIOUS
    <3>1. k \in DOMAIN t.repo
      BY <1>2
    <3>2. ref.repo[k] = [text |-> t.repo[k].text, upper |-> FALSE, escaped |-> FALSE]
      BY <1>2, <3>1
    <3>3. t.repo[k].text \in SafeTexts
      BY <2>2, <3>1
    <3>4. QED
      BY <3>2, <3>3
  <2>3. QED
    BY <1>1, <2>1, <2>2
<1>7. Len(ref.repo) > 1 => reg = GHCR
  BY <1>1, <1>2
<1>8. Addressable(reg, ref)
  BY <1>3, <1>5, <1>6, <1>7 DEF Addressable
<1>9. QED
  BY <1>8 DEF ref

\* A well written token whose ref can be put into a request is accepted.
LEMMA AddressableIsAccepted ==
    ASSUME NEW reg \in {DockerHub, GHCR}, NEW t \in Tokens,
           t.slash, WellWritten(reg, t), Addressable(reg, ResolveRef(t))
    PROVE  Resolves(reg, t)
<1> DEFINE ref == ResolveRef(t)
<1>1. /\ ref.owner = [text |-> t.owner.text, upper |-> FALSE, escaped |-> t.owner.escaped]
      /\ Len(ref.repo) = Len(t.repo) /\ DOMAIN ref.repo = DOMAIN t.repo
      /\ DOMAIN t.repo = 1..Len(t.repo) /\ Len(t.repo) \in Nat /\ Len(t.repo) # 0
      /\ \A k \in DOMAIN t.repo :
           ref.repo[k] = [text |-> t.repo[k].text, upper |-> FALSE, escaped |-> FALSE]
  BY RefOfToken
<1>2. /\ CheckReference(t.owner, t.repo) /\ CheckReference(t.owner, Decoded(t.repo))
  BY ChecksAgree DEF Addressable
<1>3. ref.repo = <<Star>> <=> Len(t.repo) = 1 /\ t.repo[1].text = "*"
  BY StarStays
<1>4. /\ ref.owner.text \in SafeTexts /\ (Len(ref.repo) > 1 => reg = GHCR)
      /\ ref.repo # <<Star>> => \A k \in DOMAIN ref.repo : ref.repo[k].text \in SafeTexts
  BY DEF Addressable
<1> HIDE DEF ref
<1>5. t.owner.text \in SafeTexts /\ (Len(t.repo) > 1 => reg = GHCR)
  BY <1>1, <1>4
<1>6. ~t.owner.escaped /\ ~t.raw
      /\ \A k \in DOMAIN t.repo :
           t.repo[k].escaped => reg = GHCR /\ t.repo[k].text \notin Broken \union {"*"}
  BY DEF WellWritten
<1>7. t.owner \in Segments /\ t.repo \in Seq(Segments) \ {<<>>}
  BY DEF Tokens
<1>8. \A k \in DOMAIN t.repo : t.repo[k] \in Segments
  BY <1>7
<1>9. Size[t.owner.text] \in Nat /\ MaxSegmentBytes \in Nat
  <2>1. t.owner.text \in Texts
    BY <1>7 DEF Segments
  <2>2. QED
    BY <2>1, ConfigAssumption
<1>10. /\ NameSize(t.repo) \in Nat
       /\ \A k \in DOMAIN t.repo : Size[t.repo[k].text] <= NameSize(t.repo)
  BY <1>7, NameIsLong
<1>11. Size[t.owner.text] + 1 + NameSize(t.repo) <= MaxSegmentBytes
  BY <1>2 DEF CheckReference
<1>12. Size[t.owner.text] <= MaxSegmentBytes /\ NameSize(t.repo) <= MaxSegmentBytes
  BY <1>9, <1>10, <1>11, SMT
<1>13. ASSUME NEW k \in DOMAIN t.repo PROVE Size[t.repo[k].text] <= MaxSegmentBytes
  <2>1. t.repo[k].text \in Texts
    BY <1>8 DEF Segments
  <2>2. Size[t.repo[k].text] \in Nat /\ Size[t.repo[k].text] <= NameSize(t.repo)
    BY <1>10, <2>1, ConfigAssumption
  <2>3. QED
    BY <1>9, <1>10, <1>12, <2>2, SMT
<1>14. IsSafeURLSegment(t.owner)
  BY <1>5, <1>6, <1>12 DEF IsSafeURLSegment
<1>15. CASE ref.repo = <<Star>>
  <2>1. Len(t.repo) = 1 /\ t.repo[1].text = "*" /\ 1 \in DOMAIN t.repo
    BY <1>1, <1>3, <1>15
  <2>2. ~t.repo[1].escaped
    BY <1>6, <2>1
  <2>3. ~t.repo[1].upper
    BY <1>8, <2>1 DEF Segments
  <2>4. t.repo[1] = [text |-> "*", upper |-> FALSE, escaped |-> FALSE]
    <3>1. t.repo[1].upper \in BOOLEAN /\ t.repo[1].escaped \in BOOLEAN
      BY <1>8, <2>1 DEF Segments
    <3>2. t.repo[1].upper = FALSE /\ t.repo[1].escaped = FALSE
      BY <2>2, <2>3, <3>1
    <3>3. t.repo[1] = [text |-> t.repo[1].text, upper |-> t.repo[1].upper,
                       escaped |-> t.repo[1].escaped]
      BY <1>8, <2>1, Canonical
    <3>4. QED
      BY <2>1, <3>2, <3>3
  <2>5. t.repo = <<Star>>
    BY <1>7, <2>1, <2>4 DEF Star
  <2>6. QED
    BY <1>2, <1>14, <2>5 DEF Resolves, RepoName
<1>16. CASE ref.repo # <<Star>>
  <2>1. \A k \in DOMAIN t.repo : t.repo[k].text \in SafeTexts
    <3> SUFFICES ASSUME NEW k \in DOMAIN t.repo PROVE t.repo[k].text \in SafeTexts
      OBVIOUS
    <3>1. ref.repo[k].text \in SafeTexts
      BY <1>1, <1>4, <1>16
    <3>2. ref.repo[k] = [text |-> t.repo[k].text, upper |-> FALSE, escaped |-> FALSE]
      BY <1>1
    <3>3. QED
      BY <3>1, <3>2
  <2>2. t.repo # <<Star>>
    BY <1>16, StarStays DEF ref
  <2>3. CASE reg = GHCR
    <3>1. ASSUME NEW k \in DOMAIN t.repo
          PROVE  t.repo[k].text \notin Broken /\ IsSafeURLSegment(Unescape(t.repo[k]))
      <4>1. Unescape(t.repo[k]) = [text |-> t.repo[k].text, upper |-> t.repo[k].upper, escaped |-> FALSE]
        BY <1>8, Canonical
      <4>2. Unescape(t.repo[k]).text = t.repo[k].text /\ ~Unescape(t.repo[k]).escaped
        BY <4>1
      <4>3. t.repo[k].text \in SafeTexts /\ Size[t.repo[k].text] <= MaxSegmentBytes
        BY <1>13, <2>1
      <4>4. t.repo[k].text \notin Broken
        BY <4>3, ConfigAssumption
      <4>5. QED
        BY <4>2, <4>3, <4>4 DEF IsSafeURLSegment
    <3>2. PackageName(t)
      BY <1>2, <1>6, <3>1 DEF PackageName
    <3>3. QED
      BY <1>14, <2>2, <2>3, <3>2 DEF Resolves, RepoName
  <2>4. CASE reg # GHCR
    <3>1. Len(t.repo) = 1
      <4>1. Len(t.repo) \in Nat /\ Len(t.repo) # 0 /\ ~(Len(t.repo) > 1)
        BY <1>1, <1>5, <2>4
      <4>2. \A n \in Nat : n # 0 /\ ~(n > 1) => n = 1
        BY SMT
      <4>3. QED
        BY <4>1, <4>2
    <3>2. 1 \in DOMAIN t.repo
      BY <1>1, <3>1
    <3>3. IsSafeURLSegment(t.repo[1])
      BY <1>6, <1>13, <2>1, <2>4, <3>2 DEF IsSafeURLSegment
    <3>4. QED
      BY <1>2, <1>14, <2>2, <2>4, <3>1, <3>3 DEF Resolves, RepoName
  <2>5. QED
    BY <2>3, <2>4
<1>17. QED
  BY <1>15, <1>16

\* An accepted token means its own ref, and no other.
LEMMA MeansItsRef ==
    ASSUME NEW reg \in {DockerHub, GHCR}, NEW t \in Tokens, NEW u \in Tokens,
           Resolves(reg, t), Resolves(reg, u)
    PROVE  Means(t, ResolveRef(u)) <=> ResolveRef(t) = ResolveRef(u)
<1> DEFINE r == ResolveRef(t)
           q == ResolveRef(u)
<1>1. t.slash /\ ~t.owner.escaped /\ ~u.owner.escaped
  BY Accepted
<1>2. t.owner.escaped = FALSE /\ u.owner.escaped = FALSE
  <2>1. t.owner.escaped \in BOOLEAN /\ u.owner.escaped \in BOOLEAN
    BY DEF Tokens, Segments
  <2>2. QED
    BY <1>1, <2>1
<1>3. /\ r.owner = [text |-> t.owner.text, upper |-> FALSE, escaped |-> FALSE]
      /\ Len(r.repo) = Len(t.repo) /\ DOMAIN r.repo = DOMAIN t.repo
      /\ DOMAIN t.repo = 1..Len(t.repo)
      /\ \A k \in DOMAIN t.repo :
           r.repo[k] = [text |-> t.repo[k].text, upper |-> FALSE, escaped |-> FALSE]
  BY <1>2, RefOfToken
<1>4. /\ q.owner = [text |-> u.owner.text, upper |-> FALSE, escaped |-> FALSE]
      /\ Len(q.repo) = Len(u.repo) /\ DOMAIN q.repo = DOMAIN u.repo
      /\ DOMAIN u.repo = 1..Len(u.repo)
      /\ \A k \in DOMAIN u.repo :
           q.repo[k] = [text |-> u.repo[k].text, upper |-> FALSE, escaped |-> FALSE]
  BY <1>2, RefOfToken
<1>5. /\ r = [owner |-> r.owner, repo |-> r.repo] /\ q = [owner |-> q.owner, repo |-> q.repo]
      /\ r.repo = [k \in DOMAIN t.repo |-> r.repo[k]]
      /\ q.repo = [k \in DOMAIN u.repo |-> q.repo[k]]
  BY DEF ResolveRef
<1> HIDE DEF r, q
<1>6. /\ r.owner.text = t.owner.text
      /\ \A k \in DOMAIN t.repo : r.repo[k].text = t.repo[k].text
  <2>1. r.owner.text = t.owner.text
    BY <1>3
  <2>2. ASSUME NEW k \in DOMAIN t.repo PROVE r.repo[k].text = t.repo[k].text
    <3>1. r.repo[k] = [text |-> t.repo[k].text, upper |-> FALSE, escaped |-> FALSE]
      BY <1>3
    <3>2. QED
      BY <3>1
  <2>3. QED
    BY <2>1, <2>2
<1>7. /\ q.owner.text = u.owner.text
      /\ \A k \in DOMAIN u.repo : q.repo[k].text = u.repo[k].text
  <2>1. q.owner.text = u.owner.text
    BY <1>4
  <2>2. ASSUME NEW k \in DOMAIN u.repo PROVE q.repo[k].text = u.repo[k].text
    <3>1. q.repo[k] = [text |-> u.repo[k].text, upper |-> FALSE, escaped |-> FALSE]
      BY <1>4
    <3>2. QED
      BY <3>1
  <2>3. QED
    BY <2>1, <2>2
<1>8. ASSUME Means(t, q) PROVE r = q
  <2>1. /\ t.owner.text = u.owner.text /\ Len(t.repo) = Len(u.repo)
        /\ \A k \in DOMAIN u.repo : t.repo[k].text = u.repo[k].text
    BY <1>4, <1>7, <1>8 DEF Means
  <2>2. r.owner = q.owner /\ DOMAIN t.repo = DOMAIN u.repo
    BY <1>3, <1>4, <2>1
  <2>3. \A k \in DOMAIN t.repo : r.repo[k] = q.repo[k]
    BY <1>3, <1>4, <2>1, <2>2
  <2>4. r.repo = q.repo
    BY <1>5, <2>2, <2>3
  <2>5. QED
    BY <1>5, <2>2, <2>4
<1>9. ASSUME r = q PROVE Means(t, q)
  BY <1>1, <1>3, <1>6, <1>9 DEF Means
<1>10. QED
  BY <1>8, <1>9 DEF r, q

\* Only an asterisk is accepted as one.
LEMMA StarWasStar ==
    ASSUME NEW reg \in {DockerHub, GHCR}, NEW t \in Tokens, Resolves(reg, t),
           ResolveRef(t).repo = <<Star>>
    PROVE  t.repo = <<Star>>
<1>1. Len(t.repo) = 1 /\ t.repo[1].text = "*"
  BY StarStays
<1>2. 1 \in DOMAIN t.repo
  BY <1>1, RefOfToken
<1>3. "*" \notin SafeTexts
  BY ConfigAssumption
<1>4. \/ t.repo = <<Star>>
      \/ \A k \in DOMAIN t.repo : t.repo[k].text \in SafeTexts
  BY Accepted
<1>5. QED
  BY <1>1, <1>2, <1>3, <1>4

-----------------------------------------------------------------------------
(* What is parsed of a list.                                               *)

\* The parse of the registry's list is over.
Past(reg) == stage = "loaded" \/ (stage = GHCR /\ reg = DockerHub)

\* The positions of the list the parse has been through.
Done(reg) ==
    {k \in DOMAIN lists[reg] : Past(reg) \/ (stage = reg /\ k < at)}

\* The token at k is accepted, and as ref.
Gives(reg, k, ref) == Resolves(reg, lists[reg][k]) /\ ResolveRef(lists[reg][k]) = ref

\* What the list and the warnings say of the tokens so far: each one is blank,
\* warned about or in the list; each ref has its token; an earlier ref was
\* named first.
Parsed(reg) ==
    /\ skipped[reg] =
         {k \in Done(reg) : ~Blank(lists[reg][k]) /\ ~Resolves(reg, lists[reg][k])}
    /\ \A k \in Done(reg) :
         Resolves(reg, lists[reg][k]) => ResolveRef(lists[reg][k]) \in Elements(refs[reg])
    /\ \A i \in DOMAIN refs[reg] : \E k \in Done(reg) : Gives(reg, k, refs[reg][i])
    /\ \A i, j \in DOMAIN refs[reg] : i < j =>
         \E k \in Done(reg) : /\ Gives(reg, k, refs[reg][i])
                              /\ \A l \in 1..k : ~Gives(reg, l, refs[reg][j])

\* The inductive invariant: the lists are the environment's, and every list is
\* parsed that far.
ListsInv ==
    /\ SeenIsList /\ DOMAIN skipped = {DockerHub, GHCR}
    /\ at >= 1 /\ (stage = "interval" => at = 1)
    /\ lists \in [{DockerHub, GHCR} -> Seq(Tokens)]
    /\ \A reg \in {DockerHub, GHCR} : Parsed(reg)

LEMMA InitLists == Init => ListsInv
<1> SUFFICES ASSUME Init PROVE ListsInv
  OBVIOUS
<1>1. SeenIsList /\ at >= 1 /\ at = 1 /\ DOMAIN skipped = {DockerHub, GHCR}
  BY InitSeen DEF Init
<1>2. lists \in [{DockerHub, GHCR} -> Seq(Tokens)]
  BY ConfigAssumption DEF Init
<1>3. ASSUME NEW reg \in {DockerHub, GHCR} PROVE Parsed(reg)
  <2>1. Done(reg) = {}
    BY DEF Init, Done, Past, DockerHub, GHCR
  <2>2. refs[reg] = <<>> /\ skipped[reg] = {}
    BY DEF Init
  <2>3. DOMAIN refs[reg] = {}
    BY <2>2, SMT
  <2>4. QED
    BY <2>1, <2>2, <2>3 DEF Parsed
<1>4. QED
  BY <1>1, <1>2, <1>3 DEF ListsInv

\* A list that is not the running one, or whose parse just ended.
LEMMA OtherKept ==
    ASSUME NEW reg \in {DockerHub, GHCR}, Parsed(reg), Done(reg)' = Done(reg),
           lists' = lists, refs'[reg] = refs[reg], skipped'[reg] = skipped[reg]
    PROVE  Parsed(reg)'
  BY DEF Parsed, Gives, Elements

\* A token passed over leaves the list as it is.
LEMMA TokenPassed ==
    ASSUME NEW reg \in {DockerHub, GHCR}, NEW n, Parsed(reg),
           Done(reg)' = Done(reg) \union {n},
           lists' = lists, refs'[reg] = refs[reg],
           skipped'[reg] = skipped[reg] \union
             {k \in {n} : ~Blank(lists[reg][k]) /\ ~Resolves(reg, lists[reg][k])},
           Resolves(reg, lists[reg][n]) =>
             ResolveRef(lists[reg][n]) \in Elements(refs[reg])
    PROVE  Parsed(reg)'
<1>1. skipped'[reg] =
        {k \in Done(reg)' : ~Blank(lists'[reg][k]) /\ ~Resolves(reg, lists'[reg][k])}
  BY DEF Parsed
<1>2. \A k \in Done(reg)' :
        Resolves(reg, lists'[reg][k]) => ResolveRef(lists'[reg][k]) \in Elements(refs'[reg])
  BY DEF Parsed
<1>3. \A i \in DOMAIN refs'[reg] : \E k \in Done(reg)' : Gives(reg, k, refs[reg][i])
  BY DEF Parsed
<1>4. \A i, j \in DOMAIN refs'[reg] : i < j =>
        \E k \in Done(reg)' : /\ Gives(reg, k, refs[reg][i])
                              /\ \A l \in 1..k : ~Gives(reg, l, refs[reg][j])
  BY DEF Parsed
<1>5. QED
  BY <1>1, <1>2, <1>3, <1>4 DEF Parsed, Gives, Elements

\* The tokens done when the running list has moved on by one.
LEMMA DoneGrows ==
    ASSUME ListsInv, Parsing, at' = at + 1, stage' = stage, lists' = lists
    PROVE  /\ at \in DOMAIN lists[stage]
           /\ \A k \in Done(stage) : \A l \in 1..k : l \in Done(stage)
           /\ \A l \in 1..at : l \in Done(stage) \/ l = at
           /\ at \notin Done(stage)
           /\ \A reg \in {DockerHub, GHCR} : reg # stage => Done(reg)' = Done(reg)
           /\ \A reg \in {DockerHub, GHCR} : reg = stage => Done(reg)' = Done(reg) \union {at}
<1>1. stage \in {DockerHub, GHCR} /\ at <= Len(lists[stage]) /\ at \in Nat /\ at >= 1
  BY DEF Parsing, ListsInv, SeenIsList
<1>2. lists[stage] \in Seq(Tokens)
  BY <1>1 DEF ListsInv
<1>3. DOMAIN lists[stage] = 1..Len(lists[stage]) /\ Len(lists[stage]) \in Nat
  BY <1>2
<1>4. at \in DOMAIN lists[stage]
  BY <1>1, <1>3
<1>5. ~Past(stage)
  BY <1>1 DEF Past, DockerHub, GHCR
<1>6. Done(stage) = {k \in DOMAIN lists[stage] : k < at}
  BY <1>5 DEF Done
<1>7. \A k \in Done(stage) : \A l \in 1..k : l \in Done(stage)
  BY <1>1, <1>3, <1>6
<1>8. \A l \in 1..at : l \in Done(stage) \/ l = at
  BY <1>1, <1>3, <1>6
<1>9. at \notin Done(stage)
  BY <1>1, <1>6
<1>10. ASSUME NEW reg \in {DockerHub, GHCR}, reg # stage PROVE Done(reg)' = Done(reg)
  BY <1>10 DEF Done, Past
<1>11. ASSUME NEW reg \in {DockerHub, GHCR}, reg = stage
       PROVE  Done(reg)' = Done(reg) \union {at}
  <2>1. Done(reg)' = {k \in DOMAIN lists[reg] : k < at + 1}
    BY <1>5, <1>11 DEF Done, Past
  <2>2. \A k \in DOMAIN lists[reg] : k < at + 1 <=> k < at \/ k = at
    BY <1>1, <1>3, <1>11
  <2>3. QED
    BY <1>4, <1>6, <1>11, <2>1, <2>2
<1>12. QED
  BY <1>4, <1>7, <1>8, <1>9, <1>10, <1>11

\* Blank, refused and repeated tokens.
LEMMA PassedKeepsLists ==
    ListsInv /\ (SkipBlank \/ Refuse \/ SkipRepeated) =>
      \A reg \in {DockerHub, GHCR} : Parsed(reg)'
<1> SUFFICES ASSUME ListsInv, SkipBlank \/ Refuse \/ SkipRepeated,
                    NEW reg \in {DockerHub, GHCR}
             PROVE  Parsed(reg)'
  OBVIOUS
<1>1. Parsing /\ at' = at + 1 /\ stage' = stage /\ lists' = lists /\ refs' = refs
  BY DEF SkipBlank, Refuse, SkipRepeated
<1>2. Parsed(reg) /\ stage \in {DockerHub, GHCR}
  BY <1>1 DEF ListsInv, Parsing
<1>3. CASE reg # stage
  <2>1. Done(reg)' = Done(reg)
    BY <1>1, <1>3, DoneGrows
  <2>2. skipped'[reg] = skipped[reg]
    BY <1>2, <1>3 DEF SkipBlank, Refuse, SkipRepeated, ListsInv
  <2>3. QED
    BY <1>1, <1>2, <2>1, <2>2, OtherKept
<1>4. CASE reg = stage
  <2>1. Done(reg)' = Done(reg) \union {at}
    BY <1>1, <1>4, DoneGrows
  <2>2. Token = lists[reg][at]
    BY <1>4 DEF Token
  <2>3. Blank(Token) => ~Resolves(reg, Token)
    BY DEF Blank, Resolves
  <2>4. skipped'[reg] = skipped[reg] \union
          {k \in {at} : ~Blank(lists[reg][k]) /\ ~Resolves(reg, lists[reg][k])}
    <3>1. CASE SkipBlank \/ SkipRepeated
      BY <1>4, <2>2, <3>1 DEF SkipBlank, SkipRepeated
    <3>2. CASE Refuse
      BY <1>4, <2>2, <3>2 DEF Refuse, ListsInv
    <3>3. QED
      BY <3>1, <3>2
  <2>5. Resolves(reg, Token) => ResolveRef(Token) \in Elements(refs[reg])
    <3>1. seen = Elements(refs[reg])
      BY <1>2, <1>4 DEF ListsInv, SeenIsList
    <3>2. QED
      BY <1>4, <2>3, <3>1 DEF SkipBlank, Refuse, SkipRepeated, Repeated
  <2>6. refs'[reg] = refs[reg]
    BY <1>1
  <2>7. QED
    BY <1>1, <1>2, <2>1, <2>2, <2>4, <2>5, <2>6, TokenPassed
<1>5. QED
  BY <1>3, <1>4

\* An accepted token goes to the end of the list: no token before it gives its
\* ref, and every ref before it has a token before it.
LEMMA AcceptKeepsLists ==
    ListsInv /\ Accept => \A reg \in {DockerHub, GHCR} : Parsed(reg)'
<1> SUFFICES ASSUME ListsInv, Accept, NEW reg \in {DockerHub, GHCR} PROVE Parsed(reg)'
  OBVIOUS
<1>1. /\ Parsing /\ at' = at + 1 /\ stage' = stage /\ lists' = lists /\ skipped' = skipped
      /\ Resolves(stage, Token) /\ ResolveRef(Token) \notin seen
  BY DEF Accept, Repeated
<1>2. Parsed(reg) /\ stage \in {DockerHub, GHCR} /\ refs \in [{DockerHub, GHCR} -> Seq(Possible)]
  BY <1>1 DEF ListsInv, Parsing, SeenIsList
<1>3. refs' = [refs EXCEPT ![stage] = Append(refs[stage], ResolveRef(Token))]
  BY DEF Accept
<1>4. CASE reg # stage
  <2>1. Done(reg)' = Done(reg)
    BY <1>1, <1>4, DoneGrows
  <2>2. skipped'[reg] = skipped[reg] /\ refs'[reg] = refs[reg]
    BY <1>1, <1>2, <1>3, <1>4
  <2>3. QED
    BY <1>1, <1>2, <2>1, <2>2, OtherKept
<1>5. CASE reg = stage
  <2> DEFINE old == refs[reg]
             ref == ResolveRef(Token)
             new == Append(old, ref)
             n == Len(old)
  <2>1. old \in Seq(Possible) /\ seen = Elements(old) /\ refs'[reg] = new
    BY <1>2, <1>3, <1>5 DEF ListsInv, SeenIsList
  <2>2. /\ DOMAIN old = 1..n /\ n \in Nat /\ DOMAIN new = 1..n + 1
        /\ new[n + 1] = ref
        /\ \A i \in 1..n : new[i] = old[i]
    BY <2>1, SMT
  <2>3. /\ \A i \in 1..n + 1 : i \in 1..n \/ i = n + 1
        /\ n + 1 \in 1..n + 1 /\ \A i \in 1..n : i \in 1..n + 1
    BY <2>2, SMT
  <2>4. Resolves(reg, lists[reg][at]) /\ ResolveRef(lists[reg][at]) = ref
    BY <1>1, <1>5 DEF Token
  <2>5. ref \notin Elements(old)
    BY <1>1, <2>1
  <2> HIDE DEF ref, new, n, old
  <2>6. Elements(new) = Elements(old) \union {ref}
    BY <2>2, <2>3 DEF Elements
  <2>7. /\ Done(reg)' = Done(reg) \union {at}
        /\ \A k \in Done(reg) : \A l \in 1..k : l \in Done(reg)
        /\ \A l \in 1..at : l \in Done(reg) \/ l = at
        /\ at \notin Done(reg)
    BY <1>1, <1>5, DoneGrows
  <2>8. Gives(reg, at, ref)
    BY <2>4 DEF Gives
  <2>9. \A k \in Done(reg) : ~Gives(reg, k, ref)
    BY <1>2, <2>5 DEF Parsed, Gives, old
  <2>10. skipped'[reg] =
           {k \in Done(reg)' : ~Blank(lists'[reg][k]) /\ ~Resolves(reg, lists'[reg][k])}
    <3>1. skipped[reg] =
            {k \in Done(reg) : ~Blank(lists[reg][k]) /\ ~Resolves(reg, lists[reg][k])}
      BY <1>2 DEF Parsed
    <3>2. QED
      BY <1>1, <2>4, <2>7, <3>1
  <2>11. \A k \in Done(reg)' :
           Resolves(reg, lists'[reg][k]) => ResolveRef(lists'[reg][k]) \in Elements(refs'[reg])
    <3>1. \A k \in Done(reg) :
            Resolves(reg, lists[reg][k]) => ResolveRef(lists[reg][k]) \in Elements(old)
      BY <1>2 DEF Parsed, old
    <3>2. QED
      BY <1>1, <2>1, <2>4, <2>6, <2>7, <3>1
  <2>12. \A i \in 1..n : \E k \in Done(reg) : Gives(reg, k, old[i])
    BY <1>2, <2>2 DEF Parsed, old
  <2>13. \A i \in 1..n + 1 : \E k \in Done(reg)' : Gives(reg, k, new[i])
    BY <2>2, <2>3, <2>7, <2>8, <2>12
  <2>14. ASSUME NEW i \in 1..n + 1, NEW j \in 1..n + 1, i < j
         PROVE  \E k \in Done(reg)' : /\ Gives(reg, k, new[i])
                                      /\ \A l \in 1..k : ~Gives(reg, l, new[j])
    <3>1. i \in 1..n
      BY <2>2, <2>14
    <3>2. CASE j \in 1..n
      <4>1. PICK k \in Done(reg) : Gives(reg, k, old[i]) /\ \A l \in 1..k : ~Gives(reg, l, old[j])
        BY <1>2, <2>2, <2>14, <3>1, <3>2 DEF Parsed, old
      <4>2. QED
        BY <2>2, <2>7, <3>1, <3>2, <4>1
    <3>3. CASE j = n + 1
      <4>1. PICK k \in Done(reg) : Gives(reg, k, old[i])
        BY <2>12, <3>1
      <4>2. \A l \in 1..k : ~Gives(reg, l, ref)
        BY <2>7, <2>9, <4>1
      <4>3. QED
        BY <2>2, <2>7, <3>1, <3>3, <4>1, <4>2
    <3>4. QED
      BY <2>3, <3>2, <3>3
  <2>15. DOMAIN refs'[reg] = 1..n + 1
    BY <2>1, <2>2
  <2>16. QED
    BY <1>1, <2>1, <2>10, <2>11, <2>13, <2>14, <2>15 DEF Parsed, Gives
<1>6. QED
  BY <1>4, <1>5

\* The end of a list: what was done of it is all of it.
LEMMA EndKeepsLists ==
    ListsInv /\ (LoadInterval \/ EndList \/ UNCHANGED vars) =>
      \A reg \in {DockerHub, GHCR} : Parsed(reg)'
<1> SUFFICES ASSUME ListsInv, LoadInterval \/ EndList \/ UNCHANGED vars,
                    NEW reg \in {DockerHub, GHCR}
             PROVE  Parsed(reg)'
  OBVIOUS
<1>1. lists' = lists /\ refs' = refs /\ skipped' = skipped /\ Parsed(reg)
  BY DEF LoadInterval, EndList, vars, ListsInv
<1>2. at \in Nat /\ at >= 1 /\ lists[reg] \in Seq(Tokens)
  BY DEF ListsInv, SeenIsList
<1>3. DOMAIN lists[reg] = 1..Len(lists[reg]) /\ Len(lists[reg]) \in Nat
  BY <1>2
<1>4. \A k \in DOMAIN lists[reg] : ~(k < 1)
  BY <1>3
<1>5. Done(reg)' = Done(reg)
  <2>1. CASE UNCHANGED vars
    BY <2>1 DEF Done, Past, vars
  <2>2. CASE LoadInterval
    <3>1. /\ stage = "interval" /\ stage' = DockerHub /\ at' = at /\ lists' = lists
      BY <2>2 DEF LoadInterval
    <3>2. Done(reg) = {} /\ at = 1
      BY <3>1 DEF ListsInv, Done, Past, DockerHub, GHCR
    <3>3. QED
      BY <1>4, <3>1, <3>2 DEF Done, Past, DockerHub, GHCR
  <2>3. CASE EndList /\ stage = DockerHub
    <3>1. /\ stage' = GHCR /\ at' = 1 /\ at > Len(lists[DockerHub])
      BY <2>3 DEF EndList
    <3>2. CASE reg = DockerHub
      <4>1. \A k \in DOMAIN lists[reg] : k < at
        BY <1>2, <1>3, <3>1, <3>2
      <4>2. QED
        BY <1>1, <2>3, <3>1, <3>2, <4>1 DEF Done, Past, DockerHub, GHCR
    <3>3. CASE reg = GHCR
      BY <1>1, <1>4, <2>3, <3>1, <3>3 DEF Done, Past, DockerHub, GHCR
    <3>4. QED
      BY <3>2, <3>3
  <2>4. CASE EndList /\ stage = GHCR
    <3>1. /\ stage' = "loaded" /\ at' = 1 /\ at > Len(lists[GHCR])
      BY <2>4 DEF EndList, DockerHub, GHCR
    <3>2. \A k \in DOMAIN lists[reg] : reg = GHCR => k < at
      BY <1>2, <1>3, <3>1
    <3>3. QED
      BY <1>1, <2>4, <3>1, <3>2 DEF Done, Past, DockerHub, GHCR
  <2>5. QED
    BY <2>1, <2>2, <2>3, <2>4 DEF EndList
<1>6. QED
  BY <1>1, <1>5, OtherKept

LEMMA InvariantLists == Spec => []ListsInv
<1>1. ListsInv /\ [Next]_vars => ListsInv'
  <2> SUFFICES ASSUME ListsInv, [Next]_vars PROVE ListsInv'
    OBVIOUS
  <2>1. SeenIsList'
    BY AcceptKeeps, OthersKeepSeen DEF ListsInv, Next
  <2>2. lists' \in [{DockerHub, GHCR} -> Seq(Tokens)]
    BY DEF ListsInv, Next, LoadInterval, SkipBlank, Refuse, SkipRepeated, Accept, EndList, vars
  <2>3. DOMAIN skipped' = {DockerHub, GHCR}
    BY DEF ListsInv, Next, LoadInterval, SkipBlank, Refuse, SkipRepeated, Accept, EndList, vars
  <2>4. at' >= 1
    <3>1. at \in Nat /\ at >= 1 /\ (at' = at \/ at' = at + 1 \/ at' = 1)
      BY DEF ListsInv, SeenIsList, Next, LoadInterval, SkipBlank, Refuse, SkipRepeated,
             Accept, EndList, vars
    <3>2. QED
      BY <3>1, SMT
  <2>5. stage' = "interval" => at' = 1
    <3>1. stage' = "interval" => UNCHANGED vars
      BY DEF Next, LoadInterval, SkipBlank, Refuse, SkipRepeated, Accept, EndList,
             Parsing, DockerHub, GHCR
    <3>2. QED
      BY <3>1 DEF ListsInv, vars
  <2>6. \A reg \in {DockerHub, GHCR} : Parsed(reg)'
    BY PassedKeepsLists, AcceptKeepsLists, EndKeepsLists DEF Next
  <2>7. QED
    BY <2>1, <2>2, <2>3, <2>4, <2>5, <2>6 DEF ListsInv
<1>2. QED
  BY <1>1, InitLists, PTL DEF Spec

\* What the invariant says of a list that is parsed to its end.
LEMMA ParsedIsCanonical ==
    ASSUME ListsInv, NEW reg \in {DockerHub, GHCR}, Past(reg)
    PROVE  LET list == lists[reg]
               Mentions(k, ref) == k \notin skipped[reg] /\ Means(list[k], ref)
           IN
           /\ \A i \in DOMAIN refs[reg] : Addressable(reg, refs[reg][i])
           /\ Distinct(refs[reg])
           /\ \A k \in DOMAIN list :
                \/ Blank(list[k]) \/ k \in skipped[reg]
                \/ \E i \in DOMAIN refs[reg] : Mentions(k, refs[reg][i])
           /\ \A k \in skipped[reg] :
                WellWritten(reg, list[k]) =>
                  ~Addressable(reg, ResolveRef(list[k])) \/ ~list[k].slash
           /\ \A i, j \in DOMAIN refs[reg] : i < j =>
                \E k \in DOMAIN list : /\ Mentions(k, refs[reg][i])
                                       /\ \A l \in 1..k : ~Mentions(l, refs[reg][j])
           /\ \A i \in DOMAIN refs[reg] :
                \E k \in DOMAIN list : /\ Mentions(k, refs[reg][i])
                                       /\ refs[reg][i].repo = <<Star>> => list[k].repo = <<Star>>
<1> DEFINE list == lists[reg]
           Mentions(k, ref) == k \notin skipped[reg] /\ Means(list[k], ref)
<1>1. Parsed(reg) /\ list \in Seq(Tokens) /\ Distinct(refs[reg])
  BY DEF ListsInv, SeenIsList
<1>2. Done(reg) = DOMAIN list
  BY DEF Done
<1>3. DOMAIN list = 1..Len(list) /\ Len(list) \in Nat /\ \A k \in DOMAIN list : list[k] \in Tokens
  BY <1>1
<1>4. skipped[reg] = {k \in DOMAIN list : ~Blank(list[k]) /\ ~Resolves(reg, list[k])}
  BY <1>1, <1>2 DEF Parsed
<1>5. \A k \in DOMAIN list :
        Resolves(reg, list[k]) => \E i \in DOMAIN refs[reg] : refs[reg][i] = ResolveRef(list[k])
  BY <1>1, <1>2 DEF Parsed, Elements
<1>6. \A i \in DOMAIN refs[reg] : \E k \in DOMAIN list : Gives(reg, k, refs[reg][i])
  BY <1>1, <1>2 DEF Parsed
<1>7. \A i, j \in DOMAIN refs[reg] : i < j =>
        \E k \in DOMAIN list : /\ Gives(reg, k, refs[reg][i])
                               /\ \A l \in 1..k : ~Gives(reg, l, refs[reg][j])
  BY <1>1, <1>2 DEF Parsed
<1>8. \A k \in DOMAIN list : \A l \in 1..k : l \in DOMAIN list
  BY <1>3
<1> HIDE DEF list
\* a token mentions a ref of the list exactly when it gives it
<1>9. ASSUME NEW k \in DOMAIN list, NEW i \in DOMAIN refs[reg]
      PROVE  Mentions(k, refs[reg][i]) <=> Gives(reg, k, refs[reg][i])
  <2>1. PICK m \in DOMAIN list : Resolves(reg, list[m]) /\ refs[reg][i] = ResolveRef(list[m])
    BY <1>6 DEF Gives, list
  <2>2. list[k] \in Tokens /\ list[m] \in Tokens
    BY <1>3
  <2>3. CASE Resolves(reg, list[k])
    <3>1. k \notin skipped[reg]
      BY <1>4, <2>3
    <3>2. Means(list[k], refs[reg][i]) <=> ResolveRef(list[k]) = refs[reg][i]
      BY <2>1, <2>2, <2>3, MeansItsRef
    <3>3. QED
      BY <2>3, <3>1, <3>2 DEF Gives, list
  <2>4. CASE ~Resolves(reg, list[k])
    <3>1. ~Gives(reg, k, refs[reg][i])
      BY <2>4 DEF Gives, list
    <3>2. Means(list[k], refs[reg][i]) => ~Blank(list[k])
      BY DEF Means, Blank
    <3>3. ~Blank(list[k]) => k \in skipped[reg]
      BY <1>4, <2>4
    <3>4. QED
      BY <3>1, <3>2, <3>3
  <2>5. QED
    BY <2>3, <2>4
<1>10. \A i \in DOMAIN refs[reg] : Addressable(reg, refs[reg][i])
  <2> SUFFICES ASSUME NEW i \in DOMAIN refs[reg] PROVE Addressable(reg, refs[reg][i])
    OBVIOUS
  <2>1. PICK m \in DOMAIN list : Resolves(reg, list[m]) /\ refs[reg][i] = ResolveRef(list[m])
    BY <1>6 DEF Gives, list
  <2>2. QED
    BY <1>3, <2>1, AcceptedIsAddressable
<1>11. \A k \in DOMAIN list :
         \/ Blank(list[k]) \/ k \in skipped[reg]
         \/ \E i \in DOMAIN refs[reg] : Mentions(k, refs[reg][i])
  <2> SUFFICES ASSUME NEW k \in DOMAIN list, ~Blank(list[k]), k \notin skipped[reg]
               PROVE  \E i \in DOMAIN refs[reg] : Mentions(k, refs[reg][i])
    OBVIOUS
  <2>1. Resolves(reg, list[k])
    BY <1>4
  <2>2. PICK i \in DOMAIN refs[reg] : refs[reg][i] = ResolveRef(list[k])
    BY <1>5, <2>1
  <2>3. Gives(reg, k, refs[reg][i])
    BY <2>1, <2>2 DEF Gives, list
  <2> HIDE DEF Mentions
  <2>4. QED
    BY <1>9, <2>3
<1>12. \A k \in skipped[reg] :
         WellWritten(reg, list[k]) =>
           ~Addressable(reg, ResolveRef(list[k])) \/ ~list[k].slash
  BY <1>3, <1>4, AddressableIsAccepted
<1>13. ASSUME NEW i \in DOMAIN refs[reg], NEW j \in DOMAIN refs[reg], i < j
       PROVE  \E k \in DOMAIN list : /\ Mentions(k, refs[reg][i])
                                     /\ \A l \in 1..k : ~Mentions(l, refs[reg][j])
  <2>1. PICK k \in DOMAIN list : /\ Gives(reg, k, refs[reg][i])
                                 /\ \A l \in 1..k : ~Gives(reg, l, refs[reg][j])
    BY <1>7, <1>13
  <2> HIDE DEF Mentions
  <2>2. Mentions(k, refs[reg][i])
    BY <1>9, <2>1
  <2>3. \A l \in 1..k : ~Mentions(l, refs[reg][j])
    BY <1>8, <1>9, <2>1
  <2>4. QED
    BY <2>2, <2>3
<1>14. ASSUME NEW i \in DOMAIN refs[reg]
       PROVE  \E k \in DOMAIN list : /\ Mentions(k, refs[reg][i])
                                     /\ refs[reg][i].repo = <<Star>> => list[k].repo = <<Star>>
  <2>1. PICK k \in DOMAIN list : Gives(reg, k, refs[reg][i])
    BY <1>6
  <2>2. Resolves(reg, list[k]) /\ refs[reg][i] = ResolveRef(list[k])
    BY <2>1 DEF Gives, list
  <2>3. refs[reg][i].repo = <<Star>> => list[k].repo = <<Star>>
    BY <1>3, <2>2, StarWasStar
  <2> HIDE DEF Mentions
  <2>4. QED
    BY <1>9, <2>1, <2>3
<1>15. QED
  BY <1>1, <1>10, <1>11, <1>12, <1>13, <1>14 DEF list

\* Load gives each registry the refs its list means and no others, each in a
\* form a request can carry, once, and in the order of first mention; and it
\* warns about every token it drops, for lists and budgets of every size.
THEOREM RefsAreCanonicalAlways == Spec => []RefsAreCanonical
<1>1. ListsInv => RefsAreCanonical
  BY ParsedIsCanonical DEF RefsAreCanonical, Past
<1>2. QED
  BY <1>1, InvariantLists, PTL
=============================================================================
