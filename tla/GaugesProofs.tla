---------------------------- MODULE GaugesProofs ----------------------------
(***************************************************************************)
(* Proofs about Gauges for any keys, counts and sources, and any sequence  *)
(* of cycles: Gauges implements SeriesBoard.                               *)
(***************************************************************************)
EXTENDS Gauges, TLAPS

\* The call that owns f has returned, in this cycle or the last.
Done(f) == step = 0 \/ step > (IF f = "present" THEN 2 ELSE 1)

\* The running call has yet to decide the series of f for k.
Pending(f, k) == k \in left \/ (f # "pulls" /\ k = hand)

\* The keys of f with a series in cycle c.
Shown(c, f) == {k \in Keys : Wanted(c)[<<f, k>>] # Gone}

\* No series shows anything but its old or its new value.
OldOrNew == \A s \in Series : board[s] = Wanted(old)[s] \/ board[s] = Wanted(new)[s]

\* What a finished call set stays.
DoneIsShown == \A f \in Families : Done(f) => \A k \in Keys : board[<<f, k>>] = Wanted(new)[<<f, k>>]

\* The prev map of a family holds exactly the keys of its last full showing.
PrevIsShown == \A f \in Families : prev[f] = Shown(IF Done(f) THEN new ELSE old, f)

\* The running call's map holds exactly the keys it has set.
CurrentIsSet ==
    \A f \in Families :
        /\ f \notin Owned => current[f] = {}
        /\ f \in Owned =>
            /\ current[f] = {k \in Shown(new, f) : ~Pending(f, k)}
            /\ \A k \in current[f] : board[<<f, k>>] = Wanted(new)[<<f, k>>]

\* The loop variables of the running call.
Loop ==
    /\ step = 0 => left = {}
    /\ step > 0 => left \subseteq Work(step, new)
    /\ hand # NoImage => step = 1 /\ hand \notin left /\ hand \in Work(1, new)
    /\ retiring => step \in {1, 2} /\ left = {} /\ hand = NoImage

\* SetSources has come to the source.
Judged(s) == step = 0 \/ (step = 3 /\ s \notin left)

\* The verdicts move last: a source's once SetSources has come to it.
VerdictsShown ==
    \A s \in Sources :
        /\ Judged(s) => board[Verdict(s)] = new.complete[s]
        /\ ~Judged(s) => board[Verdict(s)] = old.complete[s]

IInv == /\ TypeOK /\ OldOrNew /\ DoneIsShown /\ PrevIsShown /\ CurrentIsSet /\ Loop
        /\ VerdictsShown

-----------------------------------------------------------------------------
(* What a cycle asks for.                                                  *)

\* The two kinds of series are told apart by their family.
LEMMA SeriesKinds ==
  /\ \A f \in Families, k \in Keys : <<f, k>> \in ImageSeries /\ <<f, k>> \in Series
  /\ \A s \in Sources : Verdict(s) \in VerdictSeries /\ Verdict(s) \in Series
  /\ \A x \in ImageSeries : \E f \in Families, k \in Keys : x = <<f, k>>
  /\ \A x \in VerdictSeries : \E s \in Sources : x = Verdict(s)
  /\ \A f \in Families, k \in Keys, s \in Sources : <<f, k>> # Verdict(s)
  /\ \A s, t : Verdict(s) = Verdict(t) => s = t
BY DEF ImageSeries, VerdictSeries, Verdict, Series, Families

LEMMA WantedVerdict ==
  ASSUME NEW c, NEW s \in Sources
  PROVE  Wanted(c)[Verdict(s)] = c.complete[s]
BY SeriesKinds DEF Wanted, Verdict

LEMMA WantedType ==
  ASSUME NEW c \in Cycles
  PROVE  Wanted(c) \in [Series -> Counts \union {0, 1, Gone}]
<1>1. ASSUME NEW f \in Families, NEW k \in Keys
      PROVE  Wanted(c)[<<f, k>>] \in Counts \union {0, 1, Gone}
  <2>1. <<f, k>> \in Series /\ <<f, k>>[1] = f /\ <<f, k>>[2] = k
    BY SeriesKinds
  <2>2. c.image[k] # NoImage => c.image[k].pulls \in Counts
    BY DEF Cycles, ImageMetric
  <2>3. c.presence[k] \in {0, 1, Gone}
    BY DEF Cycles
  <2>4. QED
    BY <2>1, <2>2, <2>3 DEF Wanted, Families
<1>2. \A s \in ImageSeries : \E f \in Families : \E k \in Keys : s = <<f, k>>
  BY DEF ImageSeries
<1>3. \A s \in Series : Wanted(c)[s] \in Counts \union {0, 1, Gone}
  <2>1. \A s \in VerdictSeries : Wanted(c)[s] \in {0, 1, Gone}
    BY WantedVerdict DEF Cycles, VerdictSeries
  <2>2. QED
    BY <1>1, <1>2, <2>1 DEF Series
<1>4. Wanted(c) = [s \in Series |-> Wanted(c)[s]]
  BY DEF Wanted
<1>5. QED
  BY <1>3, <1>4

\* The loops visit exactly the keys with a series, and SetDetail sets exactly
\* the time series an image has.
LEMMA WorkIsWanted ==
  ASSUME NEW c \in Cycles, NEW k \in Keys
  PROVE  /\ k \in Work(1, c) <=> Wanted(c)[<<"pulls", k>>] # Gone
         /\ k \in Work(2, c) <=> Wanted(c)[<<"present", k>>] # Gone
         /\ \A f \in {"pushed", "updated"} :
              IF k \in Work(1, c) /\ HasDetail(c, k) /\ f = DetailFamily(k)
                 THEN Wanted(c)[<<f, k>>] = 1
                 ELSE Wanted(c)[<<f, k>>] = Gone
<1> DEFINE i == c.image[k]
<1>1. \A f \in Families : <<f, k>> \in Series /\ <<f, k>>[1] = f /\ <<f, k>>[2] = k
  BY SeriesKinds
<1>2. /\ Wanted(c)[<<"present", k>>] = c.presence[k]
      /\ i = NoImage => \A f \in {"pulls", "pushed", "updated"} : Wanted(c)[<<f, k>>] = Gone
      /\ i # NoImage =>
           /\ Wanted(c)[<<"pulls", k>>] = i.pulls
           /\ Wanted(c)[<<"pushed", k>>] = IF i.detailed /\ i.lastPushed THEN 1 ELSE Gone
           /\ Wanted(c)[<<"updated", k>>] = IF i.detailed /\ i.updated THEN 1 ELSE Gone
  BY <1>1 DEF Wanted, Families
<1>3. i # NoImage =>
        /\ i.pulls # Gone
        /\ i.detailed \in BOOLEAN /\ i.lastPushed \in BOOLEAN /\ i.updated \in BOOLEAN
        /\ IF k \in HubKeys THEN ~i.lastPushed ELSE ~i.updated
  BY GaugesAssumption DEF Cycles, ImageMetric
<1>4. /\ k \in Work(1, c) <=> i # NoImage
      /\ k \in Work(2, c) <=> c.presence[k] # Gone
  BY DEF Work, PublishOrder
<1>5. 1 # Gone
  BY GaugesAssumption
<1>6. QED
  BY <1>2, <1>3, <1>4, <1>5 DEF HasDetail, DetailFamily

LEMMA WorkType ==
  ASSUME NEW c
  PROVE  Work(1, c) \subseteq Keys /\ Work(2, c) \subseteq Keys /\ Work(3, c) = Sources
  BY DEF Work, PublishOrder

\* Which call runs, and what it owns.
LEMMA RunningCall ==
  ASSUME step \in 0..3
  PROVE  /\ Running("images") <=> step = 1
         /\ Running("presence") <=> step = 2
         /\ Running("sources") <=> step = 3
         /\ Owned = IF step = 1 THEN {"pulls", "pushed", "updated"}
                    ELSE IF step = 2 THEN {"present"} ELSE {}
  BY DEF Running, PublishOrder, Owned

-----------------------------------------------------------------------------
(* The invariant.                                                          *)

LEMMA InitIInv == Init => IInv
<1> SUFFICES ASSUME Init PROVE IInv
  OBVIOUS
<1>1. NoCycle \in Cycles
  BY GaugesAssumption DEF NoCycle, Cycles
<1>2. \A k \in Keys : k \notin Work(1, NoCycle) /\ k \notin Work(2, NoCycle)
  BY DEF NoCycle, Work, PublishOrder
<1>3. \A f \in Families : Shown(NoCycle, f) = {}
  BY <1>1, <1>2, WorkIsWanted DEF Shown, Families
<1>4. TypeOK
  <2>1. board \in [Series -> Counts \union {0, 1, Gone}]
    BY <1>1, WantedType DEF Init
  <2>2. NoKeys \in [Families -> SUBSET Keys]
    BY DEF NoKeys
  <2>3. prev = NoKeys /\ current = NoKeys
    BY DEF Init
  <2>4. prev \in [Families -> SUBSET Keys] /\ current \in [Families -> SUBSET Keys]
    BY <2>2, <2>3
  <2>5. /\ old \in Cycles /\ new \in Cycles
        /\ step \in 0..3 /\ hand \in Keys \union {NoImage}
    BY <1>1 DEF Init
  <2>6. retiring \in BOOLEAN /\ left \subseteq Keys \union Sources
    BY DEF Init
  <2>7. QED
    BY <2>1, <2>4, <2>5, <2>6 DEF TypeOK
<1>5. OldOrNew /\ DoneIsShown
  BY DEF Init, OldOrNew, DoneIsShown
<1>6. PrevIsShown
  BY <1>3 DEF Init, PrevIsShown, NoKeys
<1>7. CurrentIsSet /\ Loop
  BY <1>4, RunningCall DEF Init, CurrentIsSet, Loop, NoKeys, TypeOK
<1>8. VerdictsShown
  BY WantedVerdict DEF Init, VerdictsShown, Judged
<1>9. QED
  BY <1>4, <1>5, <1>6, <1>7, <1>8 DEF IInv

\* Between publications every series is at its newest value.
LEMMA RestIsShown ==
  ASSUME IInv, step = 0
  PROVE  board = Wanted(new)
<1>1. \A x \in ImageSeries : board[x] = Wanted(new)[x]
  BY SeriesKinds DEF IInv, DoneIsShown, Done
<1>2. \A x \in VerdictSeries : board[x] = Wanted(new)[x]
  BY SeriesKinds, WantedVerdict DEF IInv, VerdictsShown, Judged
<1>3. \A x \in Series : board[x] = Wanted(new)[x]
  BY <1>1, <1>2 DEF Series
<1>4. QED
  BY <1>3, WantedType DEF IInv, TypeOK

\* A new cycle: everything shown becomes the old showing, and nothing is set.
LEMMA BeginPreserves == IInv /\ Begin => IInv'
<1> SUFFICES ASSUME IInv, Begin PROVE IInv'
  OBVIOUS
<1> USE DEF IInv, Begin
<1>1. step = 0 /\ step' = 1 /\ \A f \in Families : Done(f) /\ ~Done(f)'
  BY DEF Done
<1>2. TypeOK'
  BY WorkType DEF TypeOK
<1>3. OldOrNew'
  BY <1>1, RestIsShown DEF OldOrNew
<1>4. DoneIsShown'
  BY <1>1 DEF DoneIsShown
<1>5. PrevIsShown'
  BY <1>1 DEF PrevIsShown, Shown
<1>6. \A f \in Families : current[f] = {}
  BY <1>1, RunningCall DEF CurrentIsSet, TypeOK
<1>7. \A f \in {"pulls", "pushed", "updated"} : \A k \in Shown(new, f)' : k \in left'
  BY WorkIsWanted DEF Shown, TypeOK
<1>8. Owned' = {"pulls", "pushed", "updated"}
  BY <1>1 DEF Owned, Running, PublishOrder
<1>9. CurrentIsSet'
  BY <1>6, <1>7, <1>8 DEF CurrentIsSet, Pending
<1>10. Loop'
  BY <1>1 DEF Loop, TypeOK
<1>11. VerdictsShown'
  BY <1>1 DEF VerdictsShown, Judged
<1>12. QED
  BY <1>2, <1>3, <1>4, <1>5, <1>9, <1>10, <1>11

\* One series of the running call set in place.
LEMMA ShowPreserves ==
  ASSUME IInv, NEW f \in Owned, NEW k \in Keys,
         step' = step, old' = old, new' = new, prev' = prev, Show(f, k)
  PROVE  OldOrNew' /\ DoneIsShown' /\ PrevIsShown' /\ VerdictsShown'
<1>1. f \in Families /\ ~Done(f) /\ step \in {1, 2}
  BY RunningCall DEF Done, IInv, TypeOK, Families
<1>2. <<f, k>> \in Series /\ board \in [Series -> Counts \union {0, 1, Gone}]
  BY <1>1, SeriesKinds DEF IInv, TypeOK
<1>3. OldOrNew'
  BY <1>2 DEF Show, OldOrNew, IInv
<1>4. DoneIsShown'
  BY <1>1, <1>2, SeriesKinds DEF Show, DoneIsShown, Done, IInv
<1>5. PrevIsShown'
  BY DEF PrevIsShown, Done, Shown, IInv
<1>6. VerdictsShown'
  <2>1. \A s \in Sources : board'[Verdict(s)] = board[Verdict(s)]
    BY <1>1, <1>2, SeriesKinds DEF Show
  <2>2. QED
    BY <1>1, <2>1 DEF VerdictsShown, Judged, IInv
<1>7. QED
  BY <1>3, <1>4, <1>5, <1>6

LEMMA SetPullsPreserves == IInv /\ SetPulls => IInv'
<1> SUFFICES ASSUME IInv, SetPulls PROVE IInv'
  OBVIOUS
<1>1. PICK k \in left : Show("pulls", k) /\ hand' = k /\ left' = left \ {k}
  BY DEF SetPulls
<1>2. /\ step = 1 /\ k \in Work(1, new) /\ k \in Keys
      /\ Owned = {"pulls", "pushed", "updated"}
      /\ UNCHANGED <<step, retiring, old, new, prev>> /\ hand = NoImage /\ ~retiring
  BY RunningCall, WorkType DEF SetPulls, IInv, TypeOK, Loop
<1>3. OldOrNew' /\ DoneIsShown' /\ PrevIsShown' /\ VerdictsShown'
  BY <1>1, <1>2, ShowPreserves
<1>4. new \in Cycles /\ Wanted(new) \in [Series -> Counts \union {0, 1, Gone}]
  BY WantedType DEF IInv, TypeOK
<1>5. TypeOK'
  BY <1>1, <1>2, <1>4, SeriesKinds DEF Show, IInv, TypeOK, Families
<1>6. Loop'
  BY <1>1, <1>2 DEF IInv, Loop
<1>7. CurrentIsSet'
  <2>1. Owned' = Owned /\ Shown(new, "pulls")' = Shown(new, "pulls")
        /\ \A f \in Families : Shown(new, f)' = Shown(new, f)
    BY <1>2 DEF Owned, Running, Shown
  <2>2. k \in Shown(new, "pulls")
    BY <1>2, <1>4, WorkIsWanted DEF Shown
  <2>3. \A f \in Families, m \in Keys :
          Pending(f, m)' <=> Pending(f, m) /\ ~(f = "pulls" /\ m = k)
    BY <1>1, <1>2, GaugesAssumption DEF Pending
  <2>4. /\ current'["pulls"] = current["pulls"] \union {k}
        /\ \A f \in Families \ {"pulls"} : current'[f] = current[f]
    BY <1>1 DEF Show, IInv, TypeOK, Families
  <2>5. /\ board'[<<"pulls", k>>] = Wanted(new)[<<"pulls", k>>]
        /\ \A f \in Families, m \in Keys :
             <<f, m>> # <<"pulls", k>> => board'[<<f, m>>] = board[<<f, m>>]
    BY <1>1, <1>2, SeriesKinds DEF Show, IInv, TypeOK, Families
  <2>6. current'["pulls"] = {m \in Shown(new, "pulls") : ~Pending("pulls", m)'}
    <3>1. current["pulls"] = {m \in Shown(new, "pulls") : ~Pending("pulls", m)}
      BY <1>2 DEF IInv, CurrentIsSet, Families
    <3>2. \A m \in Keys : Pending("pulls", m)' <=> Pending("pulls", m) /\ m # k
      BY <2>3 DEF Families
    <3>3. QED
      BY <2>2, <2>4, <3>1, <3>2 DEF Shown
  <2>7. \A f \in {"pushed", "updated"} :
          current'[f] = {m \in Shown(new, f) : ~Pending(f, m)'}
    <3> TAKE f \in {"pushed", "updated"}
    <3>1. current[f] = {m \in Shown(new, f) : ~Pending(f, m)}
      BY <1>2 DEF IInv, CurrentIsSet, Families
    <3>2. \A m \in Keys : Pending(f, m)' <=> Pending(f, m)
      BY <2>3 DEF Families
    <3>3. current'[f] = current[f]
      BY <2>4 DEF Families
    <3>4. QED
      BY <3>1, <3>2, <3>3 DEF Shown
  <2>8. current'["present"] = {}
    BY <1>2, <2>4 DEF IInv, CurrentIsSet, Families
  <2>9. \A f \in Families : \A m \in current'[f] : board'[<<f, m>>] = Wanted(new)[<<f, m>>]
    BY <1>2, <2>4, <2>5, <2>8 DEF IInv, CurrentIsSet, TypeOK, Families
  <2>10. QED
    BY <1>2, <2>1, <2>6, <2>7, <2>8, <2>9 DEF CurrentIsSet, Families
<1>8. QED
  BY <1>3, <1>5, <1>6, <1>7 DEF IInv

\* A detail step is Show on the one time series the image has, or nothing.
LEMMA SetDetailPreserves == IInv /\ SetDetail => IInv'
<1> SUFFICES ASSUME IInv, SetDetail PROVE IInv'
  OBVIOUS
<1> DEFINE d == DetailFamily(hand)
<1>1. /\ step = 1 /\ hand \in Keys /\ hand \in Work(1, new) /\ hand \notin left
      /\ Owned = {"pulls", "pushed", "updated"} /\ hand' = NoImage /\ ~retiring
      /\ UNCHANGED <<step, retiring, old, new, left, prev>>
  BY RunningCall, WorkType DEF SetDetail, IInv, TypeOK, Loop
<1>2. d \in {"pushed", "updated"} /\ d \in Families /\ <<d, hand>> \in Series
  BY <1>1, SeriesKinds DEF DetailFamily, Families
<1>3. new \in Cycles /\ Wanted(new) \in [Series -> Counts \union {0, 1, Gone}]
  BY WantedType DEF IInv, TypeOK
<1>4. Loop'
  BY <1>1 DEF IInv, Loop
<1>5. \A f \in {"pushed", "updated"} :
        hand \in Shown(new, f) <=> HasDetail(new, hand) /\ f = d
  BY <1>1, <1>3, WorkIsWanted, GaugesAssumption DEF Shown
<1>6. Owned' = Owned /\ \A f \in Families : Shown(new, f)' = Shown(new, f)
  BY <1>1 DEF Owned, Running, Shown
<1>7. \A f \in Families, m \in Keys :
        Pending(f, m)' <=> Pending(f, m) /\ ~(f # "pulls" /\ m = hand)
  BY <1>1, GaugesAssumption DEF Pending
<1>8. CASE HasDetail(new, hand)
  <2>1. Show(d, hand)
    BY <1>1, <1>2, <1>3, <1>8, WorkIsWanted DEF SetDetail, Show
  <2>2. OldOrNew' /\ DoneIsShown' /\ PrevIsShown' /\ VerdictsShown'
    BY <1>1, <1>2, <2>1, ShowPreserves
  <2>3. TypeOK'
    BY <1>1, <1>2, <1>3, <2>1 DEF Show, IInv, TypeOK
  <2>4. /\ current'[d] = current[d] \union {hand}
        /\ \A f \in Families : f # d => current'[f] = current[f]
    BY <1>2, <2>1 DEF Show, IInv, TypeOK
  <2>5. /\ board'[<<d, hand>>] = Wanted(new)[<<d, hand>>]
        /\ \A f \in Families, m \in Keys :
             <<f, m>> # <<d, hand>> => board'[<<f, m>>] = board[<<f, m>>]
    BY <1>1, <1>2, <2>1, SeriesKinds DEF Show, IInv, TypeOK
  <2>6. \A f \in {"pushed", "updated"} :
          current'[f] = {m \in Shown(new, f) : ~Pending(f, m)'}
    <3> TAKE f \in {"pushed", "updated"}
    <3>1. current[f] = {m \in Shown(new, f) : ~Pending(f, m)}
      BY <1>1 DEF IInv, CurrentIsSet, Families
    <3>2. current'[f] = IF f = d THEN current[f] \union {hand} ELSE current[f]
      BY <2>4 DEF Families
    <3>3. \A m \in Keys : Pending(f, m)' <=> Pending(f, m) /\ m # hand
      BY <1>7 DEF Families
    <3>4. hand \in Shown(new, f) <=> f = d
      BY <1>5, <1>8
    <3>5. Pending(f, hand)
      BY DEF Pending
    <3>6. QED
      BY <3>1, <3>2, <3>3, <3>4, <3>5 DEF Shown
  <2>7. current'["pulls"] = {m \in Shown(new, "pulls") : ~Pending("pulls", m)'}
        /\ current'["present"] = {}
    BY <1>1, <1>2, <1>7, <2>4 DEF IInv, CurrentIsSet, Shown, Families
  <2>8. \A f \in Families : \A m \in current'[f] : board'[<<f, m>>] = Wanted(new)[<<f, m>>]
    BY <1>1, <1>2, <2>3, <2>4, <2>5, <2>7 DEF IInv, CurrentIsSet, TypeOK, Families
  <2>9. CurrentIsSet'
    BY <1>1, <1>6, <2>6, <2>7, <2>8 DEF CurrentIsSet, Families
  <2>10. QED
    BY <1>4, <2>2, <2>3, <2>9 DEF IInv
<1>9. CASE ~HasDetail(new, hand)
  <2>1. UNCHANGED <<board, current>>
    BY <1>9 DEF SetDetail
  <2>2. TypeOK' /\ OldOrNew' /\ DoneIsShown' /\ PrevIsShown' /\ VerdictsShown'
    BY <1>1, <2>1 DEF IInv, TypeOK, OldOrNew, DoneIsShown, PrevIsShown, VerdictsShown, Judged, Done, Shown
  <2>3. \A f \in Families : f \in Owned =>
          current[f] = {m \in Shown(new, f) : ~Pending(f, m)'}
    <3> SUFFICES ASSUME NEW f \in Families, f \in Owned
                 PROVE  current[f] = {m \in Shown(new, f) : ~Pending(f, m)'}
      OBVIOUS
    <3>1. current[f] = {m \in Shown(new, f) : ~Pending(f, m)}
      BY DEF IInv, CurrentIsSet
    <3>2. f # "pulls" => hand \notin Shown(new, f)
      BY <1>1, <1>5, <1>9
    <3>3. QED
      BY <1>7, <3>1, <3>2 DEF Shown
  <2>4. CurrentIsSet'
    BY <1>1, <1>6, <2>1, <2>3 DEF IInv, CurrentIsSet
  <2>5. QED
    BY <1>4, <2>2, <2>4 DEF IInv
<1>10. QED
  BY <1>8, <1>9

LEMMA SetPresentPreserves == IInv /\ SetPresent => IInv'
<1> SUFFICES ASSUME IInv, SetPresent PROVE IInv'
  OBVIOUS
<1>1. PICK k \in left : Show("present", k) /\ left' = left \ {k}
  BY DEF SetPresent
<1>2. /\ step = 2 /\ k \in Work(2, new) /\ k \in Keys /\ Owned = {"present"}
      /\ UNCHANGED <<step, retiring, old, new, hand, prev>> /\ hand = NoImage /\ ~retiring
  BY RunningCall, WorkType DEF SetPresent, IInv, TypeOK, Loop
<1>3. OldOrNew' /\ DoneIsShown' /\ PrevIsShown' /\ VerdictsShown'
  BY <1>1, <1>2, ShowPreserves
<1>4. new \in Cycles /\ Wanted(new) \in [Series -> Counts \union {0, 1, Gone}]
  BY WantedType DEF IInv, TypeOK
<1>5. TypeOK'
  BY <1>1, <1>2, <1>4, SeriesKinds DEF Show, IInv, TypeOK, Families
<1>6. Loop'
  BY <1>1, <1>2 DEF IInv, Loop
<1>7. CurrentIsSet'
  <2>1. Owned' = Owned /\ \A f \in Families : Shown(new, f)' = Shown(new, f)
    BY <1>2 DEF Owned, Running, Shown
  <2>2. k \in Shown(new, "present")
    BY <1>2, <1>4, WorkIsWanted DEF Shown
  <2>3. \A m \in Keys : Pending("present", m)' <=> Pending("present", m) /\ m # k
    BY <1>1, <1>2, GaugesAssumption DEF Pending
  <2>4. /\ current'["present"] = current["present"] \union {k}
        /\ \A f \in Families \ {"present"} : current'[f] = current[f]
    BY <1>1 DEF Show, IInv, TypeOK, Families
  <2>5. /\ board'[<<"present", k>>] = Wanted(new)[<<"present", k>>]
        /\ \A m \in Keys : m # k => board'[<<"present", m>>] = board[<<"present", m>>]
    BY <1>1, <1>2, SeriesKinds DEF Show, IInv, TypeOK, Families
  <2>6. current["present"] = {m \in Shown(new, "present") : ~Pending("present", m)}
    BY <1>2 DEF IInv, CurrentIsSet, Families
  <2>7. current'["present"] = {m \in Shown(new, "present") : ~Pending("present", m)'}
    BY <2>2, <2>3, <2>4, <2>6 DEF Shown
  <2>8. \A m \in current'["present"] : board'[<<"present", m>>] = Wanted(new)[<<"present", m>>]
    BY <1>2, <2>4, <2>5 DEF IInv, CurrentIsSet, TypeOK, Families
  <2>9. QED
    BY <1>2, <2>1, <2>4, <2>7, <2>8 DEF IInv, CurrentIsSet, Families
<1>8. QED
  BY <1>3, <1>5, <1>6, <1>7 DEF IInv

\* Steps that leave the series and the maps alone and empty nothing pending.
LEMMA QuietPreserves ==
  ASSUME IInv, StartRetire \/ UNCHANGED vars
  PROVE  IInv'
<1>1. UNCHANGED <<step, old, new, board, left, hand, prev, current>>
  BY DEF StartRetire, vars
<1>2. TypeOK' /\ OldOrNew' /\ DoneIsShown' /\ PrevIsShown' /\ VerdictsShown'
  <2>1. left' \subseteq Keys \union Sources /\ retiring' \in BOOLEAN
    BY DEF StartRetire, vars, IInv, TypeOK
  <2>2. QED
    BY <1>1, <2>1 DEF IInv, TypeOK, OldOrNew, DoneIsShown, PrevIsShown, VerdictsShown, Judged, Done, Shown
<1>3. Owned' = Owned /\ \A f \in Families : Shown(new, f)' = Shown(new, f)
  BY <1>1 DEF Owned, Running, Shown
<1>4. Owned # {} => left' = left
  BY RunningCall DEF StartRetire, vars, IInv, TypeOK
<1>5. \A f \in Families, k \in Keys : f \in Owned => (Pending(f, k)' <=> Pending(f, k))
  BY <1>1, <1>4 DEF Pending
<1>6. CurrentIsSet'
  <2>1. ASSUME NEW f \in Families, f \in Owned
        PROVE  /\ current'[f] = {k \in Shown(new, f) : ~Pending(f, k)'}
               /\ \A k \in current'[f] : board'[<<f, k>>] = Wanted(new)[<<f, k>>]
    BY <1>1, <1>5, <2>1 DEF IInv, CurrentIsSet, Shown
  <2>2. QED
    BY <1>1, <1>3, <2>1 DEF IInv, CurrentIsSet
<1>7. Loop'
  BY <1>1, RunningCall DEF StartRetire, vars, IInv, TypeOK, Loop
<1>8. QED
  BY <1>2, <1>6, <1>7 DEF IInv

\* A verdict moves when all else has.
LEMMA SetSourcePreserves == IInv /\ SetSource => IInv'
<1> SUFFICES ASSUME IInv, SetSource PROVE IInv'
  OBVIOUS
<1>1. PICK s \in left : /\ board' = [board EXCEPT ![Verdict(s)] = new.complete[s]]
                        /\ left' = left \ {s}
  BY DEF SetSource
<1>2. /\ UNCHANGED <<step, retiring, old, new, hand, prev, current>>
      /\ step = 3 /\ Owned = {} /\ s \in Sources /\ hand = NoImage /\ ~retiring
  BY RunningCall, WorkType DEF SetSource, IInv, TypeOK, Loop
<1>3. new.complete[s] = Wanted(new)[Verdict(s)] /\ new \in Cycles
  BY <1>2, WantedVerdict DEF IInv, TypeOK
<1>4. /\ board' \in [Series -> Counts \union {0, 1, Gone}]
      /\ board'[Verdict(s)] = new.complete[s]
      /\ \A x \in Series : x # Verdict(s) => board'[x] = board[x]
  BY <1>1, <1>2, <1>3, SeriesKinds, WantedType DEF IInv, TypeOK
<1>5. TypeOK'
  BY <1>1, <1>2, <1>4 DEF IInv, TypeOK
<1>6. OldOrNew'
  BY <1>2, <1>3, <1>4 DEF IInv, OldOrNew
<1>7. \A f \in Families, k \in Keys : board'[<<f, k>>] = board[<<f, k>>]
  <2> TAKE f \in Families, k \in Keys
  <2>1. <<f, k>> \in Series /\ <<f, k>> # Verdict(s)
    BY <1>2, SeriesKinds
  <2>2. QED
    BY <1>4, <2>1
<1>8. DoneIsShown' /\ PrevIsShown'
  BY <1>2, <1>7 DEF IInv, DoneIsShown, PrevIsShown, Done, Shown
<1>9. CurrentIsSet'
  BY <1>2 DEF IInv, CurrentIsSet, Owned, Running
<1>10. Loop'
  BY <1>1, <1>2 DEF IInv, Loop
<1>11. VerdictsShown'
  <2> SUFFICES ASSUME NEW t \in Sources
               PROVE  /\ t \notin left' => board'[Verdict(t)] = new.complete[t]
                      /\ t \in left' => board'[Verdict(t)] = old.complete[t]
    BY <1>2 DEF VerdictsShown, Judged
  <2>1. CASE t = s
    BY <1>1, <1>4, <2>1
  <2>2. CASE t # s
    <3>1. board'[Verdict(t)] = board[Verdict(t)]
      BY <1>4, <2>2, SeriesKinds
    <3>2. t \in left' <=> t \in left
      BY <1>1, <2>2
    <3>3. QED
      BY <1>2, <3>1, <3>2 DEF IInv, VerdictsShown, Judged
  <2>3. QED
    BY <2>1, <2>2
<1>12. QED
  BY <1>5, <1>6, <1>8, <1>9, <1>10, <1>11 DEF IInv

\* A key of the last showing that the running call has not set departs.
LEMMA DepartedIsGone ==
  ASSUME IInv, left = {}, hand = NoImage,
         NEW f \in Owned, NEW k \in Keys, k \notin current[f]
  PROVE  f \in Families /\ ~Done(f) /\ Wanted(new)[<<f, k>>] = Gone
<1>1. f \in Families /\ ~Done(f)
  BY RunningCall DEF Done, IInv, TypeOK, Families
<1>2. ~Pending(f, k)
  BY GaugesAssumption DEF Pending
<1>3. QED
  BY <1>1, <1>2 DEF IInv, CurrentIsSet, Shown

LEMMA RetirePreserves == IInv /\ Retire => IInv'
<1> SUFFICES ASSUME IInv, Retire PROVE IInv'
  OBVIOUS
<1>1. PICK f \in Owned : \E k \in Departed(f) : board' = [board EXCEPT ![<<f, k>>] = Gone]
  BY DEF Retire
<1>2. PICK k \in Departed(f) : board' = [board EXCEPT ![<<f, k>>] = Gone]
  BY <1>1
<1>3. /\ UNCHANGED <<step, retiring, old, new, left, hand, prev, current>>
      /\ left = {} /\ hand = NoImage
  BY DEF Retire, IInv, Loop
<1>4. f \in Families /\ k \in Keys /\ k \notin current[f] /\ <<f, k>> \in Series
  BY RunningCall, SeriesKinds DEF IInv, TypeOK, Departed, Families
<1>5. ~Done(f) /\ Wanted(new)[<<f, k>>] = Gone
  BY <1>3, <1>4, DepartedIsGone
<1>6. /\ board' \in [Series -> Counts \union {0, 1, Gone}]
      /\ board'[<<f, k>>] = Gone
      /\ \A s \in Series : s # <<f, k>> => board'[s] = board[s]
  BY <1>2, <1>4 DEF IInv, TypeOK
<1>7. TypeOK' /\ OldOrNew' /\ PrevIsShown' /\ Loop'
  BY <1>3, <1>5, <1>6 DEF IInv, TypeOK, OldOrNew, PrevIsShown, Done, Shown, Loop
<1>8. DoneIsShown'
  BY <1>3, <1>5, <1>6, SeriesKinds DEF IInv, DoneIsShown, Done
<1>9. CurrentIsSet'
  <2>1. /\ Owned' = Owned
        /\ \A g \in Families : Shown(new, g)' = Shown(new, g)
        /\ \A g \in Families, m \in Keys : Pending(g, m)' <=> Pending(g, m)
    BY <1>3 DEF Owned, Running, Shown, Pending
  <2>2. ASSUME NEW g \in Families, g \in Owned
        PROVE  /\ current'[g] = {m \in Shown(new, g) : ~Pending(g, m)'}
               /\ \A m \in current'[g] : board'[<<g, m>>] = Wanted(new)[<<g, m>>]
    <3>1. current'[g] = {m \in Shown(new, g) : ~Pending(g, m)'}
      BY <1>3, <2>1, <2>2 DEF IInv, CurrentIsSet, Shown
    <3>2. ASSUME NEW m \in current'[g] PROVE board'[<<g, m>>] = Wanted(new)[<<g, m>>]
      <4>1. m \in current[g] /\ m \in Keys /\ <<g, m>> \in Series
        BY <1>3, <3>1, SeriesKinds DEF Shown
      <4>2. <<g, m>> # <<f, k>>
        BY <1>4, <4>1
      <4>3. QED
        BY <1>6, <2>2, <4>1, <4>2 DEF IInv, CurrentIsSet
    <3>3. QED
      BY <3>1, <3>2
  <2>3. QED
    BY <1>3, <2>1, <2>2 DEF IInv, CurrentIsSet
<1>10. VerdictsShown'
  <2>1. \A s \in Sources : board'[Verdict(s)] = board[Verdict(s)]
    BY <1>4, <1>6, SeriesKinds
  <2>2. QED
    BY <1>3, <2>1 DEF IInv, VerdictsShown, Judged
<1>11. QED
  BY <1>7, <1>8, <1>9, <1>10 DEF IInv

\* At a call's return every series it owns is at its new value, and what it set
\* is what the next cycle has to retire.
LEMMA ReturnCompletes ==
  ASSUME IInv, Return, NEW f \in Owned
  PROVE  /\ f \in Families
         /\ current[f] = Shown(new, f)
         /\ \A k \in Keys : board[<<f, k>>] = Wanted(new)[<<f, k>>]
<1>1. f \in Families /\ ~Done(f) /\ left = {} /\ hand = NoImage
  BY RunningCall DEF Return, Done, IInv, TypeOK, Families
<1>2. current[f] = Shown(new, f)
  <2>1. \A k \in Keys : ~Pending(f, k)
    BY <1>1, GaugesAssumption DEF Pending
  <2>2. QED
    BY <1>1, <2>1 DEF IInv, CurrentIsSet, Shown
<1>3. ASSUME NEW k \in Keys, k \notin current[f]
      PROVE  board[<<f, k>>] = Wanted(new)[<<f, k>>]
  <2>1. Wanted(new)[<<f, k>>] = Gone
    BY <1>1, <1>3, DepartedIsGone
  <2>2. k \in prev[f] => board[<<f, k>>] = Gone
    BY <1>3 DEF Return, Departed
  <2>3. k \notin prev[f] => Wanted(old)[<<f, k>>] = Gone
    BY <1>1 DEF IInv, PrevIsShown, Shown
  <2>4. board[<<f, k>>] = Wanted(old)[<<f, k>>] \/ board[<<f, k>>] = Wanted(new)[<<f, k>>]
    BY <1>1, SeriesKinds DEF IInv, OldOrNew
  <2>5. QED
    BY <2>1, <2>2, <2>3, <2>4
<1>4. QED
  BY <1>1, <1>2, <1>3 DEF IInv, CurrentIsSet

LEMMA ReturnPreserves == IInv /\ Return => IInv'
<1> SUFFICES ASSUME IInv, Return PROVE IInv'
  OBVIOUS
<1>1. /\ step \in 1..3 /\ step' = (IF step = 3 THEN 0 ELSE step + 1) /\ retiring' = FALSE
      /\ UNCHANGED <<new, board, hand>> /\ left = {} /\ hand = NoImage
      /\ old' = IF step = 3 THEN new ELSE old
      /\ current' = [f \in Families |-> {}]
  BY DEF Return, NextStep, NoKeys, IInv, TypeOK
<1>2. left' = IF step = 3 THEN {} ELSE Work(step', new')
  BY <1>1 DEF Return
<1>3. \A f \in Families : Done(f)' <=> Done(f) \/ f \in Owned
  BY <1>1, RunningCall DEF Done, Families
<1>4. TypeOK'
  <2>1. prev' \in [Families -> SUBSET Keys]
    BY DEF Return, Remembered, IInv, TypeOK
  <2>2. left' \subseteq Keys \union Sources
    BY <1>1, <1>2, WorkType
  <2>3. current' \in [Families -> SUBSET Keys]
    BY <1>1
  <2>4. step' \in 0..3
    BY <1>1
  <2>5. retiring' \in BOOLEAN
    BY <1>1
  <2>6. QED
    BY <1>1, <2>1, <2>2, <2>3, <2>4, <2>5 DEF IInv, TypeOK
<1>5. DoneIsShown'
  BY <1>1, <1>3, ReturnCompletes DEF IInv, DoneIsShown
<1>6. PrevIsShown'
  <2> SUFFICES ASSUME NEW f \in Families
               PROVE  prev'[f] = Shown(IF Done(f)' THEN new ELSE old, f)
    BY <1>1 DEF PrevIsShown, Shown, Done
  <2>1. prev'[f] = IF f \in Owned THEN current[f] ELSE prev[f]
    BY DEF Return, Remembered
  <2>2. QED
    BY <1>3, <2>1, ReturnCompletes DEF IInv, PrevIsShown
<1>7. Loop'
  BY <1>1, <1>2 DEF Loop
<1>8. CurrentIsSet'
  <2> SUFFICES ASSUME NEW f \in Families, f \in Owned'
               PROVE  \A k \in Shown(new, f)' : Pending(f, k)'
    BY <1>1 DEF CurrentIsSet, Shown
  <2>1. step = 1 /\ step' = 2 /\ f = "present"
    BY <1>1 DEF Owned, Running, PublishOrder
  <2>2. left' = Work(2, new)
    BY <1>1, <1>2, <2>1
  <2>3. QED
    BY <1>1, <2>1, <2>2, WorkIsWanted DEF IInv, TypeOK, Pending, Shown
<1>9. VerdictsShown'
  <2>1. step = 2 => left' = Sources
    BY <1>1, <1>2, WorkType
  <2>2. QED
    BY <1>1, <1>2, <2>1 DEF IInv, VerdictsShown, Judged
<1>10. OldOrNew'
  <2>1. CASE step = 3
    <3>1. \A f \in Families : Done(f)'
      BY <1>1, <2>1 DEF Done
    <3>2. \A x \in ImageSeries : board'[x] = Wanted(new)'[x]
      BY <1>5, <3>1, SeriesKinds DEF DoneIsShown
    <3>3. \A x \in VerdictSeries : board'[x] = Wanted(new)'[x]
      BY <1>1, <1>9, <2>1, SeriesKinds, WantedVerdict DEF VerdictsShown, Judged, Wanted
    <3>4. QED
      BY <3>2, <3>3 DEF OldOrNew, Series
  <2>2. CASE step # 3
    BY <1>1, <2>2 DEF IInv, OldOrNew
  <2>3. QED
    BY <2>1, <2>2
<1>11. QED
  BY <1>4, <1>5, <1>6, <1>7, <1>8, <1>9, <1>10 DEF IInv

LEMMA StepPreservesIInv == IInv /\ [Next]_vars => IInv'
<1> SUFFICES ASSUME IInv, [Next]_vars PROVE IInv'
  OBVIOUS
<1> QED
  BY BeginPreserves, SetPullsPreserves, SetDetailPreserves, SetPresentPreserves,
     SetSourcePreserves, QuietPreserves, RetirePreserves, ReturnPreserves DEF Next

LEMMA InvariantIInv == Spec => []IInv
  BY InitIInv, StepPreservesIInv, PTL DEF Spec

-----------------------------------------------------------------------------
(* The theorems.                                                           *)

\* Every reachable state of the bookkeeping is well formed.
THEOREM TypeCorrect == Spec => []TypeOK
<1>1. IInv => TypeOK
  BY DEF IInv
<1>2. QED
  BY <1>1, InvariantIInv, PTL

\* Whenever a source's exposed verdict has left the previous cycle's value, and
\* between publications, every exposed image series is the newest cycle's
\* (main.go:198-200).
THEOREM VerdictFollowsDataAlways == Spec => []VerdictFollowsData
<1>1. IInv => VerdictFollowsData
  <2> SUFFICES ASSUME IInv,
                      step = 0 \/ \E v \in VerdictSeries : board[v] # Wanted(old)[v]
               PROVE  \A x \in ImageSeries : board[x] = Wanted(new)[x]
    BY DEF VerdictFollowsData
  <2>1. step \in {0, 3}
    <3> SUFFICES ASSUME NEW v \in VerdictSeries, board[v] # Wanted(old)[v]
                 PROVE  step \in {0, 3}
      OBVIOUS
    <3>1. PICK s \in Sources : v = Verdict(s)
      BY SeriesKinds
    <3>2. QED
      BY <3>1, WantedVerdict DEF IInv, VerdictsShown, Judged
  <2>2. \A f \in Families : Done(f)
    BY <2>1 DEF Done
  <2>3. QED
    BY <2>2, SeriesKinds DEF IInv, DoneIsShown
<1>2. QED
  BY <1>1, InvariantIInv, PTL

\* Gauges implements SeriesBoard: whenever a scrape reads, each series has its
\* old or its new value, moves at most once, and none is left behind
\* (obs.go:168-174, 196-199, 224-225).
THEOREM ImplementsBoard == Spec => BoardPromise
<1>1. Init => Board!BoardInit
  BY DEF Init, Board!BoardInit
<1>2. IInv /\ [Next]_vars => [Board!BoardNext]_Board!boardVars
  <2> SUFFICES ASSUME IInv, Next
               PROVE  Board!BoardNext \/ UNCHANGED Board!boardVars
    BY DEF vars, Board!boardVars, Wanted
  <2>1. CASE Begin
    <3>2. board = Wanted(new)
      BY <2>1, RestIsShown DEF Begin
    <3>3. Wanted(new)' \in [Series -> Counts \union {0, 1, Gone}] /\ Wanted(old)' = Wanted(new)
      BY <2>1, WantedType DEF Begin, Wanted
    <3>4. QED
      BY <2>1, <3>2, <3>3 DEF Begin, Board!BoardNext, Board!Begin
  <2>2. ASSUME UNCHANGED <<old, new>>
        PROVE  Wanted(old)' = Wanted(old) /\ Wanted(new)' = Wanted(new)
    BY <2>2 DEF Wanted
  <2>3. ASSUME UNCHANGED <<old, new>>, NEW s \in Series,
               board' = [board EXCEPT ![s] = Wanted(new)[s]]
        PROVE  Board!BoardNext \/ UNCHANGED Board!boardVars
    <3>1. CASE board[s] = Wanted(old)[s]
      BY <2>2, <2>3, <3>1 DEF Board!BoardNext, Board!Move
    <3>2. CASE board[s] = Wanted(new)[s]
      BY <2>2, <2>3, <3>2 DEF Board!boardVars, IInv, TypeOK
    <3>3. QED
      BY <3>1, <3>2 DEF IInv, OldOrNew
  <2>4. ASSUME UNCHANGED <<old, new, board>> PROVE UNCHANGED Board!boardVars
    BY <2>2, <2>4 DEF Board!boardVars
  <2>5. CASE SetPulls \/ SetPresent
    <3>1. PICK f \in {"pulls", "present"}, k \in left : Show(f, k)
      BY <2>5 DEF SetPulls, SetPresent
    <3>2. <<f, k>> \in Series
      BY <2>5, <3>1, RunningCall, WorkType, SeriesKinds DEF SetPulls, SetPresent, IInv, TypeOK, Loop, Families
    <3>3. UNCHANGED <<old, new>>
      BY <2>5 DEF SetPulls, SetPresent
    <3>4. QED
      BY <2>3, <3>1, <3>2, <3>3 DEF Show
  <2>6. CASE SetDetail
    <3> DEFINE d == DetailFamily(hand)
    <3>1. hand \in Keys /\ hand \in Work(1, new) /\ d \in {"pushed", "updated"}
      BY <2>6, WorkType DEF SetDetail, IInv, Loop, DetailFamily
    <3>2. <<d, hand>> \in Series
      BY <3>1, SeriesKinds DEF Families
    <3>3. HasDetail(new, hand) => Wanted(new)[<<d, hand>>] = 1
      BY <3>1, WorkIsWanted DEF IInv, TypeOK
    <3>4. UNCHANGED <<old, new>>
      BY <2>6 DEF SetDetail
    <3>5. QED
      BY <2>3, <2>4, <2>6, <3>2, <3>3, <3>4 DEF SetDetail
  <2>7. CASE Retire
    <3>1. PICK f \in Owned : \E k \in Departed(f) : board' = [board EXCEPT ![<<f, k>>] = Gone]
      BY <2>7 DEF Retire
    <3>2. PICK k \in Departed(f) : board' = [board EXCEPT ![<<f, k>>] = Gone]
      BY <3>1
    <3>3. f \in Families /\ k \in Keys /\ k \notin current[f] /\ <<f, k>> \in Series
      BY RunningCall, SeriesKinds DEF IInv, TypeOK, Departed, Families
    <3>4. Wanted(new)[<<f, k>>] = Gone
      BY <2>7, <3>3, DepartedIsGone DEF Retire, IInv, Loop
    <3>5. UNCHANGED <<old, new>>
      BY <2>7 DEF Retire
    <3>6. QED
      BY <2>3, <3>2, <3>3, <3>4, <3>5
  <2>8. CASE SetSource
    <3>1. PICK s \in left : board' = [board EXCEPT ![Verdict(s)] = new.complete[s]]
      BY <2>8 DEF SetSource
    <3>2. s \in Sources
      BY <2>8, RunningCall, WorkType DEF SetSource, IInv, TypeOK, Loop
    <3>3. new.complete[s] = Wanted(new)[Verdict(s)] /\ Verdict(s) \in Series
      BY <3>2, WantedVerdict, SeriesKinds
    <3>4. UNCHANGED <<old, new>>
      BY <2>8 DEF SetSource
    <3>5. QED
      BY <2>3, <3>1, <3>3, <3>4
  <2>9. CASE StartRetire
    BY <2>4, <2>9 DEF StartRetire
  <2>10. CASE Return /\ step = 3
    <3>1. step' = 0 /\ UNCHANGED <<new, board>> /\ old' = new
      BY <2>10 DEF Return, NextStep
    <3>2. board' = Wanted(new)'
      <4>1. \A x \in ImageSeries : board[x] = Wanted(new)[x]
        BY <2>10, SeriesKinds DEF IInv, DoneIsShown, Done
      <4>2. \A x \in VerdictSeries : board[x] = Wanted(new)[x]
        BY <2>10, SeriesKinds, WantedVerdict DEF Return, IInv, VerdictsShown, Judged
      <4>3. board = Wanted(new)
        BY <4>1, <4>2, WantedType DEF IInv, TypeOK, Series
      <4>4. QED
        BY <3>1, <4>3 DEF Wanted
    <3>3. Wanted(old)' = Wanted(new) /\ Wanted(new)' = Wanted(new)
      BY <3>1 DEF Wanted
    <3>4. QED
      BY <3>1, <3>2, <3>3 DEF Board!BoardNext, Board!End
  <2>11. CASE Return /\ step # 3
    <3>1. UNCHANGED <<old, new, board>>
      BY <2>11 DEF Return, IInv, TypeOK
    <3>2. QED
      BY <2>4, <3>1
  <2>12. QED
    BY <2>1, <2>5, <2>6, <2>7, <2>8, <2>9, <2>10, <2>11 DEF Next
<1>3. QED
  BY <1>1, <1>2, InvariantIInv, PTL DEF Spec, BoardPromise, Board!BoardSpec
=============================================================================
