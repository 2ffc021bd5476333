---------------------------- MODULE CollectProofs ----------------------------
(***************************************************************************)
(* Proofs about Collect for any names, configuration, populations and      *)
(* detail cap: what a published cycle says of presence and completeness is *)
(* true of the registries.                                                 *)
(***************************************************************************)
EXTENDS Collect, FiniteSetTheorems, TLAPS

\* Every source judged so far gave a whole answer, unless shutdown began.
Answers ==
    \A i \in 1..turn :
        (i < turn \/ phase # "collecting") =>
            cancelled \/ Whole(Active[i], exists[Active[i]], results[Active[i]])

\* A cycle leaves Run only with every source's whole answer.
Accounted ==
    phase \in {"publishing", "published"} =>
        /\ cycle = Account
        /\ \A s \in Invoked(Len(Active)) : Whole(s, exists[s], results[s])

IInv ==
    /\ phase \in Phases
    /\ turn \in 0..Len(Active)
    /\ phase \in {"collecting", "judging"} => turn > 0
    /\ exists \in [Registries -> SUBSET Names]
    /\ results \in [Registries -> CollectionType]
    /\ Answers
    /\ Accounted

-----------------------------------------------------------------------------
(* Lemmas on one source's answer.                                          *)

LEMMA EndingFinite ==
  ASSUME NEW c, NEW ends
  PROVE  IsFiniteSet(Ending(c, ends)) /\ Cardinality(Ending(c, ends)) \in Nat
<1>1. Ending(c, ends) \subseteq Names
  BY DEF Ending
<1>2. IsFiniteSet(Ending(c, ends))
  BY <1>1, FS_Subset, CollectAssumption, ContractAssumption
<1>3. QED
  BY <1>2, FS_CardinalityType

\* Definitive = Attempted exactly when no fetch was left undecided.
LEMMA CountsDecide ==
  ASSUME NEW c, Definitive(c) = Attempted(c)
  PROVE  Unread(c) = {}
<1> DEFINE D == Ending(c, {"read", "absent"})
           A == Ending(c, {"read", "absent", "unread"})
<1>1. D \subseteq A
  BY DEF Ending
<1>2. IsFiniteSet(A) /\ IsFiniteSet(D)
  BY EndingFinite
<1>3. Cardinality(D) = Cardinality(A)
  BY DEF Definitive, Attempted
<1>4. D = A
  BY <1>1, <1>2, <1>3, FS_Subset
<1>5. QED
  BY <1>4 DEF Ending, Unread

\* A whole answer's entries exist, and what it reports missing does not.
LEMMA WholeIsTrue ==
  ASSUME NEW s \in Registries, NEW pop \in SUBSET Names, NEW c, Whole(s, pop, c),
         NEW n \in Names
  PROVE  /\ n \in Entries(c) => n \in pop /\ Covered(s, n)
         /\ Missing(s, c, n) => n \notin pop /\ Covered(s, n)
<1>1. c.end \in [Names -> Ends]
  BY DEF Whole, Truthful, CollectionType
<1>2. n \in Entries(c) => n \in pop /\ Covered(s, n)
  BY DEF Whole, Truthful, Entries, Ending, Covered
<1>3. ASSUME Missing(s, c, n) PROVE n \notin pop /\ Covered(s, n)
  <2>1. CASE n \in Absent(c)
    BY <2>1 DEF Absent, Ending, Whole, Truthful, Covered
  <2>2. CASE n \notin Unread(c) \union Explicit[s] /\ Wild(s, n) /\ OwnerOf[n] \in c.listed
    BY <1>3, <2>2 DEF Missing, Unread, Entries, Ending, Whole, Covered
  <2>3. QED
    BY <1>3, <2>1, <2>2 DEF Missing
<1>4. QED
  BY <1>2, <1>3

\* A complete whole answer holds every covered name and decides the others.
LEMMA CompleteIsTotal ==
  ASSUME NEW s \in Registries, NEW pop \in SUBSET Names, NEW c,
         Whole(s, pop, c), Complete(s, c), NEW n \in Names, Covered(s, n)
  PROVE  /\ n \in pop => n \in Entries(c)
         /\ n \in Entries(c) \/ Missing(s, c, n)
<1>1. c.end \in [Names -> Ends]
  BY DEF Whole, Truthful, CollectionType
<1>2. n \notin Unread(c)
  BY CountsDecide DEF Complete
<1>3. c.end[n] \in {"row", "read", "absent", "none"}
  BY <1>1, <1>2 DEF Ends, Unread, Ending
<1>4. CASE n \in Explicit[s]
  <2>1. c.end[n] # "none"
    BY <1>4 DEF Whole
  <2>2. CASE c.end[n] = "absent"
    BY <2>2 DEF Whole, Truthful, Missing, Absent, Entries, Ending
  <2>3. CASE c.end[n] \in {"row", "read"}
    BY <2>3 DEF Entries, Ending
  <2>4. QED
    BY <1>3, <2>1, <2>2, <2>3
<1>5. CASE n \notin Explicit[s]
  <2>1. Wild(s, n) /\ OwnerOf[n] \in c.listed
    BY <1>5 DEF Covered, Wild, Complete
  <2>2. n \in pop => n \in Entries(c)
    BY <1>3, <2>1 DEF Whole, Entries, Ending
  <2>3. QED
    BY <1>2, <1>5, <2>1, <2>2 DEF Missing
<1>6. QED
  BY <1>4, <1>5

-----------------------------------------------------------------------------
(* The inductive invariant.                                                *)

LEMMA InvokedRegistries ==
  /\ Len(Active) \in Nat
  /\ \A i \in 1..Len(Active) : Active[i] \in Registries
  /\ \A k \in 0..Len(Active) : Invoked(k) \subseteq Registries
  BY CollectAssumption, ContractAssumption DEF Invoked

\* The accounting is a function of the answers alone.
LEMMA AccountOfResults == results' = results => Account' = Account
  BY DEF Account, Images, Presence, Omitted, DetailedNames, WithinCap, SeenNames

LEMMA InitIInv == Init => IInv
<1> SUFFICES ASSUME Init PROVE IInv
  OBVIOUS
<1>1. NoCollection \in CollectionType
  BY DEF NoCollection, CollectionType, Ends
<1>2. QED
  BY <1>1, InvokedRegistries DEF Init, IInv, Answers, Accounted, Phases

LEMMA StepPreservesIInv == IInv /\ [Next]_vars => IInv'
<1> SUFFICES ASSUME IInv, [Next]_vars PROVE IInv'
  OBVIOUS
<1> USE DEF IInv, Phases
<1>1. CASE BeginCycle
  <2>1. NoCollection \in CollectionType
    BY DEF NoCollection, CollectionType, Ends
  <2>2. QED
    BY <1>1, <2>1, InvokedRegistries DEF BeginCycle, Answers, Accounted
<1>2. CASE Invoke
  BY <1>2, InvokedRegistries DEF Invoke, MoreSources, Answers, Accounted
<1>3. CASE Return
  <2> DEFINE s == Active[turn]
  <2>1. s \in Registries /\ turn \in 1..Len(Active)
    BY <1>3, InvokedRegistries DEF Return
  <2>2. PICK c \in CollectionType :
          /\ IF cancelled THEN Truthful(s, exists[s], c) ELSE Whole(s, exists[s], c)
          /\ results' = [results EXCEPT ![s] = c]
    BY <1>3 DEF Return
  <2>3. \A i \in 1..turn : i # turn => Active[i] # s
    BY <2>1, CollectAssumption, ContractAssumption
  <2>4. \A i \in 1..turn : Active[i] \in Registries
    BY <2>1, InvokedRegistries
  <2>5. Answers'
    BY <1>3, <2>1, <2>2, <2>3, <2>4 DEF Return, Answers
  <2>6. QED
    BY <1>3, <2>1, <2>2, <2>5 DEF Return, Accounted
<1>4. CASE Record
  BY <1>4 DEF Record, Answers, Accounted
<1>5. CASE Interrupt
  BY <1>5 DEF Interrupt, Answers, Accounted
<1>6. CASE Finish
  <2>1. \A s \in Invoked(Len(Active)) : Whole(s, exists[s], results[s])
    BY <1>6 DEF Finish, Stopped, MoreSources, Answers, Invoked
  <2>2. Account' = Account
    BY <1>6, AccountOfResults DEF Finish
  <2>3. Accounted'
    BY <1>6, <2>1, <2>2 DEF Finish, Accounted
  <2>4. QED
    BY <1>6, <2>3 DEF Finish, Answers
<1>7. CASE Publish \/ Rest \/ Cancel \/ UNCHANGED vars
  <2>1. UNCHANGED <<turn, exists, results, cycle>>
    BY <1>7 DEF Publish, Rest, Cancel, vars
  <2>2. Account' = Account
    BY <2>1, AccountOfResults
  <2>3. Accounted'
    BY <1>7, <2>1, <2>2 DEF Publish, Rest, Cancel, vars, Accounted
  <2>4. Answers'
    BY <1>7, <2>1 DEF Publish, Rest, Cancel, vars, Answers
  <2>5. QED
    BY <1>7, <2>1, <2>3, <2>4 DEF Publish, Rest, Cancel, vars
<1>8. QED
  BY <1>1, <1>2, <1>3, <1>4, <1>5, <1>6, <1>7 DEF Next

LEMMA InvariantIInv == Spec => []IInv
  BY InitIInv, StepPreservesIInv, PTL DEF Spec

-----------------------------------------------------------------------------
(* The counters.                                                           *)

\* RecordCollect has run for s in this cycle.
Recorded(s) ==
    \E i \in 1..turn : Active[i] = s /\ (i < turn \/ phase \notin {"collecting", "judging"})

\* A recorded source is counted once, as an error only on a whole answer, and
\* exactly by its health unless shutdown began before the cycle was accounted.
CountedOnce ==
    \A s \in Registries :
        /\ Recorded(s) => collects[s] = 1
        /\ ~Recorded(s) => collects[s] = 0 /\ errors[s] = 0
        /\ errors[s] > 0 => Whole(s, exists[s], results[s])
        /\ Recorded(s) /\ (~cancelled \/ phase \in {"publishing", "published"}) =>
              errors[s] = IF Healthy(results[s]) THEN 0 ELSE 1

CInv ==
    /\ cancelled \in BOOLEAN
    /\ collects \in [Registries -> Nat]
    /\ errors \in [Registries -> Nat]
    /\ phase \in {"publishing", "published"} => turn = Len(Active)
    /\ CountedOnce

\* The accounted cycle is of these answers, or of none yet.
CycleOfResults ==
    IF phase \in {"choosing", "collecting", "judging"}
       THEN cycle = NoCycle ELSE cycle \in {NoCycle, Account}

LEMMA InvariantCycleOfResults == Spec => []CycleOfResults
<1>1. Init => CycleOfResults
  BY DEF Init, CycleOfResults
<1>2. CycleOfResults /\ [Next]_vars => CycleOfResults'
  <2> SUFFICES ASSUME CycleOfResults, [Next]_vars PROVE CycleOfResults'
    OBVIOUS
  <2>1. CASE BeginCycle \/ Invoke \/ Return \/ Record
    BY <2>1 DEF BeginCycle, Invoke, Return, Record, CycleOfResults
  <2>2. CASE Interrupt \/ Finish \/ Publish \/ Rest \/ Cancel \/ UNCHANGED vars
    <3>1. Account' = Account
      BY <2>2, AccountOfResults DEF Interrupt, Finish, Publish, Rest, Cancel, vars
    <3>2. QED
      BY <2>2, <3>1 DEF Interrupt, Finish, Publish, Rest, Cancel, vars, CycleOfResults
  <2>3. QED
    BY <2>1, <2>2 DEF Next
<1>3. QED
  BY <1>1, <1>2, PTL DEF Spec

LEMMA InitCInv == Init => CInv
<1> SUFFICES ASSUME Init PROVE CInv
  OBVIOUS
<1>1. CountedOnce
  <2>1. \A s \in Registries : ~Recorded(s) /\ collects[s] = 0 /\ errors[s] = 0
    BY DEF Init, Recorded
  <2>2. QED
    BY <2>1 DEF CountedOnce
<1>2. cancelled \in BOOLEAN
  BY DEF Init
<1>3. collects \in [Registries -> Nat] /\ errors \in [Registries -> Nat]
  BY DEF Init
<1>4. QED
  BY <1>1, <1>2, <1>3 DEF Init, CInv

LEMMA StepPreservesCInv == IInv /\ CInv /\ [Next]_vars => CInv'
<1> SUFFICES ASSUME IInv, CInv, [Next]_vars PROVE CInv'
  OBVIOUS
<1> USE DEF CInv
<1>1. CASE BeginCycle
  BY <1>1 DEF BeginCycle, CountedOnce, Recorded
<1>2. CASE Invoke
  <2>1. \A s \in Registries : Recorded(s)' <=> Recorded(s)
    <3> TAKE s \in Registries
    <3>1. turn \in Nat /\ turn' = turn + 1 /\ phase = "choosing" /\ phase' = "collecting"
      BY <1>2, InvokedRegistries DEF Invoke, IInv
    <3>2. QED
      BY <3>1 DEF Recorded
  <2>2. QED
    BY <1>2, <2>1 DEF Invoke, CountedOnce
<1>3. CASE Return
  <2> DEFINE r == Active[turn]
  <2>1. r \in Registries /\ turn \in 1..Len(Active) /\ phase = "collecting" /\ phase' = "judging"
    BY <1>3, InvokedRegistries DEF Return, IInv
  <2>2. ~Recorded(r)
    BY <2>1, CollectAssumption, ContractAssumption DEF Recorded
  <2>3. \A s \in Registries : s # r => results'[s] = results[s]
    BY <1>3 DEF Return, IInv
  <2>4. \A s \in Registries : Recorded(s)' <=> Recorded(s)
    BY <1>3, <2>1 DEF Return, Recorded
  <2>5. UNCHANGED <<cancelled, exists, collects, errors>>
    BY <1>3 DEF Return
  <2>6. CountedOnce'
    BY <2>1, <2>2, <2>3, <2>4, <2>5 DEF CountedOnce
  <2>7. QED
    BY <2>1, <2>5, <2>6
<1>4. CASE Record
  <2> DEFINE r == Active[turn]
  <2>1. r \in Registries /\ turn \in 1..Len(Active) /\ phase = "judging" /\ phase' = "choosing"
    BY <1>4, InvokedRegistries DEF Record, IInv
  <2>2. ~Recorded(r) /\ collects[r] = 0 /\ errors[r] = 0
    <3>1. ~Recorded(r)
      BY <2>1, CollectAssumption, ContractAssumption DEF Recorded
    <3>2. QED
      BY <2>1, <3>1 DEF CountedOnce
  <2>3. \A s \in Registries : Recorded(s)' <=> Recorded(s) \/ s = r
    BY <1>4, <2>1 DEF Record, Recorded
  <2>4. cancelled \/ Whole(r, exists[r], results[r])
    BY <2>1 DEF IInv, Answers
  <2>5. /\ collects' = [collects EXCEPT ![r] = 1]
        /\ errors' = [errors EXCEPT ![r] = IF Failed(results[r]) THEN 1 ELSE 0]
        /\ UNCHANGED <<cancelled, exists, results>>
    BY <1>4, <2>1, <2>2 DEF Record
  <2>6. collects' \in [Registries -> Nat] /\ errors' \in [Registries -> Nat]
    BY <2>5
  <2>7. ASSUME NEW s \in Registries, s # r
        PROVE  collects'[s] = collects[s] /\ errors'[s] = errors[s] /\ (Recorded(s)' <=> Recorded(s))
    BY <2>3, <2>5, <2>7
  <2>8. collects'[r] = 1 /\ errors'[r] = IF Failed(results[r]) THEN 1 ELSE 0
    BY <2>1, <2>5
  <2>9. CountedOnce'
    <3> SUFFICES ASSUME NEW s \in Registries
                 PROVE  /\ Recorded(s)' => collects'[s] = 1
                        /\ ~Recorded(s)' => collects'[s] = 0 /\ errors'[s] = 0
                        /\ errors'[s] > 0 => Whole(s, exists[s], results[s])
                        /\ Recorded(s)' /\ (~cancelled \/ phase' \in {"publishing", "published"}) =>
                              errors'[s] = IF Healthy(results[s]) THEN 0 ELSE 1
      BY <2>5 DEF CountedOnce
    <3>1. CASE s = r
      <4>1. Recorded(s)'
        BY <2>1, <2>3, <3>1
      <4>2. CASE cancelled
        BY <2>1, <2>8, <3>1, <4>1, <4>2 DEF Failed
      <4>3. CASE ~cancelled
        BY <2>4, <2>8, <3>1, <4>1, <4>3 DEF Failed
      <4>4. QED
        BY <4>2, <4>3
    <3>2. CASE s # r
      BY <2>1, <2>7, <3>2 DEF CountedOnce
    <3>3. QED
      BY <3>1, <3>2
  <2>10. QED
    BY <2>1, <2>5, <2>6, <2>9
<1>5. CASE Finish
  <2>1. /\ UNCHANGED <<cancelled, turn, exists, results, collects, errors>> /\ ~cancelled
        /\ phase = "choosing" /\ phase' = "publishing" /\ turn = Len(Active)
    BY <1>5, InvokedRegistries DEF Finish, Stopped, MoreSources, IInv
  <2>2. \A s \in Registries : Recorded(s)' <=> Recorded(s)
    BY <2>1 DEF Recorded
  <2>3. CountedOnce'
    BY <2>1, <2>2 DEF CountedOnce
  <2>4. QED
    BY <2>1, <2>3
<1>6. CASE Interrupt \/ Publish \/ Rest \/ Cancel \/ UNCHANGED vars
  <2>1. UNCHANGED <<turn, exists, results, collects, errors>>
    BY <1>6 DEF Interrupt, Publish, Rest, Cancel, vars
  <2>2. \A s \in Registries : Recorded(s)' <=> Recorded(s)
    BY <1>6, <2>1 DEF Interrupt, Publish, Rest, Cancel, vars, Recorded
  <2>3. /\ cancelled' \in BOOLEAN
        /\ ~cancelled' => ~cancelled
        /\ phase' \in {"publishing", "published"} => phase \in {"publishing", "published"}
    BY <1>6 DEF Interrupt, Publish, Rest, Cancel, vars
  <2>4. CountedOnce'
    BY <2>1, <2>2, <2>3 DEF CountedOnce
  <2>5. QED
    BY <2>1, <2>3, <2>4
<1>7. QED
  BY <1>1, <1>2, <1>3, <1>4, <1>5, <1>6 DEF Next

LEMMA InvariantCInv == Spec => []CInv
  BY InitCInv, StepPreservesCInv, InvariantIInv, PTL DEF Spec

-----------------------------------------------------------------------------
(* Lemmas on the byte order of the cycle's names.                          *)

\* The names of the cycle that come before n.
Before(n) == {m \in SeenNames : Rank[m] < Rank[n]}

LEMMA SeenNamesFinite ==
  /\ SeenNames \subseteq Names /\ IsFiniteSet(SeenNames) /\ Cardinality(SeenNames) \in Nat
  /\ \A n : IsFiniteSet(Before(n)) /\ Cardinality(Before(n)) \in Nat
<1>1. SeenNames \subseteq Names
  BY CollectAssumption, ContractAssumption, InvokedRegistries DEF SeenNames, Entries, Ending
<1>2. IsFiniteSet(SeenNames)
  BY <1>1, FS_Subset, ContractAssumption
<1>3. \A n : IsFiniteSet(Before(n))
  BY <1>2, FS_Subset DEF Before
<1>4. QED
  BY <1>1, <1>2, <1>3, FS_CardinalityType

\* Of two names, the one that ranks lower has fewer names before it.
LEMMA BeforeFollowsRank ==
  ASSUME NEW m \in SeenNames, NEW n \in SeenNames, Rank[m] < Rank[n]
  PROVE  Cardinality(Before(m)) < Cardinality(Before(n))
<1>1. m \in Names /\ n \in Names /\ \A k \in SeenNames : Rank[k] \in Int
  BY SeenNamesFinite, CollectAssumption
<1>2. m \notin Before(m) /\ Before(m) \union {m} \subseteq Before(n)
  BY <1>1 DEF Before
<1>3. Cardinality(Before(m) \union {m}) = Cardinality(Before(m)) + 1
  BY <1>2, SeenNamesFinite, FS_AddElement
<1>4. Cardinality(Before(m) \union {m}) <= Cardinality(Before(n))
  BY <1>2, SeenNamesFinite, FS_Subset
<1>5. QED
  BY <1>3, <1>4, SeenNamesFinite

\* Counting the names before it numbers the cycle's names 0, 1, 2 ... without
\* a gap and without a double.
Position == [n \in SeenNames |-> Cardinality(Before(n))]

LEMMA PositionNumbersNames ==
  LET places == 0..Cardinality(SeenNames) - 1
  IN  Position \in Injection(SeenNames, places) /\ Position \in Surjection(SeenNames, places)
<1> DEFINE count == Cardinality(SeenNames)
           places == 0..count - 1
<1>1. ASSUME NEW n \in SeenNames PROVE Cardinality(Before(n)) \in places
  <2>1. Before(n) \subseteq SeenNames /\ n \in SeenNames /\ n \notin Before(n)
    BY SeenNamesFinite, CollectAssumption DEF Before
  <2>2. Cardinality(Before(n)) <= count /\ Cardinality(Before(n)) # count
    BY <2>1, SeenNamesFinite, FS_Subset
  <2>3. QED
    BY <2>2, SeenNamesFinite
<1>2. Position \in [SeenNames -> places]
  BY <1>1 DEF Position
<1>3. ASSUME NEW m \in SeenNames, NEW n \in SeenNames, Position[m] = Position[n] PROVE m = n
  <2>1. Cardinality(Before(m)) = Cardinality(Before(n))
    BY <1>3 DEF Position
  <2>2. m \in Names /\ n \in Names /\ Rank[m] \in Int /\ Rank[n] \in Int
    BY SeenNamesFinite, CollectAssumption
  <2>3. ~(Rank[m] < Rank[n]) /\ ~(Rank[n] < Rank[m])
    BY <2>1, BeforeFollowsRank, SeenNamesFinite
  <2>4. QED
    BY <2>2, <2>3, CollectAssumption
<1>4. Position \in Injection(SeenNames, places)
  BY <1>2, <1>3 DEF Injection, IsInjective
<1>5. IsFiniteSet(places) /\ Cardinality(places) = count
  BY SeenNamesFinite, FS_Interval, SMTT(30)
<1>6. Position \in Surjection(SeenNames, places)
  BY <1>4, <1>5, FS_Injection
<1>7. QED
  BY <1>4, <1>6

\* The detailed names are never more than the cap, and as many if a name of
\* the cycle is left out.
LEMMA DetailedNamesFillCap ==
  /\ Cardinality(DetailedNames) <= DetailCap
  /\ SeenNames # DetailedNames => Cardinality(DetailedNames) = DetailCap
<1> DEFINE places == 0..DetailCap - 1
           pos == [n \in DetailedNames |-> Position[n]]
<1>1. DetailedNames \subseteq SeenNames /\ IsFiniteSet(DetailedNames)
  BY SeenNamesFinite, FS_Subset DEF DetailedNames
<1>2. \A n \in SeenNames : /\ Position[n] \in Nat
                           /\ n \in DetailedNames <=> Position[n] < DetailCap
  BY SeenNamesFinite DEF Position, DetailedNames, WithinCap, Before
<1>3. DetailCap \in Nat /\ IsFiniteSet(places) /\ Cardinality(places) = DetailCap
  BY CollectAssumption, FS_Interval
<1>4. pos \in Injection(DetailedNames, places)
  <2>1. pos \in [DetailedNames -> places]
    BY <1>1, <1>2, <1>3
  <2>2. \A m, n \in DetailedNames : Position[m] = Position[n] => m = n
    BY <1>1, PositionNumbersNames DEF Injection, IsInjective
  <2>3. QED
    BY <2>1, <2>2 DEF Injection, IsInjective
<1>5. Cardinality(DetailedNames) <= DetailCap
  BY <1>3, <1>4, FS_Injection
<1>6. ASSUME SeenNames # DetailedNames PROVE Cardinality(DetailedNames) = DetailCap
  <2>1. PICK n \in SeenNames : n \notin DetailedNames
    BY <1>1, <1>6
  <2>2. Position[n] >= DetailCap
    BY <1>2, <1>3, <2>1
  <2>3. Position[n] \in 0..Cardinality(SeenNames) - 1
    BY PositionNumbersNames DEF Injection
  <2>4. ASSUME NEW k \in places PROVE \E m \in DetailedNames : pos[m] = k
    <3>1. k \in 0..Cardinality(SeenNames) - 1 /\ k < DetailCap
      BY <1>3, <2>2, <2>3, SeenNamesFinite
    <3>2. PICK m \in SeenNames : Position[m] = k
      BY <3>1, PositionNumbersNames DEF Surjection
    <3>3. m \in DetailedNames
      BY <1>2, <3>1, <3>2
    <3>4. QED
      BY <3>2, <3>3
  <2>5. pos \in Surjection(DetailedNames, places)
    BY <1>4, <2>4 DEF Injection, Surjection
  <2>6. QED
    BY <1>1, <1>3, <1>4, <2>5, FS_Injection
<1>7. QED
  BY <1>5, <1>6

-----------------------------------------------------------------------------
(* The theorems.                                                           *)

\* Every reachable state of a cycle is well formed.
THEOREM TypeCorrect == Spec => []TypeOK
<1>1. IInv /\ CInv => TypeOK
  BY DEF IInv, CInv, TypeOK
<1>2. QED
  BY <1>1, InvariantIInv, InvariantCInv, PTL

\* Every published cycle counts each source once, and as an error exactly when
\* it was unhealthy (collect.go:142-148).
THEOREM CountersMatchVerdictsAlways == Spec => []CountersMatchVerdicts
<1>1. IInv /\ CInv => CountersMatchVerdicts
  <2> SUFFICES ASSUME IInv, CInv, phase = "published", NEW s \in Invoked(Len(Active))
               PROVE  collects[s] = 1 /\ errors[s] = IF Healthy(results[s]) THEN 0 ELSE 1
    BY DEF CountersMatchVerdicts
  <2>1. s \in Registries
    BY InvokedRegistries
  <2>2. Recorded(s)
    BY InvokedRegistries DEF CInv, Invoked, Recorded
  <2>3. QED
    BY <2>1, <2>2 DEF CInv, CountedOnce
<1>2. QED
  BY <1>1, InvariantIInv, InvariantCInv, PTL

\* Shutdown cutting a collection short never counts as an error
\* (collect.go:122-126).
THEOREM ErrorsAreRealAlways == Spec => []ErrorsAreReal
<1>1. CInv => ErrorsAreReal
  BY DEF CInv, CountedOnce, ErrorsAreReal
<1>2. QED
  BY <1>1, InvariantCInv, PTL

\* While the registries stand still image_present never lies, whatever the
\* configuration, the populations, the failures and the moment of shutdown (account.go:127-177).
THEOREM PresenceIsTrueAlways == Spec => []PresenceIsTrue
<1>1. IInv => PresenceIsTrue
  <2> SUFFICES ASSUME IInv, phase = "published", NEW q \in cycle.presence
               PROVE  q.present <=> q.name \in exists[q.source]
    BY DEF PresenceIsTrue
  <2>1. PICK s \in Invoked(Len(Active)) : q \in Presence(s, results[s])
    BY DEF IInv, Accounted, Account
  <2>2. s \in Registries /\ Whole(s, exists[s], results[s]) /\ exists[s] \in SUBSET Names
    BY <2>1, InvokedRegistries DEF IInv, Accounted
  <2>3. PICK n \in DetailedNames :
          /\ n \in Entries(results[s]) \/ Missing(s, results[s], n)
          /\ q = [source |-> s, name |-> n, present |-> n \in Entries(results[s])]
    BY <2>1 DEF Presence
  <2>4. n \in Names
    BY <2>3, CollectAssumption, ContractAssumption, InvokedRegistries DEF DetailedNames, SeenNames, Entries, Ending
  <2>5. QED
    BY <2>2, <2>3, <2>4, WholeIsTrue
<1>2. QED
  BY <1>1, InvariantIInv, PTL

\* The three verdicts of a source agree (collect.go:137-140, account.go:115-125).
THEOREM VerdictsAgreeAlways == Spec => []VerdictsAgree
<1>1. ASSUME NEW s, NEW c PROVE Complete(s, c) \/ Healthy(c) => Answered(c)
  <2> DEFINE R == Ending(c, {"read"})
             D == Ending(c, {"read", "absent"})
  <2>1. Cardinality(R) \in Nat /\ Cardinality(D) \in Nat /\ IsFiniteSet(D) /\ Attempted(c) \in Nat
    BY EndingFinite DEF Attempted
  <2>2. R \subseteq D
    BY DEF Ending
  <2>3. Cardinality(R) <= Cardinality(D)
    BY <2>1, <2>2, FS_Subset
  <2>4. QED
    BY <2>1, <2>3 DEF Complete, Healthy, Answered, Fetched, Definitive
<1>2. IInv => VerdictsAgree
  BY <1>1 DEF IInv, Accounted, Account, VerdictsAgree
<1>3. QED
  BY <1>2, InvariantIInv, PTL

\* collect_complete = 1 means what it says: everything the configuration covers
\* and the registry holds is measured, and every detailed name the source could
\* hold is decided (account.go:113-125).
THEOREM CompleteMissesNothingAlways == Spec => []CompleteMissesNothing
<1>1. IInv => CompleteMissesNothing
  <2> SUFFICES ASSUME IInv, phase = "published", NEW s \in cycle.complete
               PROVE  /\ {i.name : i \in {i \in cycle.images : i.source = s}}
                           = {n \in exists[s] : Covered(s, n)}
                      /\ {q.name : q \in {q \in cycle.presence : q.source = s}}
                           = {n \in DetailedNames : Covered(s, n) /\ n \in Population(s)}
    BY DEF CompleteMissesNothing
  <2> DEFINE c == results[s]
  <2>1. s \in Invoked(Len(Active)) /\ Complete(s, c) /\ cycle = Account
    BY DEF IInv, Accounted, Account
  <2>2. s \in Registries /\ Whole(s, exists[s], c) /\ exists[s] \in SUBSET Names
    BY <2>1, InvokedRegistries DEF IInv, Accounted
  <2>3. DetailedNames \subseteq Names
    BY CollectAssumption, ContractAssumption, InvokedRegistries, SMTT(30) DEF DetailedNames, SeenNames, Entries, Ending
  <2>4. {i \in cycle.images : i.source = s} = Images(s, c)
    BY <2>1 DEF Account, Images
  <2>5. {q \in cycle.presence : q.source = s} = Presence(s, c)
    BY <2>1 DEF Account, Presence
  <2>6. {i.name : i \in Images(s, c)} = Entries(c)
    <3>1. ASSUME NEW i \in Images(s, c) PROVE i.name \in Entries(c)
      BY DEF Images
    <3>2. ASSUME NEW n \in Entries(c) PROVE \E i \in Images(s, c) : i.name = n
      <4> DEFINE i == [source |-> s, name |-> n, detailed |-> n \in DetailedNames]
      <4>1. i \in Images(s, c) /\ i.name = n
        BY DEF Images
      <4>2. QED
        BY <4>1
    <3>3. QED
      BY <3>1, <3>2
  <2>7. Entries(c) = {n \in exists[s] : Covered(s, n)}
    BY <2>1, <2>2, WholeIsTrue, CompleteIsTotal DEF Entries, Ending
  <2>8. {q.name : q \in Presence(s, c)} =
          {n \in DetailedNames : n \in Population(s) /\ (n \in Entries(c) \/ Missing(s, c, n))}
    <3> DEFINE P == {n \in DetailedNames :
                        n \in Population(s) /\ (n \in Entries(c) \/ Missing(s, c, n))}
    <3>1. P = {m \in DetailedNames : /\ ~(s = DockerHub /\ m \in Nested)
                                     /\ m \in Entries(c) \/ Missing(s, c, m)}
      BY <2>3 DEF Population
    <3>2. ASSUME NEW q \in Presence(s, c) PROVE q.name \in P
      BY <3>1 DEF Presence
    <3>3. ASSUME NEW n \in P PROVE \E q \in Presence(s, c) : q.name = n
      <4> DEFINE q == [source |-> s, name |-> n, present |-> n \in Entries(c)]
      <4>1. q \in Presence(s, c)
        BY <3>1 DEF Presence
      <4>2. QED
        BY <4>1
    <3>4. QED
      BY <3>2, <3>3
  <2>9. \A n \in Names : Covered(s, n) <=> n \in Entries(c) \/ Missing(s, c, n)
    BY <2>1, <2>2, WholeIsTrue, CompleteIsTotal
  <2>10. QED
    BY <2>3, <2>4, <2>5, <2>6, <2>7, <2>8, <2>9
<1>2. QED
  BY <1>1, InvariantIInv, PTL

\* Of two images of one cycle, the detailed one comes first in the byte
\* order, whichever registries they are from (account.go:13-18).
THEOREM DetailFollowsRankAlways == Spec => []DetailFollowsRank
<1>1. IInv /\ CycleOfResults => DetailFollowsRank
  <2> SUFFICES ASSUME IInv, CycleOfResults,
                      NEW i \in cycle.images, NEW j \in cycle.images,
                      i.detailed, ~j.detailed
               PROVE  Rank[i.name] < Rank[j.name]
    BY DEF DetailFollowsRank
  <2>1. ASSUME NEW q \in cycle.images
        PROVE  /\ q.name \in SeenNames
               /\ q.detailed <=> q.name \in DetailedNames
    <3>1. PICK s \in Invoked(Len(Active)) : q \in Images(s, results[s])
      BY DEF CycleOfResults, NoCycle, Account
    <3>2. PICK n \in Entries(results[s]) :
            q = [source |-> s, name |-> n, detailed |-> n \in DetailedNames]
      BY <3>1 DEF Images
    <3>3. n \in SeenNames
      BY <3>2 DEF SeenNames
    <3>4. QED
      BY <3>2, <3>3
  <2>2. WithinCap(i.name) /\ ~WithinCap(j.name)
    BY <2>1 DEF DetailedNames
  <2>3. i.name \in SeenNames /\ j.name \in SeenNames
    BY <2>1
  <2>4. Cardinality(Before(i.name)) < Cardinality(Before(j.name))
    <3>1. Cardinality(Before(i.name)) < DetailCap /\ ~(Cardinality(Before(j.name)) < DetailCap)
      BY <2>2 DEF WithinCap, Before
    <3>2. QED
      BY <3>1, SeenNamesFinite, CollectAssumption
  <2>5. Rank[i.name] \in Int /\ Rank[j.name] \in Int /\ i.name # j.name
    BY <2>3, <2>4, SeenNamesFinite, CollectAssumption
  <2>6. Rank[i.name] # Rank[j.name]
    BY <2>3, <2>5, SeenNamesFinite, CollectAssumption
  <2>7. ~(Rank[j.name] < Rank[i.name])
    BY <2>3, <2>4, BeforeFollowsRank, SeenNamesFinite
  <2>8. QED
    BY <2>5, <2>6, <2>7
<1>2. QED
  BY <1>1, InvariantIInv, InvariantCycleOfResults, PTL
\* The detail cap is exact in every published cycle: no more names than it
\* have detail series, and no image is left without while there is room
\* (account.go:13-18, account.go:80-104).
THEOREM CapIsExactAlways == Spec => []CapIsExact
<1>1. IInv => CapIsExact
  <2> SUFFICES ASSUME IInv, phase = "published"
               PROVE  /\ Cardinality(DetailedNames) <= DetailCap
                      /\ (\E s \in Registries : cycle.omitted[s] > 0)
                            => Cardinality(DetailedNames) = DetailCap
    BY DEF CapIsExact
  <2>1. ASSUME NEW s \in Registries, cycle.omitted[s] > 0 PROVE SeenNames # DetailedNames
    <3> DEFINE left == Entries(results[s]) \ DetailedNames
    <3>1. s \in Invoked(Len(Active)) /\ Cardinality(left) > 0
      BY <2>1 DEF IInv, Accounted, Account, Omitted
    <3>2. PICK n : n \in left
      BY <3>1, FS_EmptySet
    <3>3. n \in SeenNames
      BY <3>1, <3>2 DEF SeenNames
    <3>4. QED
      BY <3>2, <3>3
  <2>2. QED
    BY <2>1, DetailedNamesFillCap
<1>2. QED
  BY <1>1, InvariantIInv, PTL

=============================================================================
