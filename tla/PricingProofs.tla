--------------------------- MODULE PricingProofs ---------------------------
(***************************************************************************)
(* Proofs about Pricing: the agent leaves the deal desk what it is, and a   *)
(* price rests on enough price samples, and on enough freights if status    *)
(* requests do not overlap, however many runs price the same matches.       *)
(***************************************************************************)
EXTENDS Pricing, DealDeskProofs, FiniteSetTheorems, FunctionTheorems

\* The deal desk with the pricing agent around it is the deal desk.
THEOREM PricesDealDesk == PricingSpec => Spec
<1>1. PricingInit => Init
  BY DEF PricingInit
<1>2. [PricingNext]_<<vars, pricing>> => [Next]_vars
  BY DEF PricingNext, MatchMoves, MarketGrows, StartRun, Suggest, CommitRun, AbortRun
<1>3. QED
  BY <1>1, <1>2, PTL DEF PricingSpec, Spec

-----------------------------------------------------------------------------
(* Types.                                                                  *)

\* A run that is not idle is at work.
LEMMA RunKind ==
  ASSUME PricingTypeOK, NEW a \in Runs
  PROVE  /\ run[a] # Idle <=> run[a].at = "llm"
         /\ run[a] # Idle => run[a] \in Working
BY DEF PricingTypeOK, Working, Idle

\* An answer is of the match that was asked for.
LEMMA AnswersType ==
  ASSUME NEW n, NEW m \in Matches, NEW answers \in Answers(n, m)
  PROVE  answers \subseteq {m} /\ (answers # {} => Enough(n))
BY DEF Answers

\* Every step keeps the types.
LEMMA NextPricingType ==
  PricingTypeOK /\ [PricingNext]_<<vars, pricing>> => PricingTypeOK'
<1> SUFFICES ASSUME PricingTypeOK, [PricingNext]_<<vars, pricing>> PROVE PricingTypeOK'
  OBVIOUS
<1>1. ASSUME NEW m \in Matches,
             MarketGrows(m) \/ \E s \in {"open", "decided"} : MatchMoves(m, s)
      PROVE  PricingTypeOK'
  BY <1>1, PricingAssumption DEF MarketGrows, MatchMoves, PricingTypeOK
<1>2. ASSUME NEW a \in Runs, StartRun(a) PROVE PricingTypeOK'
  <2> DEFINE todo == {m \in Matches : match[m] = "open" /\ m \notin suggested}
  <2>1. [at |-> "llm", todo |-> todo, answered |-> {}] \in Working
    BY DEF Working
  <2>2. QED
    BY <1>2, <2>1 DEF StartRun, PricingTypeOK
<1>3. ASSUME NEW a \in Runs, CommitRun(a) \/ AbortRun(a) PROVE PricingTypeOK'
  BY <1>3, RunKind DEF CommitRun, AbortRun, PricingTypeOK, Working, Idle
<1>4. ASSUME NEW a \in Runs, NEW m \in Matches, Suggest(a, m) PROVE PricingTypeOK'
  <2>1. PICK recent \in 0..Found(m) : \E answers \in Answers(recent, m) :
               run' = [run EXCEPT ![a] = [at |-> "llm", todo |-> run[a].todo \ {m},
                                          answered |-> run[a].answered \cup answers]]
    BY <1>4 DEF Suggest
  <2>2. PICK answers \in Answers(recent, m) :
               run' = [run EXCEPT ![a] = [at |-> "llm", todo |-> run[a].todo \ {m},
                                          answered |-> run[a].answered \cup answers]]
    BY <2>1
  <2>3. run[a] \in Working /\ answers \subseteq Matches
    BY <1>4, RunKind, AnswersType DEF Suggest
  <2>4. [at |-> "llm", todo |-> run[a].todo \ {m}, answered |-> run[a].answered \cup answers]
          \in Working
    BY <2>3 DEF Working
  <2>5. QED
    BY <1>4, <2>2, <2>4 DEF Suggest, PricingTypeOK
<1>5. CASE UNCHANGED pricing
  BY <1>5 DEF pricing, PricingTypeOK
<1>6. QED
  BY <1>1, <1>2, <1>3, <1>4, <1>5 DEF PricingNext

\* The agent's runs, the matches it prices and the samples it reads keep their shape.
THEOREM PricingTypeCorrect == PricingSpec => []PricingTypeOK
<1>1. PricingInit => PricingTypeOK
  BY PricingAssumption DEF PricingInit, PricingTypeOK
<1>2. QED
  BY <1>1, NextPricingType, PTL DEF PricingSpec

-----------------------------------------------------------------------------
(* A price rests on enough rows, whether or not status requests overlap.   *)

\* The rows that one set of deals has left are finitely many.
LEMMA RowsFinite ==
  ASSUME NEW left \in [Deals -> Nat], NEW m \in Matches
  PROVE  IsFiniteSet(UNION {{d} \X (1..left[d]) : d \in Comparable[m]})
<1> DEFINE rowsOf == [d \in Comparable[m] |-> {d} \X (1..left[d])]
           families == {{d} \X (1..left[d]) : d \in Comparable[m]}
<1>1. Comparable[m] \subseteq Deals /\ IsFiniteSet(Comparable[m])
  <2>1. Comparable[m] \in SUBSET Deals /\ IsFiniteSet(Deals)
    BY PricingAssumption
  <2>2. QED
    BY <2>1, FS_Subset
<1>2. rowsOf \in Surjection(Comparable[m], families)
  BY DEF Surjection
<1>3. IsFiniteSet(families)
  BY <1>1, <1>2, FS_Surjection
<1>4. ASSUME NEW F \in families PROVE IsFiniteSet(F)
  <2>1. PICK d \in Comparable[m] : F = {d} \X (1..left[d])
    OBVIOUS
  <2>2. IsFiniteSet({d}) /\ left[d] \in Nat
    BY <1>1, FS_Singleton
  <2>3. IsFiniteSet(1..left[d])
    BY <2>2, FS_Interval
  <2>4. QED
    BY <2>1, <2>2, <2>3, FS_Product
<1>5. QED
  BY <1>3, <1>4, FS_UNION

\* No row goes away.
LEMMA FoundGrows ==
  ASSUME TypeOK, PricingTypeOK, [PricingNext]_<<vars, pricing>>, NEW m \in Matches
  PROVE  /\ Found(m) \in Nat /\ Found(m)' \in Nat
         /\ Found(m) <= Found(m)'
<1>1. [Next]_vars /\ market[m] \in Nat /\ market'[m] \in Nat /\ market[m] <= market'[m]
  <2>1. [Next]_vars
    BY DEF PricingNext, MatchMoves, MarketGrows, StartRun, Suggest, CommitRun, AbortRun
  <2>2. market[m] \in Nat /\ market'[m] \in Nat
    BY NextPricingType, PricingAssumption DEF PricingTypeOK
  <2>3. market[m] <= market'[m]
    BY <2>2 DEF PricingNext, MatchMoves, MarketGrows, StartRun, Suggest, CommitRun, AbortRun,
                pricing, PricingTypeOK
  <2>4. QED
    BY <2>1, <2>2, <2>3
<1>2. TypeOK'
  BY <1>1, NextType
<1>3. IsFiniteSet(Rows(m)) /\ IsFiniteSet(Rows(m)')
  BY <1>2, RowsFinite DEF TypeOK, Rows
<1>4. Rows(m) \subseteq Rows(m)'
  <2>1. SUFFICES ASSUME NEW d \in Comparable[m], NEW i \in 1..samples[d] PROVE i \in 1..samples'[d]
    BY DEF Rows
  <2>2. d \in Deals
    BY PricingAssumption
  <2>3. samples[d] \in Nat /\ samples'[d] \in Nat /\ samples[d] <= samples'[d]
    BY <1>1, <2>2, SamplesGrow
  <2>4. QED
    BY <2>3
<1>5. /\ Cardinality(Rows(m)) \in Nat /\ Cardinality(Rows(m)') \in Nat
      /\ Cardinality(Rows(m)) <= Cardinality(Rows(m)')
  BY <1>3, <1>4, FS_Subset, FS_CardinalityType
<1>6. QED
  BY <1>1, <1>5 DEF Found

\* The strengthening: what a run will commit rests on enough rows already.
RowsBacked ==
  /\ PriceRestsOnRows
  /\ \A a \in Runs : run[a] # Idle => \A m \in run[a].answered : Found(m) >= MinSamples

\* Every step keeps that.
LEMMA NextRowsBacked ==
  TypeOK /\ PricingTypeOK /\ RowsBacked /\ [PricingNext]_<<vars, pricing>> => RowsBacked'
<1> SUFFICES ASSUME TypeOK, PricingTypeOK, RowsBacked, [PricingNext]_<<vars, pricing>>
             PROVE  RowsBacked'
  OBVIOUS
<1>1. ASSUME NEW m \in Matches, Found(m) >= MinSamples PROVE Found(m)' >= MinSamples
  BY <1>1, FoundGrows, PricingAssumption
<1>2. suggested \subseteq Matches /\ \A a \in Runs : run[a] # Idle => run[a].answered \subseteq Matches
  BY RunKind DEF PricingTypeOK, Working
<1>3. CASE UNCHANGED <<suggested, run>>
  BY <1>1, <1>2, <1>3 DEF RowsBacked, PriceRestsOnRows
<1>4. ASSUME NEW a \in Runs, StartRun(a) PROVE RowsBacked'
  <2>1. /\ suggested' = suggested
        /\ run'[a].answered = {}
        /\ \A b \in Runs : b # a => run'[b] = run[b]
    BY <1>4 DEF StartRun, PricingTypeOK
  <2>2. QED
    BY <1>1, <1>2, <2>1 DEF RowsBacked, PriceRestsOnRows
<1>5. ASSUME NEW a \in Runs, CommitRun(a) PROVE RowsBacked'
  <2>1. /\ suggested' = suggested \cup run[a].answered
        /\ run[a] # Idle /\ \A b \in Runs : run'[b] = Idle \/ run'[b] = run[b]
    BY <1>5, RunKind DEF CommitRun, PricingTypeOK
  <2>2. QED
    BY <1>1, <1>2, <2>1 DEF RowsBacked, PriceRestsOnRows
<1>6. ASSUME NEW a \in Runs, AbortRun(a) PROVE RowsBacked'
  <2>1. suggested' = suggested /\ \A b \in Runs : run'[b] = Idle \/ run'[b] = run[b]
    BY <1>6 DEF AbortRun, PricingTypeOK
  <2>2. QED
    BY <1>1, <1>2, <2>1 DEF RowsBacked, PriceRestsOnRows
<1>7. ASSUME NEW a \in Runs, NEW m \in Matches, Suggest(a, m) PROVE RowsBacked'
  <2>1. PICK recent \in 0..Found(m) : \E answers \in Answers(recent, m) :
               run' = [run EXCEPT ![a] = [at |-> "llm", todo |-> run[a].todo \ {m},
                                          answered |-> run[a].answered \cup answers]]
    BY <1>7 DEF Suggest
  <2>2. PICK answers \in Answers(recent, m) :
               run' = [run EXCEPT ![a] = [at |-> "llm", todo |-> run[a].todo \ {m},
                                          answered |-> run[a].answered \cup answers]]
    BY <2>1
  <2>3. answers \subseteq {m} /\ (answers # {} => recent >= MinSamples)
    BY AnswersType DEF Enough
  <2>4. answers # {} => Found(m) >= MinSamples
    BY <2>3, FoundGrows, PricingAssumption
  <2>5. /\ suggested' = suggested /\ run[a] # Idle
        /\ run'[a].answered = run[a].answered \cup answers
        /\ \A b \in Runs : b # a => run'[b] = run[b]
    BY <1>7, <2>2, RunKind DEF Suggest, PricingTypeOK
  <2>6. QED
    BY <1>1, <1>2, <2>3, <2>4, <2>5 DEF RowsBacked, PriceRestsOnRows
<1>8. QED
  BY <1>3, <1>4, <1>5, <1>6, <1>7 DEF PricingNext, MarketGrows, MatchMoves, pricing

\* However many runs, deliveries and stale status requests overlap, a price rests on at
\* least MinSamples rows.
THEOREM PricedOnRows == PricingSpec => []PriceRestsOnRows
<1>1. PricingInit => RowsBacked
  BY DEF PricingInit, RowsBacked, PriceRestsOnRows
<1>2. RowsBacked => PriceRestsOnRows
  BY DEF RowsBacked
<1>3. QED
  BY <1>1, <1>2, NextRowsBacked, PricesDealDesk, TypeCorrect, PricingTypeCorrect, PTL DEF PricingSpec

-----------------------------------------------------------------------------
(* A price rests on enough freights if status requests do not overlap.     *)

\* Where no deal has left more than one sample, every row is of a freight of its own.
LEMMA RowsAreFreights ==
  ASSUME TypeOK, PricingTypeOK, OneSample, SampleIffDelivered, NEW m \in Matches
  PROVE  /\ Found(m) \in Nat /\ Cardinality(Freights(m)) + market[m] \in Nat
         /\ Found(m) <= Cardinality(Freights(m)) + market[m]
<1> DEFINE dealOf == [x \in Rows(m) |-> x[1]]
<1>1. Comparable[m] \subseteq Deals /\ IsFiniteSet(Comparable[m])
  <2>1. Comparable[m] \in SUBSET Deals /\ IsFiniteSet(Deals)
    BY PricingAssumption
  <2>2. QED
    BY <2>1, FS_Subset
<1>2. IsFiniteSet(Freights(m))
  <2>1. Freights(m) \in SUBSET Comparable[m]
    BY DEF Freights
  <2>2. QED
    BY <1>1, <2>1, FS_Subset
<1>3. ASSUME NEW x \in Rows(m) PROVE x[1] \in Freights(m) /\ x = <<x[1], 1>>
  <2>1. PICK d \in Comparable[m] : x \in {d} \X (1..samples[d])
    BY DEF Rows
  <2>2. PICK i \in 1..samples[d] : x = <<d, i>>
    BY <2>1
  <2>3. samples[d] \in Nat /\ samples[d] <= 1
    BY <1>1 DEF OneSample, TypeOK
  <2>4. i = 1 /\ samples[d] > 0
    BY <2>2, <2>3
  <2>5. QED
    BY <1>1, <2>2, <2>4 DEF SampleIffDelivered, Freights
<1>4. dealOf \in Injection(Rows(m), Freights(m))
  <2>1. \A x, y \in Rows(m) : x[1] = y[1] => x = y
    BY <1>3
  <2>2. dealOf \in [Rows(m) -> Freights(m)]
    BY <1>3
  <2>3. \A x, y \in Rows(m) : dealOf[x] = dealOf[y] => x = y
    BY <2>1
  <2>4. QED
    BY <2>2, <2>3, Fun_IsInj
<1>5. IsFiniteSet(Rows(m)) /\ Cardinality(Rows(m)) <= Cardinality(Freights(m))
  BY <1>2, <1>4, FS_Injection
<1>6. Cardinality(Rows(m)) \in Nat /\ Cardinality(Freights(m)) \in Nat /\ market[m] \in Nat
  BY <1>2, <1>5, FS_CardinalityType, PricingAssumption DEF PricingTypeOK
<1>7. QED
  BY <1>5, <1>6 DEF Found

\* With status requests one at a time, a price rests on at least MinSamples different
\* freights, however many pricing runs overlap with them and with one another.
THEOREM PricedOnFreights == ASSUME OneAtATime PROVE PricingSpec => []PriceRestsOnFreights
<1>1. TypeOK /\ PricingTypeOK /\ OneSample /\ SampleIffDelivered /\ PriceRestsOnRows
        => PriceRestsOnFreights
  <2> SUFFICES ASSUME TypeOK, PricingTypeOK, OneSample, SampleIffDelivered, PriceRestsOnRows,
                      NEW m \in suggested
               PROVE  Cardinality(Freights(m)) + market[m] >= MinSamples
    BY DEF PriceRestsOnFreights
  <2>1. m \in Matches
    BY DEF PricingTypeOK
  <2>2. Found(m) >= MinSamples
    BY DEF PriceRestsOnRows
  <2>3. QED
    BY <2>1, <2>2, RowsAreFreights, PricingAssumption
<1>2. QED
  BY <1>1, PricesDealDesk, TypeCorrect, PricingTypeCorrect, SerialSample, DealInvariant,
     PricedOnRows, PTL
=============================================================================
