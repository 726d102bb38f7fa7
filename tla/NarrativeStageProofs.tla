------------------------- MODULE NarrativeStageProofs -------------------------
(***************************************************************************)
(* Theorems about NarrativeStage, for every configuration, set of plans    *)
(* and of answers: the tournament keeps the best plan, no call is left out *)
(* of the books, all prompts of the stage have one target, and a claim the *)
(* merger cites is cited in the end.                                       *)
(***************************************************************************)
EXTENDS NarrativeStage, FiniteSetTheorems, FunctionTheorems, SequenceTheorems, WellFoundedInduction, TLAPS

(***************************************************************************)
(* Sums.  A fold is a function over the subsets that picks one element     *)
(* after the other; it exists level by level, up to the size of the set.   *)
(***************************************************************************)
LEMMA LeastNumber ==
  ASSUME NEW S \in SUBSET Nat, S # {}
  PROVE  \E m \in S : \A k \in S : m <= k
<1>1. PICK m \in S : \A k \in S : ~(<<k, m>> \in OpToRel(<, Nat))
  BY WFMin, NatLessThanWellFounded, Zenon
<1>2. \A k \in S : ~(k < m)
  BY <1>1, Zenon DEF OpToRel
<1>3. QED
  BY <1>2

AnyOf(s) == CHOOSE x \in s : TRUE
Below(D, n) == {s \in SUBSET D : Cardinality(s) <= n}
Sums(sets, points, g) ==
  g = [s \in sets |-> IF s = {} THEN 0 ELSE g[s \ {AnyOf(s)}] + points[AnyOf(s)]]
SumsUpTo(D, points, n) == \E g : Sums(Below(D, n), points, g)

LEMMA OneLess ==
  ASSUME NEW D, IsFiniteSet(D), NEW n \in Nat, NEW s \in Below(D, n + 1), s # {}
  PROVE  AnyOf(s) \in s /\ s \ {AnyOf(s)} \in Below(D, n) 
<1>1. AnyOf(s) \in s
  BY DEF AnyOf
<1>2. IsFiniteSet(s)
  BY FS_Subset DEF Below
<1>3. Cardinality(s \ {AnyOf(s)}) = Cardinality(s) - 1 /\ Cardinality(s) \in Nat
  BY <1>1, <1>2, FS_RemoveElement, FS_CardinalityType
<1>4. QED
  BY <1>1, <1>3 DEF Below

LEMMA SumsExist ==
  ASSUME NEW D, IsFiniteSet(D), NEW points, NEW n \in Nat
  PROVE  SumsUpTo(D, points, n)
<1>1. SumsUpTo(D, points, 0)
  <2> DEFINE g == [s \in Below(D, 0) |-> 0]
  <2>1. \A s \in Below(D, 0) : s = {}
    <3> SUFFICES ASSUME NEW s \in Below(D, 0) PROVE s = {}
      OBVIOUS
    <3>1. IsFiniteSet(s) /\ Cardinality(s) <= 0
      BY FS_Subset DEF Below
    <3>2. QED
      BY <3>1, FS_EmptySet, FS_CardinalityType
  <2>2. g = [s \in Below(D, 0) |-> IF s = {} THEN 0 ELSE g[s \ {AnyOf(s)}] + points[AnyOf(s)]]
    BY <2>1
  <2>3. QED
    BY <2>2 DEF SumsUpTo, Sums
<1>2. ASSUME NEW k \in Nat, SumsUpTo(D, points, k)
      PROVE  SumsUpTo(D, points, k + 1)
  <2>1. PICK g : g = [s \in Below(D, k) |-> IF s = {} THEN 0 ELSE g[s \ {AnyOf(s)}] + points[AnyOf(s)]]
    BY <1>2 DEF SumsUpTo, Sums
  <2> DEFINE h == [s \in Below(D, k + 1) |-> IF s = {} THEN 0 ELSE g[s \ {AnyOf(s)}] + points[AnyOf(s)]]
  <2>2. Below(D, k) \subseteq Below(D, k + 1)
    <3> SUFFICES ASSUME NEW s \in Below(D, k) PROVE s \in Below(D, k + 1)
      OBVIOUS
    <3>1. Cardinality(s) \in Nat
      BY FS_Subset, FS_CardinalityType DEF Below
    <3>2. QED
      BY <3>1 DEF Below
  <2>3. \A s \in Below(D, k) : h[s] = g[s]
    BY <2>1, <2>2
  <2>4. \A s \in Below(D, k + 1) : s # {} => g[s \ {AnyOf(s)}] = h[s \ {AnyOf(s)}]
    BY <2>3, OneLess
  <2>5. h = [s \in Below(D, k + 1) |-> IF s = {} THEN 0 ELSE h[s \ {AnyOf(s)}] + points[AnyOf(s)]]
    BY <2>4
  <2>6. QED
    BY <2>5 DEF SumsUpTo, Sums
<1> DEFINE Bad == {k \in Nat : ~SumsUpTo(D, points, k)}
<1>3. Bad = {}
  <2> SUFFICES ASSUME Bad # {} PROVE FALSE
    OBVIOUS
  <2>1. PICK m \in Bad : \A k \in Bad : m <= k
    BY LeastNumber
  <2>2. m \in Nat /\ m # 0
    BY <1>1
  <2>3. m - 1 \in Nat /\ m - 1 \notin Bad
    BY <2>1, <2>2
  <2>4. SumsUpTo(D, points, (m - 1) + 1)
    BY <2>3, <1>2
  <2>5. QED
    BY <2>2, <2>4
<1>4. QED
  BY <1>3

LEMMA SumOverSteps ==
  ASSUME NEW D, IsFiniteSet(D), NEW points
  PROVE  \E g : SumOver(D, points) = g[D] /\ Sums(SUBSET D, points, g)
<1> DEFINE n == Cardinality(D)
           g == CHOOSE f : Sums(SUBSET D, points, f)
<1>1. n \in Nat /\ Below(D, n) = SUBSET D
  BY FS_CardinalityType, FS_Subset DEF Below
<1>2. SumsUpTo(D, points, n)
  BY <1>1, SumsExist
<1>3. Sums(SUBSET D, points, g)
  BY <1>1, <1>2 DEF SumsUpTo
<1>4. SumOver(D, points) = g[D]
  BY DEF SumOver, FoldSet, MapThenFoldSet, AnyOf, Sums
<1>5. QED
  BY <1>3, <1>4

LEMMA SumOverType ==
  ASSUME NEW D, IsFiniteSet(D), NEW points, \A d \in D : points[d] \in Int
  PROVE  /\ SumOver(D, points) \in Int
         /\ D # {} /\ (\A d \in D : points[d] > 0) => SumOver(D, points) > 0
<1>1. PICK g : SumOver(D, points) = g[D] /\ Sums(SUBSET D, points, g)
  BY SumOverSteps
<1>2. \A s \in SUBSET D : g[s] = IF s = {} THEN 0 ELSE g[s \ {AnyOf(s)}] + points[AnyOf(s)]
  BY <1>1 DEF Sums
<1> DEFINE Fine(s) == /\ g[s] \in Int
                      /\ s = {} => g[s] = 0
                      /\ (\A d \in D : points[d] > 0) /\ s # {} => g[s] > 0
           Bad == {s \in SUBSET D : ~Fine(s)}
<1>3. Bad = {}
  <2> SUFFICES ASSUME Bad # {} PROVE FALSE
    OBVIOUS
  <2>1. PICK s \in Bad : \A t \in Bad : ~(<<t, s>> \in StrictSubsetOrdering(D))
    BY WFMin, FS_StrictSubsetOrderingWellFounded, FS_FiniteSubsetsOfFinite, Zenon
  <2>2. CASE s = {}
    <3>1. g[s] = 0
      BY <2>2, <1>2
    <3>2. QED
      BY <2>2, <3>1
  <2>3. CASE s # {}
    <3> DEFINE x == AnyOf(s)
               t == s \ {x}
    <3>1. x \in s
      BY <2>3 DEF AnyOf
    <3>2. g[s] = g[t] + points[x] /\ points[x] \in Int
      BY <1>2, <2>3, <3>1
    <3>3. t \in SUBSET D /\ <<t, s>> \in StrictSubsetOrdering(D)
      BY <3>1 DEF StrictSubsetOrdering
    <3>4. Fine(t)
      BY <2>1, <3>3
    <3>5. Fine(s)
      BY <2>3, <3>1, <3>2, <3>4
    <3>6. QED
      BY <3>5
  <2>4. QED
    BY <2>2, <2>3
<1>4. Fine(D)
  BY <1>3
<1>5. QED
  BY <1>1, <1>4
-----------------------------------------------------------------------------
(***************************************************************************)
(* The order of candidates.                                                *)
(***************************************************************************)
Fraction == [num : Int, den : Nat \ {0}]
Nothing  == [num |-> 0, den |-> 1]
Keys     == {k \in [valid : BOOLEAN, total : Fraction] : k.total = Nothing \/ k.total.num > 0}

LEMMA ProductsCancel ==
  ASSUME NEW m \in Int, NEW n \in Int, NEW d \in Nat \ {0}, m * d <= n * d
  PROVE  m <= n
  OBVIOUS

LEMMA ProductsGrow ==
  ASSUME NEW m \in Int, NEW n \in Int, NEW d \in Nat \ {0}, m <= n
  PROVE  m * d <= n * d
  OBVIOUS

\* a/b <= c/d <= e/f
LEMMA FractionsTransitive ==
  ASSUME NEW a \in Int, NEW b \in Nat \ {0}, NEW c \in Int, NEW d \in Nat \ {0}, NEW e \in Int,
         NEW f \in Nat \ {0}, a * d <= c * b, c * f <= e * d
  PROVE  a * f <= e * b
<1>1. (a * d) * f <= (c * b) * f
  BY ProductsGrow
<1>2. (c * f) * b <= (e * d) * b
  BY ProductsGrow
<1>3. (a * d) * f = (a * f) * d /\ (c * b) * f = (c * f) * b /\ (e * d) * b = (e * b) * d
  OBVIOUS
<1>4. (a * f) * d <= (e * b) * d
  BY <1>1, <1>2, <1>3
<1>5. QED
  BY <1>4, ProductsCancel

LEMMA AboveTransitive ==
  ASSUME NEW t \in Fraction, NEW u \in Fraction, NEW v \in Fraction, ~Above(t, u), ~Above(u, v)
  PROVE  ~Above(t, v)
<1>1. t.num * u.den <= u.num * t.den /\ u.num * v.den <= v.num * u.den
  BY DEF Above, Fraction
<1>2. t.num * v.den <= v.num * t.den
  BY <1>1, FractionsTransitive DEF Fraction
<1>3. QED
  BY <1>2 DEF Above, Fraction

LEMMA AboveAntisymmetric ==
  ASSUME NEW t \in Fraction, NEW u \in Fraction, Above(t, u)
  PROVE  ~Above(u, t)
  BY DEF Above, Fraction

\* What is no better than one that is no better than a third is no better than that.
LEMMA NoBetterTransitive ==
  ASSUME NEW e \in Keys, NEW f \in Keys, NEW g \in Keys, ~BetterKey(e, f), ~BetterKey(f, g)
  PROVE  ~BetterKey(e, g)
<1>1. e.total \in Fraction /\ f.total \in Fraction /\ g.total \in Fraction
  BY DEF Keys
<1>2. ~Above(e.total, f.total) /\ ~Above(f.total, g.total) => ~Above(e.total, g.total)
  BY <1>1, AboveTransitive
<1>3. QED
  BY <1>2 DEF BetterKey, Keys

LEMMA BetterAntisymmetric ==
  ASSUME NEW e \in Keys, NEW f \in Keys, BetterKey(e, f)
  PROVE  ~BetterKey(f, e)
  BY AboveAntisymmetric DEF BetterKey, Keys

LEMMA BestOfMany ==
  ASSUME NEW n \in Nat \ {0}, NEW keys \in [1 .. n -> Keys]
  PROVE  \E i \in 1 .. n : \A j \in 1 .. n : ~BetterKey(keys[j], keys[i])
<1> DEFINE HasBest(m) == \E i \in 1 .. m : \A j \in 1 .. m : ~BetterKey(keys[j], keys[i])
           Bad == {m \in 1 .. n : ~HasBest(m)}
<1>1. HasBest(1)
  <2>1. keys[1] \in Keys
    OBVIOUS
  <2>2. ~BetterKey(keys[1], keys[1])
    BY <2>1, BetterAntisymmetric
  <2>3. QED
    BY <2>2
<1>2. ASSUME NEW m \in 1 .. n, m # n, HasBest(m)
      PROVE  HasBest(m + 1)
  <2>1. PICK i \in 1 .. m : \A j \in 1 .. m : ~BetterKey(keys[j], keys[i])
    BY <1>2
  <2>2. /\ keys[m + 1] \in Keys /\ keys[i] \in Keys
        /\ \A j \in 1 .. m : keys[j] \in Keys
    <3>1. m \in Nat /\ n \in Nat /\ 1 <= m /\ m < n
      BY <1>2
    <3>2. m + 1 \in 1 .. n /\ i \in 1 .. n /\ \A j \in 1 .. m : j \in 1 .. n
      BY <3>1
    <3>3. QED
      BY <3>2
  <2>3. CASE BetterKey(keys[m + 1], keys[i])
    <3>1. ~BetterKey(keys[i], keys[m + 1]) /\ ~BetterKey(keys[m + 1], keys[m + 1])
      BY <2>2, <2>3, BetterAntisymmetric
    <3>2. \A j \in 1 .. m : ~BetterKey(keys[j], keys[m + 1])
      BY <2>1, <2>2, <3>1, NoBetterTransitive
    <3>3. QED
      BY <3>1, <3>2
  <2>4. CASE ~BetterKey(keys[m + 1], keys[i])
    BY <2>1, <2>4
  <2>5. QED
    BY <2>3, <2>4
<1> HIDE DEF HasBest
<1>3. Bad = {}
  <2> SUFFICES ASSUME Bad # {} PROVE FALSE
    OBVIOUS
  <2> HIDE DEF Bad
  <2>0. Bad \in SUBSET Nat
    BY DEF Bad
  <2>1. PICK m \in Bad : \A k \in Bad : m <= k
    BY <2>0, LeastNumber
  <2> USE DEF Bad
  <2>2. m # 1
    BY <1>1
  <2>3. m - 1 \in 1 .. n /\ m - 1 # n /\ m - 1 \notin Bad
    BY <2>1, <2>2
  <2>4. HasBest((m - 1) + 1)
    BY <1>2, <2>3
  <2>5. QED
    BY <2>4
<1>4. HasBest(n)
  BY <1>3
<1>5. QED
  BY <1>4 DEF HasBest

LEMMA BestPlaceIsBest ==
  ASSUME NEW n \in Nat \ {0}, NEW keys \in [1 .. n -> Keys]
  PROVE  /\ BestPlace(keys) \in 1 .. n
         /\ \A j \in 1 .. n : ~BetterKey(keys[j], keys[BestPlace(keys)])
<1> DEFINE Best == {i \in 1 .. n : \A j \in 1 .. n : ~BetterKey(keys[j], keys[i])}
<1>0. Best \in SUBSET Nat /\ Best # {}
  BY BestOfMany
<1> HIDE DEF Best
<1>1. PICK i \in Best : \A k \in Best : i <= k
  BY <1>0, LeastNumber
<1> USE DEF Best
<1>2. ASSUME NEW j \in 1 .. i - 1
      PROVE  BetterKey(keys[i], keys[j])
  <2>1. j \in 1 .. n /\ j \notin Best
    BY <1>1
  <2>2. PICK k \in 1 .. n : BetterKey(keys[k], keys[j])
    BY <2>1
  <2>3. ~BetterKey(keys[k], keys[i]) /\ keys[k] \in Keys /\ keys[i] \in Keys /\ keys[j] \in Keys
    BY <1>1, <2>1
  <2>4. QED
    BY <2>2, <2>3, NoBetterTransitive
<1>3. QED
  BY <1>1, <1>2 DEF BestPlace
-----------------------------------------------------------------------------
(***************************************************************************)
(* What the judges may answer, as keys of the order.                       *)
(***************************************************************************)
Score == {<<>>} \cup {<<n>> : n \in Nat \ {0}}

LEMMA LargerOfTwo ==
  ASSUME NEW a \in Int, NEW b \in Int
  PROVE  Max({a, b}) \in {a, b} /\ Min({a, b}) \in {a, b} /\ Max({a, b}) >= a
<1>1. \E x \in {a, b} : \A y \in {a, b} : x >= y
  OBVIOUS
<1>2. \E x \in {a, b} : \A y \in {a, b} : x <= y
  OBVIOUS
<1>3. QED
  BY <1>1, <1>2 DEF Max, Min

LEMMA ClampedIsScore ==
  ASSUME NEW n \in Int
  PROVE  Clamped(n) \in Score
<1>1. Min({5, n}) \in Int
  BY LargerOfTwo
<1>2. ASSUME NEW m \in Int PROVE Max({1, m}) \in Nat \ {0}
  <2>1. Max({1, m}) \in {1, m} /\ Max({1, m}) >= 1
    BY LargerOfTwo
  <2>2. QED
    BY <2>1
<1>3. QED
  BY <1>1, <1>2 DEF Clamped, Score

LEMMA FirstIsScore ==
  ASSUME NEW s \in Seq(1 .. 5)
  PROVE  First(s) \in Score
<1>1. s # <<>> => Head(s) \in 1 .. 5
  OBVIOUS
<1>2. QED
  BY <1>1 DEF First, Score

LEMMA ReadIsScore ==
  ASSUME NEW a \in JudgeAnswers
  PROVE  JudgeRead(a) \in Score
<1>1. a.number \in Seq(Int) /\ a.later \in Seq(Int) /\ a.text \in Seq(1 .. 5) /\ a.prose \in Seq(1 .. 5)
  BY PlanAssumption
<1>2. First(a.text) \in Score /\ First(a.prose) \in Score
  BY <1>1, FirstIsScore
<1>3. a.number # <<>> => Clamped(a.number[1]) \in Score
  BY <1>1, ClampedIsScore
<1>4. a.later # <<>> => Clamped(a.later[1]) \in Score
  BY <1>1, ClampedIsScore
<1>5. <<>> \in Score
  BY DEF Score
<1>6. QED
  BY <1>2, <1>3, <1>4, <1>5 DEF JudgeRead, Or

LEMMA WeightsOfPlan ==
  /\ DOMAIN PlanWeights = {"corpus_fit", "archetype_singularity", "focal_question_grip"}
  /\ IsFiniteSet(DOMAIN PlanWeights)
  /\ Cardinality(DOMAIN PlanWeights) = 3
  /\ \A d \in DOMAIN PlanWeights : PlanWeights[d] \in Int /\ PlanWeights[d] > 0
<1>1. DOMAIN PlanWeights = {"corpus_fit", "archetype_singularity", "focal_question_grip"}
  BY DEF PlanWeights
<1>2. IsFiniteSet({"corpus_fit"}) /\ Cardinality({"corpus_fit"}) = 1
  BY FS_Singleton
<1>3. /\ IsFiniteSet({"corpus_fit"} \cup {"archetype_singularity"})
      /\ Cardinality({"corpus_fit"} \cup {"archetype_singularity"}) = 2
  BY <1>2, FS_AddElement
<1>4. /\ IsFiniteSet({"corpus_fit"} \cup {"archetype_singularity"} \cup {"focal_question_grip"})
      /\ Cardinality({"corpus_fit"} \cup {"archetype_singularity"} \cup {"focal_question_grip"}) = 3
  BY <1>3, FS_AddElement
<1>5. {"corpus_fit", "archetype_singularity", "focal_question_grip"}
        = {"corpus_fit"} \cup {"archetype_singularity"} \cup {"focal_question_grip"}
  OBVIOUS
<1>6. \A d \in DOMAIN PlanWeights : PlanWeights[d] \in Int /\ PlanWeights[d] > 0
  BY DEF PlanWeights
<1>7. QED
  BY <1>1, <1>4, <1>5, <1>6

\* The weighted mean of what was scored is a fraction: no division by nothing.
LEMMA TotalIsFraction ==
  ASSUME NEW scores \in [DOMAIN PlanWeights -> Score]
  PROVE  /\ Total(scores, PlanWeights) \in Fraction
         /\ Total(scores, PlanWeights) = Nothing \/ Total(scores, PlanWeights).num > 0
<1> DEFINE heard  == Scored(scores)
           points == [d \in heard |-> scores[d][1] * PlanWeights[d]]
<1>1. heard \subseteq DOMAIN PlanWeights /\ IsFiniteSet(heard)
  BY WeightsOfPlan, FS_Subset DEF Scored
<1>2. \A d \in heard : scores[d][1] \in Nat \ {0}
  BY DEF Scored, Score
<1>3. \A d \in heard : PlanWeights[d] \in Int /\ PlanWeights[d] > 0
  BY <1>1, WeightsOfPlan
<1>4. \A d \in heard : points[d] \in Int /\ points[d] > 0
  <2>1. ASSUME NEW s \in Nat \ {0}, NEW w \in Int, w > 0 PROVE s * w \in Int /\ s * w > 0
    BY <2>1
  <2>2. QED
    BY <1>2, <1>3, <2>1
<1>5. CASE heard = {}
  BY <1>5 DEF Total, Fraction, Nothing
<1>6. CASE heard # {}
  <2> HIDE DEF heard, points
  <2>1. SumOver(heard, points) \in Int /\ SumOver(heard, points) > 0
    BY <1>1, <1>4, <1>6, SumOverType
  <2>2. SumOver(heard, PlanWeights) \in Int /\ SumOver(heard, PlanWeights) > 0
    BY <1>1, <1>3, <1>6, SumOverType
  <2>3. [num |-> SumOver(heard, points), den |-> SumOver(heard, PlanWeights)] \in Fraction
    BY <2>1, <2>2 DEF Fraction
  <2>4. Total(scores, PlanWeights) = [num |-> SumOver(heard, points), den |-> SumOver(heard, PlanWeights)]
    BY <1>6 DEF Total, heard, points
  <2>5. QED
    BY <2>1, <2>3, <2>4
<1>7. QED
  BY <1>5, <1>6

LEMMA KeyIsKey ==
  ASSUME NEW veto \in BOOLEAN, NEW scores \in [DOMAIN PlanWeights -> Score]
  PROVE  Key(veto, scores) \in Keys
<1>1. /\ Total(scores, PlanWeights) \in Fraction
      /\ Total(scores, PlanWeights) = Nothing \/ Total(scores, PlanWeights).num > 0
  BY TotalIsFraction
<1>2. ValidPlan(veto, scores) \in BOOLEAN
  BY DEF ValidPlan
<1>3. QED
  BY <1>1, <1>2 DEF Key, Keys

LEMMA EntrantsHaveKeys ==
  ASSUME NEW e \in Entrants
  PROVE  /\ e.key \in Keys /\ Judges(e) \in 0 .. 3
         /\ e.veto => e.key = Key(TRUE, NoScores)
<1>1. ScoresRead \subseteq Score
  BY ReadIsScore DEF ScoresRead, Score
<1>2. KeysJudged \subseteq Keys
  BY <1>1, KeyIsKey DEF KeysJudged
<1>3. Key(TRUE, NoScores) \in Keys
  <2>1. NoScores \in [DOMAIN PlanWeights -> Score]
    BY DEF NoScores, Score
  <2>2. QED
    BY <2>1, KeyIsKey
<1>4. \E raw \in Plans : \E key \in Keys :
        e = Entrant(raw, key) /\ (Vetoed(raw) => key = Key(TRUE, NoScores))
  BY <1>2, <1>3 DEF Entrants
<1>5. Judges(e) \in 0 .. 3
  BY WeightsOfPlan DEF Judges
<1>6. e.key \in Keys /\ (e.veto => e.key = Key(TRUE, NoScores))
  <2>1. PICK raw \in Plans, key \in Keys :
          e = Entrant(raw, key) /\ (Vetoed(raw) => key = Key(TRUE, NoScores))
    BY <1>4
  <2>2. e.key = key /\ e.veto = Vetoed(raw)
    BY <2>1 DEF Entrant
  <2>3. QED
    BY <2>1, <2>2
<1>7. QED
  BY <1>5, <1>6
-----------------------------------------------------------------------------
(***************************************************************************)
(* The tournament keeps the best.  While drafts come in, their keys are    *)
(* those of the entrants; afterwards nothing that was judged is better     *)
(* than the winner.                                                        *)
(***************************************************************************)
\* What is no better than a vetoed candidate was not scored either.
LEMMA OnlySilenceTies ==
  ASSUME NEW k \in Keys, ~BetterKey(k, Key(TRUE, NoScores))
  PROVE  k = Key(TRUE, NoScores)
<1>1. Scored(NoScores) = {}
  BY DEF Scored, NoScores
<1> DEFINE none == Key(TRUE, NoScores)
<1>2. none = [valid |-> FALSE, total |-> Nothing]
  BY <1>1 DEF Key, ValidPlan, Total, Nothing
<1>3. ~BetterKey(k, none) /\ k.valid \in BOOLEAN
  BY DEF Keys
<1> HIDE DEF none
<1>4. none.valid = FALSE /\ none.total = Nothing
  BY <1>2
<1>5. k.valid = FALSE /\ ~Above(k.total, Nothing)
  BY <1>3, <1>4 DEF BetterKey
<1>6. k.total.num \in Int /\ (k.total.num > 0 => Above(k.total, Nothing))
  BY DEF Keys, Fraction, Above, Nothing
<1>7. k.total = Nothing /\ k.valid = FALSE /\ k = [valid |-> k.valid, total |-> k.total]
  BY <1>5, <1>6 DEF Keys
<1>8. k = none
  BY <1>2, <1>7
<1>9. QED
  BY <1>8 DEF none

Beaten == /\ winner.key \in Keys /\ winner.key \in judged
          /\ \A k \in judged : ~BetterKey(k, winner.key)
          /\ winner.veto => winner.key = Key(TRUE, NoScores)

BestIInv ==
  /\ entrants \in Seq(Entrants) /\ judged \subseteq Keys
  /\ round = "draft" => winner = None /\ judged = {entrants[i].key : i \in DOMAIN entrants}
  /\ round = "redraft" \/ winner # None => Beaten

LEMMA BestInit == Init => BestIInv
<1> SUFFICES ASSUME Init PROVE BestIInv
  OBVIOUS
<1>1. round = "draft" /\ entrants = <<>> /\ winner = None /\ judged = {}
  BY DEF Init, PlanInit
<1>2. {entrants[i].key : i \in DOMAIN entrants} = {}
  BY <1>1
<1>3. QED
  BY <1>1, <1>2 DEF BestIInv

LEMMA BestDraft == BestIInv /\ DraftPlan => BestIInv'
<1> SUFFICES ASSUME BestIInv, DraftPlan PROVE BestIInv'
  OBVIOUS
<1>1. PICK e \in Entrants : entrants' = Append(entrants, e) /\ judged' = judged \cup {e.key}
  BY DEF DraftPlan
<1>2. round = "draft" /\ round' = round /\ winner' = winner /\ winner = None /\ entrants \in Seq(Entrants)
  BY DEF DraftPlan, BestIInv
<1>3. e.key \in Keys
  BY EntrantsHaveKeys
<1>4. entrants' \in Seq(Entrants) /\ judged' \subseteq Keys
  BY <1>1, <1>2, <1>3 DEF BestIInv
<1>5. judged' = {entrants'[i].key : i \in DOMAIN entrants'}
  <2>1. judged = {entrants[i].key : i \in DOMAIN entrants}
    BY <1>2 DEF BestIInv
  <2>2. /\ DOMAIN entrants' = DOMAIN entrants \cup {Len(entrants) + 1}
        /\ entrants'[Len(entrants) + 1] = e
        /\ \A i \in DOMAIN entrants : entrants'[i] = entrants[i]
    BY <1>1, <1>2
  <2>3. QED
    BY <1>1, <2>1, <2>2
<1>6. QED
  BY <1>2, <1>4, <1>5 DEF BestIInv

LEMMA BestSelect == BestIInv /\ Select => BestIInv'
<1> SUFFICES ASSUME BestIInv, Select PROVE BestIInv'
  OBVIOUS
<1> DEFINE keys == [i \in DOMAIN entrants |-> entrants[i].key]
           n == Len(entrants)
<1>1. /\ round' = "redraft" /\ entrants' = <<>> /\ judged' = judged /\ winner' = entrants[BestPlace(keys)]
      /\ entrants # <<>> /\ entrants \in Seq(Entrants)
      /\ judged = {entrants[i].key : i \in DOMAIN entrants}
  BY DEF Select, BestIInv
<1>2. n \in Nat \ {0} /\ DOMAIN entrants = 1 .. n
  BY <1>1
<1>3. \A i \in 1 .. n : entrants[i].key \in Keys
  <2>1. \A i \in 1 .. n : entrants[i] \in Entrants
    BY <1>1, <1>2
  <2>2. QED
    BY <2>1, EntrantsHaveKeys
<1>4. keys \in [1 .. n -> Keys]
  BY <1>2, <1>3
<1>5. \A i \in 1 .. n : keys[i] = entrants[i].key
  BY <1>2
<1> HIDE DEF keys, n
<1>6. /\ BestPlace(keys) \in 1 .. n
      /\ \A j \in 1 .. n : ~BetterKey(keys[j], keys[BestPlace(keys)])
  BY <1>2, <1>4, BestPlaceIsBest
<1>7. winner'.key = keys[BestPlace(keys)]
  BY <1>1, <1>5, <1>6
<1>8. Beaten'
  <2>1. winner'.key \in Keys
    BY <1>4, <1>6, <1>7
  <2>2. \A k \in judged' : ~BetterKey(k, winner'.key)
    BY <1>1, <1>2, <1>5, <1>6, <1>7
  <2>3. winner'.key \in judged'
    BY <1>1, <1>2, <1>5, <1>6, <1>7
  <2>4. winner' \in Entrants
    BY <1>1, <1>2, <1>6
  <2>5. winner'.veto => winner'.key = Key(TRUE, NoScores)
    BY <2>4, EntrantsHaveKeys
  <2>6. QED
    BY <2>1, <2>2, <2>3, <2>5 DEF Beaten
<1>9. entrants' \in Seq(Entrants) /\ judged' \subseteq Keys
  BY <1>1 DEF BestIInv
<1>10. QED
  BY <1>1, <1>8, <1>9 DEF BestIInv

LEMMA BestRedraft == BestIInv /\ Redraft => BestIInv'
<1> SUFFICES ASSUME BestIInv, Redraft PROVE BestIInv'
  OBVIOUS
<1>1. PICK e \in Entrants : winner' = Better(winner, e) /\ judged' = judged \cup {e.key}
  BY DEF Redraft
<1>2. round = "redraft" /\ round' = round /\ entrants' = entrants /\ Beaten /\ judged \subseteq Keys
  BY DEF Redraft, MayRedraft, BestIInv
<1>3. e.key \in Keys /\ winner.key \in Keys
  BY <1>2, EntrantsHaveKeys DEF Beaten
<1>4. CASE BetterKey(e.key, winner.key)
  <2>1. winner' = e
    BY <1>1, <1>4 DEF Better
  <2>2. ~BetterKey(winner.key, e.key) /\ ~BetterKey(e.key, e.key)
    BY <1>3, <1>4, BetterAntisymmetric
  <2>3. \A k \in judged : ~BetterKey(k, e.key)
    BY <1>2, <1>3, <2>2, NoBetterTransitive DEF Beaten
  <2>4. Beaten'
    <3>1. winner'.veto => winner'.key = Key(TRUE, NoScores)
      BY <2>1, EntrantsHaveKeys
    <3>2. QED
      BY <1>1, <1>3, <2>1, <2>2, <2>3, <3>1 DEF Beaten
  <2>5. QED
    BY <1>1, <1>2, <1>3, <2>4 DEF BestIInv
<1>5. CASE ~BetterKey(e.key, winner.key)
  <2>1. winner' = winner
    BY <1>1, <1>5 DEF Better
  <2>2. Beaten'
    BY <1>1, <1>2, <1>5, <2>1 DEF Beaten
  <2>3. QED
    BY <1>1, <1>2, <1>3, <2>2 DEF BestIInv
<1>6. QED
  BY <1>4, <1>5

LEMMA BestStep == BestIInv /\ [Next]_vars => BestIInv'
<1> SUFFICES ASSUME BestIInv, [Next]_vars PROVE BestIInv'
  OBVIOUS
<1>1. CASE DraftFails
  BY <1>1 DEF BestIInv, Beaten, DraftFails
<1>2. CASE DraftPlan
  BY <1>2, BestDraft
<1>3. CASE NobodyEntered
  BY <1>3 DEF BestIInv, Beaten, NobodyEntered
<1>4. CASE Select
  BY <1>4, BestSelect
<1>5. CASE RedraftFails
  BY <1>5 DEF BestIInv, Beaten, RedraftFails
<1>6. CASE Redraft
  BY <1>6, BestRedraft
<1>7. CASE Conclude
  BY <1>7 DEF BestIInv, Beaten, Conclude
<1>8. CASE StartStage
  <2>1. round' = "over" /\ entrants' = <<>> /\ winner' = None /\ judged' = {}
    BY <1>8 DEF StartStage, Forget
  <2>2. QED
    BY <2>1 DEF BestIInv
<1>9. CASE UNCHANGED planVars
  BY <1>9 DEF BestIInv, Beaten, planVars
<1>10. [Next]_vars => PlanNext \/ StartStage \/ UNCHANGED planVars
  BY DEF Next, Tournament, Restore, Generate, GenerateFails, Evaluate, CritiqueSkipped, Critique, CritiqueFails,
         Refine, RefineFails, ToMerge, MergeWhole, MergeSection, MergeFails, Save, PrintReview, Done, vars
<1>11. QED
  BY <1>1, <1>2, <1>3, <1>4, <1>5, <1>6, <1>7, <1>8, <1>9, <1>10 DEF PlanNext

\* In every tournament, whatever the plans, the judges' answers and their silences, the
\* winner is no worse than any candidate that was evaluated (plan.rs:1184, 1217).
THEOREM BestPlanWins == Spec => []WinnerIsBestPlan
<1>1. BestIInv => WinnerIsBestPlan
  <2> SUFFICES ASSUME BestIInv, winner # None
               PROVE  /\ \A k \in judged : ~BetterKey(k, winner.key)
                      /\ winner.veto => judged = {Key(TRUE, NoScores)}
    BY DEF WinnerIsBestPlan
  <2>1. Beaten /\ judged \subseteq Keys
    BY DEF BestIInv
  <2>2. ASSUME winner.veto, NEW k \in judged PROVE k = Key(TRUE, NoScores)
    <3>1. winner.key = Key(TRUE, NoScores) /\ ~BetterKey(k, Key(TRUE, NoScores)) /\ k \in Keys
      BY <2>1, <2>2 DEF Beaten
    <3>2. QED
      BY <3>1, OnlySilenceTies
  <2>3. QED
    BY <2>1, <2>2 DEF Beaten
<1>2. QED
  BY <1>1, BestInit, BestStep, PTL DEF Spec
-----------------------------------------------------------------------------
(***************************************************************************)
(* Calls.  The judges that are asked are those whose weights are counted,  *)
(* in every dialect, with a plan and without.                              *)
(***************************************************************************)
LEMMA SixAreFinite ==
  ASSUME NEW a, NEW b, NEW c, NEW d, NEW e, NEW f
  PROVE  IsFiniteSet({a, b, c, d, e, f})
<1>1. IsFiniteSet({a}) /\ IsFiniteSet({b}) /\ IsFiniteSet({c}) /\ IsFiniteSet({d}) /\ IsFiniteSet({e})
      /\ IsFiniteSet({f})
  BY FS_Singleton
<1>2. IsFiniteSet(({a} \cup {b}) \cup ({c} \cup {d}) \cup ({e} \cup {f}))
  BY <1>1, FS_Union
<1>3. {a, b, c, d, e, f} = ({a} \cup {b}) \cup ({c} \cup {d}) \cup ({e} \cup {f})
  OBVIOUS
<1>4. QED
  BY <1>2, <1>3

LEMMA JudgesAreWeighed ==
  JudgeDims = DOMAIN Weights /\ Cardinality(JudgeDims) \in Nat
<1>1. CASE ~lit
  <2>1. Weights = NarrativeWeights
    BY <1>1, Zenon DEF Weights
  <2>2. JudgeDims = {"faithfulness", "completeness", "traceability", "neutrality", "dissent_visibility",
                     "structural_clarity"}
    BY <1>1 DEF JudgeDims
  <2>3. DOMAIN NarrativeWeights = {"structural_clarity", "dissent_visibility", "faithfulness", "completeness",
                                   "neutrality", "traceability"}
    BY DEF NarrativeWeights
  <2>4. DOMAIN NarrativeWeights = JudgeDims
    BY <2>2, <2>3
  <2>5. QED
    BY <2>1, <2>2, <2>4, SixAreFinite, FS_CardinalityType
<1>2. CASE lit /\ plan = None
  <2>1. Weights = V2Weights
    BY <1>2, Zenon DEF Weights
  <2>2. JudgeDims = V2Dims
    BY <1>2 DEF JudgeDims, V2NarrativeDims
  <2>3. DOMAIN V2Weights = V2Dims
    BY DEF V2Weights, V2Dims
  <2>4. V2Dims = {"faithfulness", "coverage", "tension_visibility", "lineage_clarity", "recency_balance",
                  "recency_balance"}
    BY DEF V2Dims
  <2>5. Cardinality(V2Dims) \in Nat
    BY <2>4, SixAreFinite, FS_CardinalityType
  <2>6. QED
    BY <2>1, <2>2, <2>3, <2>5
<1>3. CASE lit /\ plan # None
  <2>1. Weights = PlannedWeights
    BY <1>3, Zenon DEF Weights
  <2>2. JudgeDims = {"faithfulness", "coverage", "tension_visibility", "lineage_clarity", "recency_balance",
                     "plan_conformance"}
    BY <1>3 DEF JudgeDims, V2NarrativeDims, V2Dims
  <2>3. DOMAIN PlannedWeights = {"plan_conformance", "lineage_clarity", "tension_visibility", "faithfulness",
                                 "coverage", "recency_balance"}
    BY DEF PlannedWeights
  <2>4. DOMAIN PlannedWeights = JudgeDims
    BY <2>2, <2>3
  <2>5. QED
    BY <2>1, <2>2, <2>4, SixAreFinite, FS_CardinalityType
<1>4. QED
  BY <1>1, <1>2, <1>3

CallIInv ==
  /\ drafted \in 0 .. NDrafts /\ redrafts \in 0 .. Redrafts
  /\ calls \in Int /\ calls <= 4 * (drafted + redrafts)
  /\ booked \in Nat /\ spent \in Nat /\ spent <= booked

LEMMA DraftsAreNat == NDrafts \in Nat /\ Redrafts \in Nat
  BY ConfigAssumption, PlanAssumption DEF NDrafts, PlanDrafts

LEMMA ConfigStays == [Next]_vars => config' = config
  BY DEF Next, Tournament, StartStage, Restore, Generate, GenerateFails, Evaluate, CritiqueSkipped, Critique,
         CritiqueFails, Refine, RefineFails, ToMerge, MergeWhole, MergeSection, MergeFails, Save, PrintReview,
         Done, vars, stageVars

\* A draft or a redraft costs its own call and three judges at most.
LEMMA PlanCalls ==
  ASSUME CallIInv, PlanNext
  PROVE  /\ drafted' \in 0 .. NDrafts /\ redrafts' \in 0 .. Redrafts
         /\ calls' \in Int /\ calls' <= 4 * (drafted' + redrafts')
<1>1. NDrafts \in Nat /\ Redrafts \in Nat
  BY DraftsAreNat
<1>2. /\ drafted \in 0 .. NDrafts /\ redrafts \in 0 .. Redrafts
      /\ calls \in Int /\ calls <= 4 * (drafted + redrafts)
  BY DEF CallIInv
<1> HIDE DEF NDrafts
<1>3. CASE DraftFails
  BY <1>1, <1>2, <1>3 DEF DraftFails
<1>4. CASE DraftPlan
  <2>1. PICK e \in Entrants : calls' = calls + 1 + Judges(e)
    BY <1>4 DEF DraftPlan
  <2>2. Judges(e) \in 0 .. 3
    BY EntrantsHaveKeys
  <2>3. drafted < NDrafts /\ drafted' = drafted + 1 /\ redrafts' = redrafts
    BY <1>4 DEF DraftPlan
  <2>4. QED
    BY <1>1, <1>2, <2>1, <2>2, <2>3
<1>5. CASE RedraftFails
  BY <1>1, <1>2, <1>5 DEF RedraftFails, MayRedraft
<1>6. CASE Redraft
  <2>1. PICK e \in Entrants : calls' = calls + 1 + Judges(e)
    BY <1>6 DEF Redraft
  <2>2. Judges(e) \in 0 .. 3
    BY EntrantsHaveKeys
  <2>3. redrafts < Redrafts /\ redrafts' = redrafts + 1 /\ drafted' = drafted
    BY <1>6 DEF Redraft, MayRedraft
  <2>4. QED
    BY <1>1, <1>2, <2>1, <2>2, <2>3
<1>7. CASE NobodyEntered \/ Select \/ Conclude
  BY <1>2, <1>7 DEF NobodyEntered, Select, Conclude
<1>8. QED
  BY <1>3, <1>4, <1>5, <1>6, <1>7 DEF PlanNext

LEMMA CallInit == Init => CallIInv
  BY DraftsAreNat DEF Init, PlanInit, CallIInv

LEMMA CallStep == CallIInv /\ [Next]_vars => CallIInv'
<1> SUFFICES ASSUME CallIInv, [Next]_vars PROVE CallIInv'
  OBVIOUS
<1>1. NDrafts' = NDrafts /\ NDrafts \in Nat /\ Redrafts \in Nat
  BY ConfigStays, DraftsAreNat DEF NDrafts
<1> HIDE DEF NDrafts
<1>2. CASE Tournament
  <2>1. PlanNext /\ booked' = booked /\ spent' = spent
    BY <1>2 DEF Tournament
  <2>2. QED
    BY <1>1, <2>1, PlanCalls DEF CallIInv
<1>3. CASE StartStage
  BY <1>1, <1>3 DEF CallIInv, StartStage, Forget
<1>4. CASE Generate
  BY <1>1, <1>4 DEF CallIInv, Generate, planVars
<1>5. CASE Evaluate
  <2>1. booked' = booked + Cardinality(DOMAIN Weights) /\ spent' = spent + Cardinality(JudgeDims)
        /\ UNCHANGED planVars
    BY <1>5 DEF Evaluate, Book
  <2>2. booked' = booked + Cardinality(JudgeDims) /\ Cardinality(JudgeDims) \in Nat
    BY <2>1, JudgesAreWeighed
  <2>3. booked' \in Nat /\ spent' \in Nat /\ spent' <= booked'
    BY <2>1, <2>2 DEF CallIInv
  <2>4. QED
    BY <1>1, <2>1, <2>3 DEF CallIInv, planVars
<1>6. CASE CritiqueSkipped
  BY <1>1, <1>6 DEF CallIInv, CritiqueSkipped, Book, planVars
<1>7. CASE Critique
  BY <1>1, <1>7 DEF CallIInv, Critique, Book, planVars
<1>8. CASE Refine
  BY <1>1, <1>8 DEF CallIInv, Refine, Book, planVars
<1>9. CASE UNCHANGED <<planVars, booked, spent>>
  BY <1>1, <1>9 DEF CallIInv, planVars
<1>10. Tournament \/ StartStage \/ Generate \/ Evaluate \/ CritiqueSkipped \/ Critique \/ Refine
       \/ UNCHANGED <<planVars, booked, spent>>
  BY DEF Next, Restore, GenerateFails, CritiqueFails, RefineFails, ToMerge, MergeWhole, MergeSection, MergeFails,
         Save, PrintReview, Done, vars, stageVars
<1>11. QED
  BY <1>2, <1>3, <1>4, <1>5, <1>6, <1>7, <1>8, <1>9, <1>10

\* However the tournament goes it makes at most four calls for a draft and for a redraft
\* (plan.rs:1133), and no step of a trajectory makes more calls than it books
\* (narrative.rs:213, 905).
THEOREM EveryCallIsBooked == Spec => []CallsAreBooked
<1>1. CallIInv => CallsAreBooked
  <2> SUFFICES ASSUME CallIInv PROVE CallsAreBooked
    OBVIOUS
  <2>1. Cardinality(DOMAIN PlanWeights) = 3 /\ NDrafts \in Nat /\ Redrafts \in Nat
    BY WeightsOfPlan, DraftsAreNat
  <2> HIDE DEF NDrafts
  <2>2. calls <= 4 * (NDrafts + Redrafts) /\ spent <= booked
    BY <2>1 DEF CallIInv
  <2>3. QED
    BY <2>1, <2>2 DEF CallsAreBooked
<1>2. QED
  BY <1>1, CallInit, CallStep, PTL DEF Spec
-----------------------------------------------------------------------------
(***************************************************************************)
(* Forms.  The shape of a prompt is the profile's or none; before stage 3  *)
(* only the tournament's forms are aimed at it, afterwards every other     *)
(* form that is carries the plan of the stage.                             *)
(***************************************************************************)
OfTournament(f) == f.call \in {"plan", "replan"}
AimedWell(f)    == f.shape = None \/ (f.shape = Shape /\ (OfTournament(f) \/ f.plan = plan))

FormIInv ==
  /\ \A f \in asked : AimedWell(f)
  /\ phase = "plan" => \A f \in asked : f.shape = None \/ OfTournament(f)
  /\ phase = "plan" /\ ~WantsPlan(config) => round = "draft"
  /\ ~lit => plan = None

LEMMA TournamentForms ==
  ASSUME NEW f \in PlanAsks(Shape)
  PROVE  f.shape = None \/ (f.shape = Shape /\ OfTournament(f))
<1>1. PlanDraftForm(Shape).shape = Shape /\ PlanDraftForm(Shape).call = "plan"
  BY DEF PlanDraftForm, PlanForm
<1>2. PlanRedraftForm(Shape).shape = Shape /\ PlanRedraftForm(Shape).call = "replan"
  BY DEF PlanRedraftForm, PlanDraftForm, PlanForm
<1>3. PlanJudgeForm.shape = None
  BY DEF PlanJudgeForm, PlanForm
<1>4. f \in {PlanDraftForm(Shape), PlanRedraftForm(Shape), PlanJudgeForm}
  BY DEF PlanAsks
<1>5. QED
  BY <1>1, <1>2, <1>3, <1>4 DEF OfTournament

LEMMA StageForms ==
  ASSUME FormIInv
  PROVE  /\ AimedWell(DraftForm) /\ AimedWell(CritiqueForm) /\ AimedWell(RefineForm) /\ AimedWell(MergeForm)
         /\ AimedWell(JudgeForm) /\ AimedWell(ConformanceForm)
         /\ \A ranks : AimedWell(SectionForm(ranks))
<1>1. ~lit => plan = None
  BY DEF FormIInv
<1>2. AimedWell(DraftForm) /\ AimedWell(RefineForm) /\ AimedWell(ConformanceForm)
  BY <1>1 DEF AimedWell, DraftForm, DraftFormV1, DraftFormLit, RefineForm, RefineFormV1, RefineFormLit,
              ConformanceForm, Planned, Form
<1>3. AimedWell(CritiqueForm) /\ AimedWell(JudgeForm)
  BY DEF AimedWell, CritiqueForm, CritiqueFormV1, CritiqueFormLit, JudgeForm, JudgeFormV1, JudgeFormLit, Free, Form
<1>4. AimedWell(MergeForm)
  <2>1. CASE ~lit
    <3>1. MergeForm = MergeFormV1
      BY <2>1, Zenon DEF MergeForm
    <3>2. QED
      BY <1>1, <2>1, <3>1 DEF AimedWell, MergeFormV1, Form
  <2>2. CASE lit /\ plan = None
    <3>1. MergeForm = MergeFormLit
      BY <2>2, Zenon DEF MergeForm
    <3>2. QED
      BY <2>2, <3>1 DEF AimedWell, MergeFormLit, Form
  <2>3. CASE lit /\ plan # None
    <3>1. MergeForm = MergeFormPlanned
      BY <2>3, Zenon DEF MergeForm
    <3>2. QED
      BY <2>3, <3>1 DEF AimedWell, MergeFormPlanned, MergeFormLit, Planned, Form
  <2>4. QED
    BY <2>1, <2>2, <2>3
<1>5. \A ranks : AimedWell(SectionForm(ranks))
  BY DEF AimedWell, SectionForm, Form
<1>6. QED
  BY <1>2, <1>3, <1>4, <1>5

LEMMA FormInit == Init => FormIInv
  BY DEF Init, PlanInit, FormIInv

LEMMA SameProfile == [Next]_vars => Shape' = Shape /\ lit' = lit /\ WantsPlan(config)' = WantsPlan(config)
<1> SUFFICES ASSUME [Next]_vars PROVE Shape' = Shape /\ lit' = lit /\ WantsPlan(config)' = WantsPlan(config)
  OBVIOUS
<1>1. config' = config
  BY ConfigStays
<1>2. QED
  BY <1>1 DEF Shape, lit, machine, WantsPlan

LEMMA FormStep == FormIInv /\ [Next]_vars => FormIInv'
<1> SUFFICES ASSUME FormIInv, [Next]_vars PROVE FormIInv'
  OBVIOUS
<1>1. Shape' = Shape /\ lit' = lit /\ WantsPlan(config)' = WantsPlan(config)
  BY SameProfile
<1> HIDE DEF Shape, lit
<1>2. CASE Tournament
  <2>1. phase = "plan" /\ phase' = phase /\ plan' = plan /\ WantsPlan(config)
        /\ asked' = asked \cup PlanAsks(Shape)
    BY <1>2 DEF Tournament, Asks
  <2>2. \A f \in PlanAsks(Shape) : f.shape = None \/ (f.shape = Shape /\ OfTournament(f))
    BY TournamentForms
  <2>3. \A f \in asked' : AimedWell(f)'
    BY <1>1, <2>1, <2>2 DEF FormIInv, AimedWell
  <2>4. \A f \in asked' : f.shape = None \/ OfTournament(f)
    BY <2>1, <2>2 DEF FormIInv
  <2>5. WantsPlan(config)'
    BY <1>1, <2>1
  <2>6. ~lit' => plan' = None
    BY <1>1, <2>1 DEF FormIInv
  <2>7. QED
    BY <2>3, <2>4, <2>5, <2>6 DEF FormIInv, OfTournament
<1>3. CASE StartStage
  <2>1. phase = "plan" /\ phase' = "draft" /\ plan' = ThePlan /\ asked' \subseteq asked
    BY <1>3 DEF StartStage, Onward
  <2>2. \A f \in asked' : AimedWell(f)'
    BY <1>1, <2>1 DEF FormIInv, AimedWell, OfTournament
  <2>3. ~lit => plan' = None
    <3>1. lit = Lit(config.profile)
      BY DEF lit, machine, NarrativeMachine
    <3>2. ~lit => ~WantsPlan(config)
      BY <3>1 DEF WantsPlan
    <3>3. ~lit => round = "draft"
      BY <3>2, <2>1 DEF FormIInv
    <3>4. QED
      BY <2>1, <3>3 DEF ThePlan
  <2>4. QED
    BY <1>1, <2>1, <2>2, <2>3 DEF FormIInv
<1>4. CASE /\ phase' # "plan" /\ plan' = plan /\ asked' \subseteq asked \cup {f \in asked' : AimedWell(f)}
  <2>1. \A f \in asked' : AimedWell(f)
    BY <1>4 DEF FormIInv
  <2>2. \A f \in asked' : AimedWell(f)'
    BY <1>1, <1>4, <2>1 DEF AimedWell
  <2>3. QED
    BY <1>1, <1>4, <2>2 DEF FormIInv
<1>5. CASE UNCHANGED vars
  BY <1>1, <1>5 DEF vars, planVars, stageVars, FormIInv, AimedWell, OfTournament
<1>6. ASSUME Next, ~Tournament, ~StartStage, ~UNCHANGED vars
      PROVE  phase' # "plan" /\ plan' = plan /\ asked' \subseteq asked \cup {f \in asked' : AimedWell(f)}
  <2>1. /\ AimedWell(DraftForm) /\ AimedWell(CritiqueForm) /\ AimedWell(RefineForm) /\ AimedWell(MergeForm)
        /\ AimedWell(JudgeForm) /\ AimedWell(ConformanceForm)
        /\ \A ranks : AimedWell(SectionForm(ranks))
    BY StageForms
  <2> HIDE DEF AimedWell
  <2>2. CASE Restore \/ CritiqueFails \/ RefineFails \/ ToMerge \/ MergeFails \/ Save \/ PrintReview
    BY <2>2 DEF Restore, CritiqueFails, RefineFails, ToMerge, MergeFails, Save, PrintReview, Fail
  <2>3. CASE Generate \/ GenerateFails
    BY <2>1, <2>3 DEF Generate, GenerateFails, Asks, Fail
  <2>4. CASE Evaluate
    BY <2>1, <2>4 DEF Evaluate, Asks
  <2>5. CASE CritiqueSkipped \/ Critique
    BY <2>1, <2>5 DEF CritiqueSkipped, Critique, Asks, EndStep
  <2>6. CASE Refine
    BY <2>1, <2>6 DEF Refine, Asks, EndStep
  <2>7. CASE MergeWhole
    BY <2>1, <2>7 DEF MergeWhole, Asks
  <2>8. CASE MergeSection
    BY <2>1, <2>8 DEF MergeSection, Asks
  <2>9. QED
    BY <1>6, <2>2, <2>3, <2>4, <2>5, <2>6, <2>7, <2>8 DEF Next, Done
<1>7. QED
  BY <1>2, <1>3, <1>4, <1>5, <1>6

\* Whatever the plans and answers are, all who are put before a shape are put before the
\* same, and all of stage 3 before the same plan (lit_review.rs:1353, narrative.rs:350,
\* engine.rs:695).
THEOREM PromptsShareOneTarget == Spec => []OneTarget
<1>1. FormIInv => OneTarget
  BY DEF FormIInv, AimedWell, OfTournament, OneTarget, Targeted
<1>2. QED
  BY <1>1, FormInit, FormStep, PTL DEF Spec
-----------------------------------------------------------------------------
(***************************************************************************)
(* Lists.  A list filtered by places is the rest in its order: each place  *)
(* has another number of places before it.                                 *)
(***************************************************************************)
Listed(s)   == \E T : s \in Seq(T)
Lower(S, i) == {j \in S : j < i}
Nth(S, n)   == CHOOSE i \in S : Cardinality(Lower(S, i)) = n - 1

LEMMA ListedByLength ==
  ASSUME NEW n \in Nat, NEW s, s = [i \in 1 .. n |-> s[i]]
  PROVE  Listed(s) /\ Len(s) = n /\ DOMAIN s = 1 .. n
<1> DEFINE T == {s[i] : i \in 1 .. n}
<1>1. s \in [1 .. n -> T]
  OBVIOUS
<1>2. s \in Seq(T)
  BY <1>1, SeqDef
<1>3. Len(s) \in Nat /\ 1 .. Len(s) = 1 .. n
  BY <1>1, <1>2
<1>4. Len(s) = n
  <2>1. n \in 1 .. n => n <= Len(s)
    BY <1>3
  <2>2. Len(s) \in 1 .. Len(s) => Len(s) <= n
    BY <1>3
  <2>3. QED
    BY <1>3, <2>1, <2>2
<1>5. QED
  BY <1>1, <1>2, <1>4 DEF Listed

LEMMA ListedIs ==
  ASSUME NEW s, Listed(s)
  PROVE  Len(s) \in Nat /\ DOMAIN s = 1 .. Len(s) /\ s = [i \in 1 .. Len(s) |-> s[i]]
  BY DEF Listed

LEMMA CountingUp ==
  ASSUME NEW n \in Nat, NEW S, 0 \in S, \A k \in 0 .. n - 1 : k \in S => k + 1 \in S
  PROVE  \A k \in 0 .. n : k \in S
<1> DEFINE Bad == {k \in 0 .. n : k \notin S}
<1> SUFFICES ASSUME Bad # {} PROVE FALSE
  OBVIOUS
<1>1. Bad \in SUBSET Nat
  OBVIOUS
<1>2. PICK m \in Bad : \A k \in Bad : m <= k
  <2> HIDE DEF Bad
  <2>1. QED
    BY <1>1, LeastNumber
<1>3. m - 1 \in 0 .. n - 1 /\ m - 1 \notin Bad /\ (m - 1) + 1 = m
  BY <1>2
<1>4. QED
  BY <1>3

LEMMA RanksDiffer ==
  ASSUME NEW S \in SUBSET Int, IsFiniteSet(S), NEW i \in S, NEW k \in S, i < k
  PROVE  Cardinality(Lower(S, i)) < Cardinality(Lower(S, k))
<1>1. Lower(S, i) \in SUBSET Lower(S, k) /\ i \in Lower(S, k) /\ i \notin Lower(S, i)
  <2>1. i \in Int /\ k \in Int /\ \A j \in S : j \in Int
    OBVIOUS
  <2>2. \A j \in S : j < i => j < k
    BY <2>1
  <2>3. ~(i < i)
    BY <2>1
  <2>4. Lower(S, i) \in SUBSET Lower(S, k)
    BY <2>2 DEF Lower
  <2>5. i \in Lower(S, k) /\ i \notin Lower(S, i)
    BY <2>3 DEF Lower
  <2>6. QED
    BY <2>4, <2>5
<1>2. IsFiniteSet(Lower(S, k)) /\ IsFiniteSet(Lower(S, i))
  BY FS_Subset DEF Lower
<1>3. /\ Cardinality(Lower(S, i)) <= Cardinality(Lower(S, k))
      /\ Cardinality(Lower(S, k)) = Cardinality(Lower(S, i)) => Lower(S, k) = Lower(S, i)
  BY <1>1, <1>2, FS_Subset
<1>4. Cardinality(Lower(S, k)) \in Nat /\ Cardinality(Lower(S, i)) \in Nat
  BY <1>2, FS_CardinalityType
<1>5. QED
  BY <1>1, <1>3, <1>4

LEMMA EveryRankIsTaken ==
  ASSUME NEW S \in SUBSET Int, IsFiniteSet(S)
  PROVE  /\ Cardinality(S) \in Nat
         /\ \A i \in S : Cardinality(Lower(S, i)) \in 0 .. Cardinality(S) - 1
         /\ \A r \in 0 .. Cardinality(S) - 1 : \E i \in S : Cardinality(Lower(S, i)) = r
<1> DEFINE n == Cardinality(S)
           rank == [i \in S |-> Cardinality(Lower(S, i))]
<1>1. n \in Nat
  BY FS_CardinalityType
<1>2. ASSUME NEW i \in S PROVE Cardinality(Lower(S, i)) \in 0 .. n - 1
  <2>1. Lower(S, i) \in SUBSET S /\ i \notin Lower(S, i)
    BY DEF Lower
  <2>2. IsFiniteSet(Lower(S, i)) /\ Cardinality(Lower(S, i)) <= n
        /\ (Cardinality(S) = Cardinality(Lower(S, i)) => S = Lower(S, i))
    BY <2>1, FS_Subset
  <2>3. Cardinality(Lower(S, i)) \in Nat
    BY <2>2, FS_CardinalityType
  <2>4. QED
    BY <1>1, <2>1, <2>2, <2>3
<1>3. rank \in [S -> 0 .. n - 1]
  BY <1>2
<1>4. \A i, k \in S : rank[i] = rank[k] => i = k
  <2> SUFFICES ASSUME NEW i \in S, NEW k \in S, i # k PROVE rank[i] # rank[k]
    OBVIOUS
  <2>1. i < k \/ k < i
    OBVIOUS
  <2>2. rank[i] \in Int /\ rank[k] \in Int
    BY <1>3
  <2>3. i < k => rank[i] < rank[k]
    BY RanksDiffer
  <2>4. k < i => rank[k] < rank[i]
    BY RanksDiffer
  <2> HIDE DEF rank
  <2>5. QED
    BY <2>1, <2>2, <2>3, <2>4
<1> HIDE DEF rank, n
<1>5. IsFiniteSet(0 .. n - 1) /\ Cardinality(0 .. n - 1) = n
  <2>1. 0 \in Int /\ n - 1 \in Int /\ (IF 0 > n - 1 THEN 0 ELSE (n - 1) - 0 + 1) = n
    BY <1>1
  <2>2. QED
    BY <2>1, FS_Interval
<1>6. rank \in Injection(S, 0 .. n - 1)
  BY <1>3, <1>4, Fun_IsInj
<1>7. rank \in Surjection(S, 0 .. n - 1)
  BY <1>5, <1>6, FS_Injection DEF n
<1>8. \A r \in 0 .. n - 1 : \E i \in S : rank[i] = r
  BY <1>7 DEF Surjection
<1>9. QED
  BY <1>1, <1>2, <1>8 DEF rank, n

LEMMA PlacesInOrder ==
  ASSUME NEW S \in SUBSET Int, IsFiniteSet(S)
  PROVE  /\ Cardinality(S) \in Nat
         /\ \A n \in 1 .. Cardinality(S) : Nth(S, n) \in S /\ Cardinality(Lower(S, Nth(S, n))) = n - 1
         /\ \A i \in S : \E n \in 1 .. Cardinality(S) : Nth(S, n) = i
<1>1. Cardinality(S) \in Nat
  BY EveryRankIsTaken
<1>2. ASSUME NEW n \in 1 .. Cardinality(S)
      PROVE  Nth(S, n) \in S /\ Cardinality(Lower(S, Nth(S, n))) = n - 1
  <2>1. n - 1 \in 0 .. Cardinality(S) - 1
    BY <1>1
  <2>2. \E i \in S : Cardinality(Lower(S, i)) = n - 1
    BY <2>1, EveryRankIsTaken
  <2>3. QED
    BY <2>2 DEF Nth
<1>3. ASSUME NEW i \in S PROVE \E n \in 1 .. Cardinality(S) : Nth(S, n) = i
  <2> DEFINE r == Cardinality(Lower(S, i))
  <2>1. r \in 0 .. Cardinality(S) - 1
    BY EveryRankIsTaken
  <2>2. r + 1 \in 1 .. Cardinality(S) /\ (r + 1) - 1 = r
    BY <1>1, <2>1
  <2>3. Nth(S, r + 1) \in S /\ Cardinality(Lower(S, Nth(S, r + 1))) = r
    BY <1>2, <2>2
  <2>4. Nth(S, r + 1) \in Int /\ i \in Int
    BY <2>3
  <2>5. ~(Nth(S, r + 1) < i) /\ ~(i < Nth(S, r + 1))
    <3>1. r \in Int
      BY <2>1
    <3>2. Nth(S, r + 1) < i => Cardinality(Lower(S, Nth(S, r + 1))) < r
      BY <2>3, RanksDiffer
    <3>3. i < Nth(S, r + 1) => r < Cardinality(Lower(S, Nth(S, r + 1)))
      BY <2>3, RanksDiffer
    <3> HIDE DEF r
    <3>4. QED
      BY <2>3, <3>1, <3>2, <3>3
  <2>6. Nth(S, r + 1) = i
    BY <2>4, <2>5
  <2>7. QED
    BY <2>2, <2>6
<1>4. QED
  BY <1>1, <1>2, <1>3

\* t is s without what stands at other places than S; at says where its items stood.
Filters(s, S, t, at) ==
  /\ Listed(t) /\ at \in [DOMAIN t -> S]
  /\ \A n \in DOMAIN t : t[n] = s[at[n]]
  /\ \A n, m \in DOMAIN t : n < m <=> at[n] < at[m]
  /\ \A i \in S : \E n \in DOMAIN t : at[n] = i

LEMMA AtPlacesFilters ==
  ASSUME NEW s, Listed(s), NEW S \in SUBSET DOMAIN s
  PROVE  \E at : Filters(s, S, AtPlaces(s, S), at)
<1> DEFINE c == Cardinality(S)
           t == AtPlaces(s, S)
           at == [n \in 1 .. c |-> Nth(S, n)]
<1>1. S \in SUBSET Int /\ IsFiniteSet(S)
  <2>1. Len(s) \in Nat /\ DOMAIN s = 1 .. Len(s)
    BY ListedIs
  <2>2. IsFiniteSet(1 .. Len(s))
    BY <2>1, FS_Interval
  <2>3. QED
    BY <2>1, <2>2, FS_Subset
<1>2. /\ c \in Nat
      /\ \A n \in 1 .. c : Nth(S, n) \in S /\ Cardinality(Lower(S, Nth(S, n))) = n - 1
      /\ \A i \in S : \E n \in 1 .. c : Nth(S, n) = i
  BY <1>1, PlacesInOrder
<1>3. t = [n \in 1 .. c |-> s[Nth(S, n)]]
  BY DEF AtPlaces, Nth, Lower
<1>4. t = [n \in 1 .. c |-> t[n]] /\ \A n \in 1 .. c : t[n] = s[Nth(S, n)]
  BY <1>3
<1> HIDE DEF t, c
<1>5. Listed(t) /\ DOMAIN t = 1 .. c
  BY <1>2, <1>4, ListedByLength
<1>6. \A n \in 1 .. c : at[n] = Nth(S, n) /\ at[n] \in S /\ at[n] \in Int /\ Cardinality(Lower(S, at[n])) = n - 1
  BY <1>1, <1>2
<1>7. at \in [DOMAIN t -> S]
  BY <1>2, <1>5
<1>8. \A i \in S : \E n \in 1 .. c : at[n] = i
  BY <1>2, <1>6
<1> HIDE DEF at
<1>9. ASSUME NEW n \in 1 .. c, NEW m \in 1 .. c
      PROVE  n < m <=> at[n] < at[m]
  <2>1. n \in Int /\ m \in Int /\ at[n] \in Int /\ at[m] \in Int /\ at[n] \in S /\ at[m] \in S
    BY <1>2, <1>6
  <2>2. at[n] < at[m] => n - 1 < m - 1
    BY <1>1, <1>6, <2>1, RanksDiffer
  <2>3. at[m] < at[n] => m - 1 < n - 1
    BY <1>1, <1>6, <2>1, RanksDiffer
  <2>4. at[n] = at[m] => n - 1 = m - 1
    BY <1>6
  <2>5. QED
    BY <2>1, <2>2, <2>3, <2>4
<1>10. \A n \in DOMAIN t : t[n] = s[at[n]]
  BY <1>4, <1>5, <1>6
<1>11. Filters(s, S, t, at)
  BY <1>5, <1>7, <1>8, <1>9, <1>10 DEF Filters
<1>12. QED
  BY <1>11 DEF t

LEMMA ListedConcat ==
  ASSUME NEW s, NEW t, Listed(s), Listed(t)
  PROVE  Listed(s \o t)
<1>1. PICK S, T : s \in Seq(S) /\ t \in Seq(T)
  BY DEF Listed
<1>2. s \in Seq(S \cup T) /\ t \in Seq(S \cup T)
  BY <1>1, SeqMonotonic
<1>3. s \o t \in Seq(S \cup T)
  BY <1>2, ConcatProperties
<1>4. QED
  BY <1>3 DEF Listed

Flattens(seqs, n, f) == f = [i \in 1 .. n |-> IF i = 1 THEN seqs[i] ELSE f[i - 1] \o seqs[i]]

Flattened(seqs, n) == \E f : Flattens(seqs, n, f)

LEMMA FlatteningExists ==
  ASSUME NEW seqs, NEW n \in Nat
  PROVE  Flattened(seqs, n)
<1>1. Flattened(seqs, 0)
  <2> DEFINE f == [i \in 1 .. 0 |-> seqs[i]]
  <2>1. f = [i \in 1 .. 0 |-> IF i = 1 THEN seqs[i] ELSE f[i - 1] \o seqs[i]]
    OBVIOUS
  <2>2. QED
    BY <2>1 DEF Flattened, Flattens
<1>2. ASSUME NEW m \in Nat, Flattened(seqs, m)
      PROVE  Flattened(seqs, m + 1)
  <2>1. PICK f : f = [i \in 1 .. m |-> IF i = 1 THEN seqs[i] ELSE f[i - 1] \o seqs[i]]
    BY <1>2 DEF Flattened, Flattens
  <2> DEFINE h == [i \in 1 .. m + 1 |-> IF i = 1 THEN seqs[i] ELSE f[i - 1] \o seqs[i]]
  <2>2. ASSUME NEW i \in 1 .. m PROVE h[i] = f[i]
    <3>1. h[i] = IF i = 1 THEN seqs[i] ELSE f[i - 1] \o seqs[i]
      OBVIOUS
    <3> HIDE DEF h
    <3>2. f[i] = IF i = 1 THEN seqs[i] ELSE f[i - 1] \o seqs[i]
      BY <2>1
    <3>3. QED
      BY <3>1, <3>2
  <2>3. \A i \in 1 .. m + 1 : i # 1 => i - 1 \in 1 .. m
    OBVIOUS
  <2>4. h = [i \in 1 .. m + 1 |-> IF i = 1 THEN seqs[i] ELSE h[i - 1] \o seqs[i]]
    BY <2>2, <2>3
  <2>5. QED
    BY <2>4 DEF Flattened, Flattens
<1> DEFINE Good == {m \in 0 .. n : Flattened(seqs, m)}
<1>3. 0 \in Good /\ \A m \in 0 .. n - 1 : m \in Good => m + 1 \in Good
  <2>1. \A m \in 0 .. n - 1 : m \in Nat /\ m + 1 \in 0 .. n
    OBVIOUS
  <2>2. QED
    BY <1>1, <1>2, <2>1
<1>4. n \in Good
  <2> HIDE DEF Good
  <2>1. QED
    BY <1>3, CountingUp
<1>5. QED
  BY <1>4

LEMMA FlatIsListed ==
  ASSUME NEW seqs, Listed(seqs), \A i \in DOMAIN seqs : Listed(seqs[i])
  PROVE  Listed(FlattenSeq(seqs))
<1> DEFINE n == Len(seqs)
<1>1. n \in Nat /\ DOMAIN seqs = 1 .. n
  BY ListedIs
<1>2. CASE n = 0
  BY <1>2 DEF FlattenSeq
<1>3. CASE n # 0
  <2> DEFINE f == CHOOSE h : Flattens(seqs, n, h)
             Good == {k \in 0 .. n : k > 0 => Listed(f[k])}
  <2>1. Flattens(seqs, n, f)
    BY <1>1, FlatteningExists DEF Flattened
  <2>2. FlattenSeq(seqs) = f[n]
    BY <1>1, <1>3 DEF FlattenSeq, Flattens
  <2> HIDE DEF f, n
  <2>3. ASSUME NEW k \in 0 .. n - 1, k \in Good PROVE k + 1 \in Good
    <3>1. k + 1 \in 1 .. n /\ (k + 1) - 1 = k /\ k \in Int /\ Listed(seqs[k + 1])
      BY <1>1
    <3>2. f[k + 1] = IF k + 1 = 1 THEN seqs[k + 1] ELSE f[(k + 1) - 1] \o seqs[k + 1]
      BY <2>1, <3>1 DEF Flattens
    <3>3. CASE k = 0
      BY <3>1, <3>2, <3>3
    <3>4. CASE k # 0
      <4>1. k > 0 /\ k + 1 # 1
        BY <3>4
      <4>2. Listed(f[k] \o seqs[k + 1])
        BY <2>3, <3>1, <4>1, ListedConcat
      <4>3. f[k + 1] = f[k] \o seqs[k + 1]
        BY <3>1, <3>2, <4>1
      <4>4. Listed(f[k + 1])
        BY <4>2, <4>3
      <4>5. QED
        BY <3>1, <4>4
    <3>5. QED
      BY <3>3, <3>4
  <2>4. 0 \in Good /\ \A k \in 0 .. n - 1 : k \in Good => k + 1 \in Good
    BY <1>1, <2>3
  <2>5. n \in Good
    <3> HIDE DEF Good
    <3>1. n \in 0 .. n
      BY <1>1
    <3>2. QED
      BY <1>1, <2>4, <3>1, CountingUp
  <2>6. n > 0
    BY <1>1, <1>3
  <2>7. QED
    BY <2>2, <2>5, <2>6
<1>4. QED
  BY <1>2, <1>3

-----------------------------------------------------------------------------
(***************************************************************************)
(* Brackets.  Two that close are apart, and an item of a marker is neither *)
(* a bracket nor the end of a sentence.                                    *)
(***************************************************************************)
LEMMA CloseIs ==
  ASSUME NEW w, Listed(w), NEW i \in DOMAIN w
  PROVE  /\ CloseAfter(w, i) \in 0 .. Len(w)
         /\ CloseAfter(w, i) > 0 =>
              /\ i < CloseAfter(w, i) /\ w[CloseAfter(w, i)] = Close
              /\ \A j \in i + 1 .. CloseAfter(w, i) - 1 : w[j] # Close
         /\ \A j \in i + 1 .. Len(w) : w[j] = Close => CloseAfter(w, i) > 0 /\ CloseAfter(w, i) <= j
<1> DEFINE ends == {j \in i + 1 .. Len(w) : w[j] = Close}
           c    == CloseAfter(w, i)
<1>1. Len(w) \in Nat /\ i \in 1 .. Len(w)
  BY ListedIs
<1>2. c = IF ends = {} THEN 0 ELSE CHOOSE j \in ends : \A k \in ends : j <= k
  BY DEF CloseAfter
<1> HIDE DEF c
<1>3. CASE ends = {}
  <2>1. c = 0
    BY <1>2, <1>3
  <2>2. QED
    BY <1>1, <1>3, <2>1 DEF c
<1>4. CASE ends # {}
  <2>1. ends \in SUBSET Nat
    BY <1>1
  <2> HIDE DEF ends
  <2>2. \E j \in ends : \A k \in ends : j <= k
    BY <1>4, <2>1, LeastNumber
  <2>3. c \in ends /\ \A k \in ends : c <= k
    BY <1>2, <1>4, <2>2
  <2>4. c \in i + 1 .. Len(w) /\ w[c] = Close
    BY <2>3 DEF ends
  <2>5. \A j \in i + 1 .. Len(w) : w[j] = Close => c <= j
    BY <2>3 DEF ends
  <2>6. \A j \in i + 1 .. c - 1 : w[j] # Close
    BY <1>1, <2>4, <2>5
  <2>7. QED
    BY <1>1, <2>4, <2>5, <2>6 DEF c
<1>5. QED
  BY <1>3, <1>4

\* The first closing bracket is the one.
LEMMA CloseFound ==
  ASSUME NEW w, Listed(w), NEW i \in DOMAIN w, NEW c \in i + 1 .. Len(w), w[c] = Close,
         \A j \in i + 1 .. c - 1 : w[j] # Close
  PROVE  CloseAfter(w, i) = c
<1> DEFINE d == CloseAfter(w, i)
<1>1. Len(w) \in Nat /\ i \in 1 .. Len(w)
  BY ListedIs
<1>2. d \in 0 .. Len(w) /\ d > 0 /\ d <= c /\ i < d /\ w[d] = Close
  BY CloseIs
<1> HIDE DEF d
<1>3. ~(d < c)
  BY <1>1, <1>2
<1>4. QED
  BY <1>1, <1>2, <1>3 DEF d

LEMMA ItemsAreWords ==
  ASSUME NEW t, IsNumber(t)
  PROVE  t # Open /\ t # Close /\ t # Stop
BY DEF IsNumber, Open, Close, Stop

LEMMA SignsDiffer == Open # Close /\ Open # Stop /\ Close # Stop /\ ~Known(Open) /\ ~Known(Close)
BY DEF Open, Close, Stop, Known

\* What the places of a bracket hold.
LEMMA BracketIs ==
  ASSUME NEW w, Listed(w), NEW i \in Brackets(w)
  PROVE  /\ i \in 1 .. Len(w) /\ w[i] = Open /\ Opens(w, i)
         /\ CloseAfter(w, i) \in i + 1 .. Len(w) /\ w[CloseAfter(w, i)] = Close
         /\ Len(w) \in Nat /\ DOMAIN w = 1 .. Len(w)
         /\ \A j \in i + 1 .. CloseAfter(w, i) - 1 : w[j] # Close
<1>1. i \in DOMAIN w /\ Opens(w, i) /\ CloseAfter(w, i) > 0
  BY DEF Brackets
<1>2. Len(w) \in Nat /\ DOMAIN w = 1 .. Len(w)
  BY ListedIs
<1>3. /\ CloseAfter(w, i) \in 0 .. Len(w) /\ i < CloseAfter(w, i) /\ w[CloseAfter(w, i)] = Close
      /\ \A j \in i + 1 .. CloseAfter(w, i) - 1 : w[j] # Close
  BY <1>1, CloseIs
<1>4. QED
  BY <1>1, <1>2, <1>3 DEF Opens

LEMMA MarkerIs ==
  ASSUME NEW w, Listed(w), NEW i \in Markers(w)
  PROVE  /\ i \in Brackets(w) /\ Within(w, i) # {}
         /\ \A k \in Within(w, i) : /\ IsNumber(w[k]) /\ w[k] # Open /\ w[k] # Close /\ w[k] # Stop
                                    /\ k \in 1 .. Len(w) /\ i < k /\ k < CloseAfter(w, i)
<1>1. i \in Brackets(w) /\ Within(w, i) # {} /\ \A k \in Within(w, i) : IsNumber(w[k])
  BY DEF Markers
<1>2. i \in 1 .. Len(w) /\ CloseAfter(w, i) \in i + 1 .. Len(w) /\ Len(w) \in Nat
  BY <1>1, BracketIs
<1>3. \A k \in Within(w, i) : k \in 1 .. Len(w) /\ i < k /\ k < CloseAfter(w, i)
  BY <1>2 DEF Within
<1>4. QED
  BY <1>1, <1>3, ItemsAreWords

LEMMA BracketsApart ==
  ASSUME NEW w, Listed(w), NEW i \in Brackets(w), NEW j \in DOMAIN w, Opens(w, j), i < j
  PROVE  CloseAfter(w, i) < j
<1>1. /\ i \in 1 .. Len(w) /\ w[i] = Open /\ Len(w) \in Nat /\ j \in 1 .. Len(w)
      /\ CloseAfter(w, i) \in i + 1 .. Len(w)
  BY BracketIs
<1>2. i \in 1 .. j - 1
  BY <1>1
<1>3. PICK k \in i + 1 .. j - 1 : w[k] = Close
  BY <1>1, <1>2 DEF Opens
<1>4. k \in i + 1 .. Len(w)
  BY <1>1
<1>5. CloseAfter(w, i) <= k
  BY <1>1, <1>3, <1>4, CloseIs
<1>6. QED
  BY <1>1, <1>5

\* A place is in one bracket at most.
LEMMA OneBracket ==
  ASSUME NEW w, Listed(w), NEW i \in Brackets(w), NEW j \in Brackets(w),
         NEW p \in i .. CloseAfter(w, i), p \in j .. CloseAfter(w, j)
  PROVE  i = j
<1>1. /\ i \in 1 .. Len(w) /\ j \in 1 .. Len(w) /\ Len(w) \in Nat
      /\ DOMAIN w = 1 .. Len(w) /\ Opens(w, i) /\ Opens(w, j)
      /\ CloseAfter(w, i) \in 1 .. Len(w) /\ CloseAfter(w, j) \in 1 .. Len(w)
  <2>1. /\ i \in 1 .. Len(w) /\ CloseAfter(w, i) \in i + 1 .. Len(w) /\ Len(w) \in Nat
        /\ DOMAIN w = 1 .. Len(w) /\ Opens(w, i)
    BY BracketIs
  <2>2. j \in 1 .. Len(w) /\ CloseAfter(w, j) \in j + 1 .. Len(w) /\ Opens(w, j)
    BY BracketIs
  <2>3. QED
    BY <2>1, <2>2
<1>2. ~(i < j)
  <2>1. i < j => CloseAfter(w, i) < j
    BY <1>1, BracketsApart
  <2>2. QED
    BY <1>1, <2>1
<1>3. ~(j < i)
  <2>1. j < i => CloseAfter(w, j) < i
    BY <1>1, BracketsApart
  <2>2. QED
    BY <1>1, <2>1
<1>4. QED
  BY <1>1, <1>2, <1>3

\* What is dropped is in one marker: its unknown items, or all of it.
DroppedFrom(w, i, p) ==
  /\ i \in Markers(w) /\ i \in Brackets(w) /\ p \in i .. CloseAfter(w, i)
  /\ IF Stays(w, i) THEN p \in Within(w, i) /\ ~Known(w[p]) ELSE TRUE

LEMMA DroppedIs ==
  ASSUME NEW w, Listed(w), NEW p
  PROVE  p \in Dropped(w) <=> \E i \in Markers(w) : DroppedFrom(w, i, p)
<1>1. p \in Dropped(w) <=>
        \E i \in Markers(w) : IF Stays(w, i) THEN p \in Within(w, i) /\ ~Known(w[p]) ELSE p \in i .. CloseAfter(w, i)
  BY DEF Dropped
<1>2. ASSUME NEW i \in Markers(w)
      PROVE  i \in Brackets(w) /\ (p \in Within(w, i) => p \in i .. CloseAfter(w, i))
  <2>1. i \in Brackets(w)
    BY MarkerIs
  <2>2. CloseAfter(w, i) \in Int /\ i \in Int
    BY <2>1, BracketIs
  <2>3. QED
    BY <2>1, <2>2 DEF Within
<1>3. QED
  BY <1>1, <1>2 DEF DroppedFrom

\* A bracket that stays closes as before; one that goes is a marker.
LEMMA OpenDropped ==
  ASSUME NEW w, Listed(w), NEW j \in Dropped(w), w[j] = Open
  PROVE  j \in Markers(w) /\ ~Stays(w, j)
<1>1. PICK i \in Markers(w) : DroppedFrom(w, i, j)
  BY DroppedIs
<1>2. /\ i \in Brackets(w) /\ j \in i .. CloseAfter(w, i)
      /\ Stays(w, i) => j \in Within(w, i)
  BY <1>1 DEF DroppedFrom
<1>3. i \in 1 .. Len(w) /\ CloseAfter(w, i) \in i + 1 .. Len(w) /\ w[CloseAfter(w, i)] = Close /\ Len(w) \in Nat
  BY <1>2, BracketIs
<1>4. j \notin Within(w, i)
  BY MarkerIs
<1>5. j # CloseAfter(w, i)
  BY <1>3, SignsDiffer
<1>6. j = i
  BY <1>2, <1>3, <1>4, <1>5 DEF Within
<1>7. QED
  BY <1>2, <1>4, <1>6

LEMMA CloseStays ==
  ASSUME NEW w, Listed(w), NEW o \in DOMAIN w, w[o] = Open, o \notin Dropped(w), CloseAfter(w, o) > 0
  PROVE  CloseAfter(w, o) \notin Dropped(w)
<1> DEFINE c == CloseAfter(w, o)
<1>1. /\ Len(w) \in Nat /\ o \in 1 .. Len(w) /\ c \in 1 .. Len(w) /\ o < c /\ w[c] = Close
      /\ \A k \in o + 1 .. c - 1 : w[k] # Close
  <2>1. Len(w) \in Nat /\ DOMAIN w = 1 .. Len(w)
    BY ListedIs
  <2>2. /\ c \in 0 .. Len(w) /\ c > 0 /\ o < c /\ w[c] = Close
        /\ \A k \in o + 1 .. c - 1 : w[k] # Close
    BY CloseIs
  <2>3. QED
    BY <2>1, <2>2
<1> HIDE DEF c
<1> SUFFICES ASSUME c \in Dropped(w) PROVE FALSE
  BY DEF c
<1>2. PICK i \in Markers(w) : DroppedFrom(w, i, c)
  BY DroppedIs
<1>3. /\ i \in Brackets(w) /\ c \in i .. CloseAfter(w, i)
      /\ Stays(w, i) => c \in Within(w, i)
  BY <1>2 DEF DroppedFrom
<1>4. /\ i \in 1 .. Len(w) /\ CloseAfter(w, i) \in i + 1 .. Len(w) /\ w[i] = Open /\ Opens(w, i)
  BY <1>3, BracketIs
<1>5. c \notin Within(w, i) /\ o \notin Within(w, i)
  BY <1>1, MarkerIs
<1>6. c # i
  BY <1>1, <1>4, SignsDiffer
<1>7. c = CloseAfter(w, i)
  BY <1>1, <1>3, <1>4, <1>5, <1>6 DEF Within
<1>8. o # i
  <2>1. DroppedFrom(w, i, i)
    BY <1>3, <1>4, <1>5 DEF DroppedFrom
  <2>2. i \in Dropped(w)
    BY <2>1, DroppedIs
  <2>3. QED
    BY <2>2
<1>9. o < i
  BY <1>1, <1>4, <1>5, <1>7, <1>8 DEF Within
<1>10. PICK k \in o + 1 .. i - 1 : w[k] = Close
  <2>1. o \in 1 .. i - 1
    BY <1>1, <1>4, <1>9
  <2>2. QED
    BY <2>1, <1>4 DEF Opens
<1>11. k \in o + 1 .. c - 1
  BY <1>1, <1>4, <1>7
<1>12. QED
  BY <1>1, <1>10, <1>11

-----------------------------------------------------------------------------
(***************************************************************************)
(* Sanitising.  It drops items and whole markers: the brackets that are    *)
(* left are the brackets that were, and the markers the markers.           *)
(***************************************************************************)
Sanitises(w, t, at) == Listed(w) /\ Filters(w, DOMAIN w \ Dropped(w), t, at)

LEMMA SanitisedIs ==
  ASSUME NEW w, Listed(w)
  PROVE  \E at : Sanitises(w, Sanitised(w), at)
BY AtPlacesFilters DEF Sanitised, Sanitises

LEMMA Standing ==
  ASSUME NEW w, NEW t, NEW at, Sanitises(w, t, at)
  PROVE  /\ Listed(w) /\ Len(w) \in Nat /\ DOMAIN w = 1 .. Len(w)
         /\ Listed(t) /\ Len(t) \in Nat /\ DOMAIN t = 1 .. Len(t)
         /\ \A n \in DOMAIN t : /\ at[n] \in DOMAIN w /\ at[n] \in 1 .. Len(w) /\ at[n] \notin Dropped(w)
                                /\ t[n] = w[at[n]]
         /\ \A n, m \in DOMAIN t : n < m <=> at[n] < at[m]
         /\ \A i \in DOMAIN w : i \notin Dropped(w) => \E n \in DOMAIN t : at[n] = i
<1>1. Listed(w) /\ Listed(t)
  BY DEF Sanitises, Filters
<1>2. Len(w) \in Nat /\ DOMAIN w = 1 .. Len(w) /\ Len(t) \in Nat /\ DOMAIN t = 1 .. Len(t)
  BY <1>1, ListedIs
<1>3. \A n \in DOMAIN t : at[n] \in DOMAIN w \ Dropped(w) /\ t[n] = w[at[n]]
  BY DEF Sanitises, Filters
<1>4. /\ \A n, m \in DOMAIN t : n < m <=> at[n] < at[m]
      /\ \A i \in DOMAIN w \ Dropped(w) : \E n \in DOMAIN t : at[n] = i
  BY DEF Sanitises, Filters
<1>5. QED
  BY <1>1, <1>2, <1>3, <1>4

LEMMA OpensAlike ==
  ASSUME NEW w, NEW t, NEW at, Sanitises(w, t, at), NEW n \in DOMAIN t
  PROVE  Opens(t, n) <=> Opens(w, at[n])
<1>1. /\ Listed(w) /\ Len(w) \in Nat /\ DOMAIN w = 1 .. Len(w)
      /\ Len(t) \in Nat /\ DOMAIN t = 1 .. Len(t)
      /\ \A m \in DOMAIN t : at[m] \in 1 .. Len(w) /\ at[m] \notin Dropped(w) /\ t[m] = w[at[m]]
      /\ \A k, m \in DOMAIN t : k < m <=> at[k] < at[m]
      /\ \A i \in DOMAIN w : i \notin Dropped(w) => \E m \in DOMAIN t : at[m] = i
  BY Standing
<1>2. ASSUME Opens(w, at[n]), NEW m \in 1 .. n - 1, t[m] = Open
      PROVE  \E k \in m + 1 .. n - 1 : t[k] = Close
  <2> DEFINE o == at[m]
             c == CloseAfter(w, o)
  <2>1. m \in DOMAIN t /\ m < n /\ n \in 1 .. Len(t)
    BY <1>1
  <2>2. o \in 1 .. at[n] - 1 /\ w[o] = Open /\ o \in DOMAIN w /\ o \notin Dropped(w) /\ at[n] \in 1 .. Len(w)
    BY <1>1, <1>2, <2>1
  <2>3. PICK j \in o + 1 .. at[n] - 1 : w[j] = Close
    BY <1>2, <2>2 DEF Opens
  <2> HIDE DEF o
  <2>4. j \in o + 1 .. Len(w)
    BY <1>1, <2>2
  <2>5. c \in 0 .. Len(w) /\ c > 0 /\ c <= j /\ o < c /\ w[c] = Close
    BY <1>1, <2>2, <2>3, <2>4, CloseIs
  <2>6. c \notin Dropped(w)
    BY <1>1, <2>2, <2>5, CloseStays
  <2> HIDE DEF c
  <2>7. PICK k \in DOMAIN t : at[k] = c
    BY <1>1, <2>5, <2>6
  <2>8. o < c /\ c < at[n] /\ o = at[m] /\ at[n] \in Nat /\ o \in Nat /\ c \in Nat
    <3>1. c < at[n]
      BY <2>2, <2>3, <2>5
    <3>2. QED
      BY <2>2, <2>5, <3>1 DEF o
  <2>9. at[m] < at[k] /\ at[k] < at[n]
    BY <2>7, <2>8
  <2>10. m < k /\ k < n
    BY <1>1, <2>1, <2>7, <2>9
  <2>11. k \in m + 1 .. n - 1 /\ t[k] = Close
    BY <1>1, <2>1, <2>5, <2>7, <2>10
  <2>12. QED
    BY <2>11
<1>3. ASSUME Opens(t, n), NEW j \in 1 .. at[n] - 1, w[j] = Open
      PROVE  \E k \in j + 1 .. at[n] - 1 : w[k] = Close
  <2> SUFFICES ASSUME \A k \in j + 1 .. at[n] - 1 : w[k] # Close PROVE FALSE
    OBVIOUS
  <2>1. at[n] \in 1 .. Len(w) /\ w[at[n]] = Open /\ j \in DOMAIN w /\ j < at[n]
    BY <1>1, <1>3 DEF Opens
  <2>2. j \notin Dropped(w)
    <3> SUFFICES ASSUME j \in Dropped(w) PROVE FALSE
      OBVIOUS
    <3>1. j \in Markers(w)
      BY <1>1, <1>3, OpenDropped
    <3>2. CloseAfter(w, j) \in j + 1 .. Len(w) /\ w[CloseAfter(w, j)] = Close
      BY <1>1, <3>1, MarkerIs, BracketIs
    <3>3. CloseAfter(w, j) > at[n]
      BY <1>1, <2>1, <3>2, SignsDiffer
    <3>4. at[n] \in Within(w, j)
      BY <1>1, <2>1, <3>2, <3>3 DEF Within
    <3>5. QED
      BY <1>1, <2>1, <3>1, <3>4, MarkerIs
  <2>3. PICK m \in DOMAIN t : at[m] = j
    BY <1>1, <2>1, <2>2
  <2>4. m \in 1 .. n - 1 /\ t[m] = Open
    BY <1>1, <1>3, <2>1, <2>3
  <2>5. PICK q \in m + 1 .. n - 1 : t[q] = Close
    BY <1>3, <2>4 DEF Opens
  <2>6. q \in DOMAIN t /\ m < q /\ q < n
    BY <1>1, <2>4, <2>5
  <2>7. at[m] < at[q] /\ at[q] < at[n] /\ w[at[q]] = Close /\ at[q] \in Int
    BY <1>1, <2>3, <2>5, <2>6
  <2>8. at[q] \in j + 1 .. at[n] - 1
    <3>1. j \in Int /\ at[n] \in Int
      BY <2>1
    <3>2. j < at[q]
      BY <2>3, <2>7
    <3>3. QED
      BY <2>7, <3>1, <3>2
  <2>9. QED
    BY <2>7, <2>8
<1>4. t[n] = w[at[n]]
  BY <1>1
<1>5. QED
  BY <1>2, <1>3, <1>4 DEF Opens

LEMMA CloseAlike ==
  ASSUME NEW w, NEW t, NEW at, Sanitises(w, t, at), NEW n \in DOMAIN t, at[n] \in Brackets(w)
  PROVE  n \in Brackets(t) /\ CloseAfter(t, n) \in DOMAIN t /\ at[CloseAfter(t, n)] = CloseAfter(w, at[n])
<1>1. /\ Listed(w) /\ Len(w) \in Nat /\ DOMAIN w = 1 .. Len(w)
      /\ Listed(t) /\ Len(t) \in Nat /\ DOMAIN t = 1 .. Len(t)
      /\ \A m \in DOMAIN t : at[m] \in 1 .. Len(w) /\ at[m] \notin Dropped(w) /\ t[m] = w[at[m]]
      /\ \A k, m \in DOMAIN t : k < m <=> at[k] < at[m]
      /\ \A i \in DOMAIN w : i \notin Dropped(w) => \E m \in DOMAIN t : at[m] = i
  BY Standing
<1> DEFINE o == at[n]
           c == CloseAfter(w, o)
<1>2. /\ o \in 1 .. Len(w) /\ w[o] = Open /\ Opens(w, o) /\ o \notin Dropped(w)
      /\ c \in o + 1 .. Len(w) /\ w[c] = Close
      /\ \A j \in o + 1 .. c - 1 : w[j] # Close
  BY <1>1, BracketIs
<1>3. c \notin Dropped(w)
  <2>1. c > 0
    BY <1>1, <1>2
  <2>2. QED
    BY <1>1, <1>2, <2>1, CloseStays
<1> HIDE DEF c
<1>4. PICK q \in DOMAIN t : at[q] = c
  BY <1>1, <1>2, <1>3
<1>5. q \in n + 1 .. Len(t) /\ t[q] = Close
  BY <1>1, <1>2, <1>4
<1>6. ASSUME NEW j \in n + 1 .. q - 1 PROVE t[j] # Close
  <2>1. j \in DOMAIN t /\ n < j /\ j < q
    BY <1>1, <1>5
  <2>2. at[n] < at[j] /\ at[j] < at[q] /\ at[j] \in 1 .. Len(w)
    BY <1>1, <1>4, <2>1
  <2>3. at[j] \in o + 1 .. c - 1
    BY <1>1, <1>2, <1>4, <2>2
  <2>4. QED
    BY <1>1, <1>2, <2>1, <2>3
<1>7. CloseAfter(t, n) = q
  BY <1>1, <1>5, <1>6, CloseFound
<1>8. Opens(t, n)
  BY <1>2, OpensAlike
<1>9. q > 0
  BY <1>1, <1>5
<1>10. QED
  BY <1>4, <1>7, <1>8, <1>9 DEF Brackets, c

LEMMA BracketsAlike ==
  ASSUME NEW w, NEW t, NEW at, Sanitises(w, t, at), NEW n \in Brackets(t)
  PROVE  n \in DOMAIN t /\ at[n] \in Brackets(w)
<1>1. /\ Listed(w) /\ Len(w) \in Nat /\ DOMAIN w = 1 .. Len(w)
      /\ Listed(t) /\ Len(t) \in Nat /\ DOMAIN t = 1 .. Len(t)
      /\ \A m \in DOMAIN t : at[m] \in 1 .. Len(w) /\ at[m] \notin Dropped(w) /\ t[m] = w[at[m]]
      /\ \A k, m \in DOMAIN t : k < m <=> at[k] < at[m]
  BY Standing
<1> DEFINE q == CloseAfter(t, n)
<1>2. n \in 1 .. Len(t) /\ Opens(t, n) /\ q \in n + 1 .. Len(t) /\ t[q] = Close
  BY <1>1, BracketIs
<1>3. Opens(w, at[n])
  BY <1>1, <1>2, OpensAlike
<1> HIDE DEF q
<1>4. n \in DOMAIN t /\ q \in DOMAIN t /\ n < q
  BY <1>1, <1>2
<1>5. at[n] \in 1 .. Len(w) /\ at[q] \in 1 .. Len(w) /\ at[n] < at[q] /\ w[at[q]] = Close
  BY <1>1, <1>2, <1>4
<1>6. at[q] \in at[n] + 1 .. Len(w) /\ at[n] \in DOMAIN w
  BY <1>1, <1>5
<1>7. CloseAfter(w, at[n]) > 0
  BY <1>1, <1>5, <1>6, CloseIs
<1>8. QED
  BY <1>3, <1>4, <1>6, <1>7 DEF Brackets

\* Within one marker, what goes is what does not exist; within other brackets, nothing.
LEMMA DropsOfMarker ==
  ASSUME NEW w, Listed(w), NEW i \in Brackets(w), i \notin Dropped(w), NEW p \in Within(w, i)
  PROVE  p \in Dropped(w) <=> i \in Markers(w) /\ ~Known(w[p])
<1>1. /\ i \in 1 .. Len(w) /\ CloseAfter(w, i) \in i + 1 .. Len(w) /\ Len(w) \in Nat
      /\ p \in i .. CloseAfter(w, i) /\ i \in i .. CloseAfter(w, i)
  <2>1. i \in 1 .. Len(w) /\ CloseAfter(w, i) \in i + 1 .. Len(w) /\ Len(w) \in Nat
    BY BracketIs
  <2>2. QED
    BY <2>1 DEF Within
<1>2. i \in Markers(w) => Stays(w, i)
  <2>1. i \in Markers(w) /\ ~Stays(w, i) => DroppedFrom(w, i, i)
    BY <1>1 DEF DroppedFrom
  <2>2. QED
    BY <2>1, DroppedIs
<1>3. ASSUME p \in Dropped(w) PROVE i \in Markers(w) /\ ~Known(w[p])
  <2>1. PICK j \in Markers(w) : DroppedFrom(w, j, p)
    BY <1>3, DroppedIs
  <2>2. j \in Brackets(w) /\ p \in j .. CloseAfter(w, j)
    BY <2>1 DEF DroppedFrom
  <2>3. i = j
    BY <1>1, <2>2, OneBracket
  <2>4. QED
    BY <1>2, <2>1, <2>3 DEF DroppedFrom
<1>4. ASSUME i \in Markers(w), ~Known(w[p]) PROVE p \in Dropped(w)
  <2>1. DroppedFrom(w, i, p)
    BY <1>1, <1>2, <1>4 DEF DroppedFrom
  <2>2. QED
    BY <1>4, <2>1, DroppedIs
<1>5. QED
  BY <1>3, <1>4

\* A marker that is left was one, and holds ids that exist.
LEMMA MarkersAreLeft ==
  ASSUME NEW w, NEW t, NEW at, Sanitises(w, t, at), NEW n \in Markers(t), NEW k \in Within(t, n)
  PROVE  Known(t[k])
<1>1. /\ Listed(w) /\ Len(w) \in Nat /\ DOMAIN w = 1 .. Len(w)
      /\ Listed(t) /\ Len(t) \in Nat /\ DOMAIN t = 1 .. Len(t)
      /\ \A m \in DOMAIN t : at[m] \in 1 .. Len(w) /\ at[m] \notin Dropped(w) /\ t[m] = w[at[m]]
      /\ \A j, m \in DOMAIN t : j < m <=> at[j] < at[m]
      /\ \A i \in DOMAIN w : i \notin Dropped(w) => \E m \in DOMAIN t : at[m] = i
  BY Standing
<1>2. /\ n \in Brackets(t) /\ Within(t, n) # {}
      /\ \A j \in Within(t, n) : IsNumber(t[j]) /\ j \in 1 .. Len(t) /\ n < j /\ j < CloseAfter(t, n)
  BY <1>1, MarkerIs
<1> DEFINE o == at[n]
<1>3. n \in DOMAIN t /\ o \in Brackets(w)
  BY <1>2, BracketsAlike
<1>4. CloseAfter(t, n) \in DOMAIN t /\ at[CloseAfter(t, n)] = CloseAfter(w, o)
  BY <1>3, CloseAlike
<1>5. o \in 1 .. Len(w) /\ CloseAfter(w, o) \in 1 .. Len(w) /\ o \notin Dropped(w)
  BY <1>1, <1>3, <1>4
\* Items of the two brackets.
<1>6. ASSUME NEW j \in Within(t, n) PROVE j \in DOMAIN t /\ at[j] \in Within(w, o)
  <2>1. j \in DOMAIN t /\ n < j /\ j < CloseAfter(t, n)
    BY <1>1, <1>2
  <2>2. o < at[j] /\ at[j] < CloseAfter(w, o) /\ at[j] \in 1 .. Len(w)
    BY <1>1, <1>3, <1>4, <2>1
  <2>3. QED
    BY <1>5, <2>1, <2>2 DEF Within
<1>7. ASSUME NEW j \in DOMAIN t, at[j] \in Within(w, o) PROVE j \in Within(t, n)
  <2>1. o < at[j] /\ at[j] < CloseAfter(w, o)
    BY <1>5, <1>7 DEF Within
  <2>2. n < j /\ j < CloseAfter(t, n)
    BY <1>1, <1>3, <1>4, <1>7, <2>1
  <2>3. n \in Nat /\ j \in Nat /\ CloseAfter(t, n) \in Nat
    BY <1>1, <1>3, <1>4, <1>7
  <2>4. j \in n + 1 .. CloseAfter(t, n) - 1
    BY <2>2, <2>3
  <2>5. QED
    BY <2>4 DEF Within
<1> HIDE DEF o
<1>8. o \in Markers(w)
  <2> SUFFICES ASSUME o \notin Markers(w) PROVE FALSE
    OBVIOUS
  <2>1. ASSUME NEW p \in Within(w, o) PROVE IsNumber(w[p])
    <3>1. p \in DOMAIN w /\ p \notin Dropped(w)
      <4>1. p \notin Dropped(w)
        BY <1>1, <1>3, <1>5, DropsOfMarker
      <4>2. p \in DOMAIN w
        BY <1>1, <1>5 DEF Within
      <4>3. QED
        BY <4>1, <4>2
    <3>2. PICK j \in DOMAIN t : at[j] = p
      BY <1>1, <3>1
    <3>3. j \in Within(t, n) /\ t[j] = w[p]
      BY <1>1, <1>7, <3>2
    <3>4. QED
      BY <1>2, <3>3
  <2>2. Within(w, o) # {}
    BY <1>2, <1>6
  <2>3. QED
    BY <1>3, <2>1, <2>2 DEF Markers
<1>9. k \in DOMAIN t /\ at[k] \in Within(w, o) /\ at[k] \notin Dropped(w) /\ t[k] = w[at[k]]
  BY <1>1, <1>6
<1>10. Known(w[at[k]])
  BY <1>1, <1>3, <1>5, <1>8, <1>9, DropsOfMarker
<1>11. QED
  BY <1>9, <1>10

\* An item that exists is left in a marker.
LEMMA CitedIsLeft ==
  ASSUME NEW w, NEW t, NEW at, Sanitises(w, t, at), NEW o \in Markers(w), NEW p \in Within(w, o), Known(w[p])
  PROVE  \E n \in Markers(t) : \E k \in Within(t, n) : t[k] = w[p]
<1>1. /\ Listed(w) /\ Len(w) \in Nat /\ DOMAIN w = 1 .. Len(w)
      /\ Listed(t) /\ Len(t) \in Nat /\ DOMAIN t = 1 .. Len(t)
      /\ \A m \in DOMAIN t : at[m] \in 1 .. Len(w) /\ at[m] \notin Dropped(w) /\ t[m] = w[at[m]]
      /\ \A j, m \in DOMAIN t : j < m <=> at[j] < at[m]
      /\ \A i \in DOMAIN w : i \notin Dropped(w) => \E m \in DOMAIN t : at[m] = i
  BY Standing
<1>2. /\ o \in Brackets(w) /\ Stays(w, o)
      /\ \A j \in Within(w, o) : IsNumber(w[j]) /\ j \in 1 .. Len(w) /\ o < j /\ j < CloseAfter(w, o)
  BY <1>1, MarkerIs DEF Stays
<1>3. o \in 1 .. Len(w) /\ w[o] = Open /\ CloseAfter(w, o) \in o + 1 .. Len(w)
  BY <1>1, <1>2, BracketIs
<1>4. o \notin Dropped(w)
  BY <1>1, <1>2, <1>3, OpenDropped
<1>5. p \notin Dropped(w)
  BY <1>1, <1>2, <1>4, DropsOfMarker
<1>6. PICK n \in DOMAIN t : at[n] = o
  BY <1>1, <1>3, <1>4
<1>7. PICK k \in DOMAIN t : at[k] = p
  BY <1>1, <1>2, <1>5
<1>8. n \in Brackets(t) /\ CloseAfter(t, n) \in DOMAIN t /\ at[CloseAfter(t, n)] = CloseAfter(w, o)
  BY <1>2, <1>6, CloseAlike
<1>9. ASSUME NEW j \in Within(t, n) PROVE IsNumber(t[j])
  <2>1. j \in DOMAIN t /\ n < j /\ j < CloseAfter(t, n)
    BY <1>1, <1>6, <1>8 DEF Within
  <2>2. o < at[j] /\ at[j] < CloseAfter(w, o) /\ at[j] \in 1 .. Len(w) /\ t[j] = w[at[j]]
    BY <1>1, <1>6, <1>8, <2>1
  <2>3. at[j] \in Within(w, o)
    BY <1>1, <1>3, <2>2 DEF Within
  <2>4. QED
    BY <1>2, <2>2, <2>3
<1>10. k \in Within(t, n)
  <2>1. o < p /\ p < CloseAfter(w, o)
    BY <1>2
  <2>2. n < k /\ k < CloseAfter(t, n)
    BY <1>1, <1>6, <1>7, <1>8, <2>1
  <2>3. QED
    BY <1>1, <1>6, <1>7, <1>8, <2>2 DEF Within
<1>11. n \in Markers(t)
  BY <1>8, <1>9, <1>10 DEF Markers
<1>12. t[k] = w[p]
  BY <1>1, <1>7
<1>13. QED
  BY <1>10, <1>11, <1>12

-----------------------------------------------------------------------------
(***************************************************************************)
(* Sentences.  A marker lies within one, and opens there as in the text.   *)
(***************************************************************************)
LEMMA EndIs ==
  ASSUME NEW t, Listed(t), NEW b \in DOMAIN t
  PROVE  /\ EndOf(t, b) \in b .. Len(t)
         /\ EndOf(t, b) = Len(t) \/ t[EndOf(t, b)] = Stop
<1> DEFINE stops == {j \in b .. Len(t) : t[j] = Stop}
           e     == EndOf(t, b)
<1>1. Len(t) \in Nat /\ b \in 1 .. Len(t)
  BY ListedIs
<1>2. e = IF stops = {} THEN Len(t) ELSE CHOOSE j \in stops : \A k \in stops : j <= k
  BY DEF EndOf
<1> HIDE DEF e
<1>3. CASE stops = {}
  <2>1. e = Len(t)
    BY <1>2, <1>3
  <2>2. QED
    BY <1>1, <2>1 DEF e
<1>4. CASE stops # {}
  <2>1. stops \in SUBSET Nat
    BY <1>1
  <2> HIDE DEF stops
  <2>2. \E j \in stops : \A k \in stops : j <= k
    BY <1>4, <2>1, LeastNumber
  <2>3. e \in stops
    BY <1>2, <1>4, <2>2
  <2>4. e \in b .. Len(t) /\ t[e] = Stop
    BY <2>3 DEF stops
  <2>5. QED
    BY <2>4 DEF e
<1>5. QED
  BY <1>3, <1>4

\* What holds no end of a sentence is in one sentence.
LEMMA SentenceOf ==
  ASSUME NEW t, Listed(t), NEW n \in 1 .. Len(t), NEW c \in n .. Len(t), \A j \in n .. c : t[j] # Stop
  PROVE  \E b \in Beginnings(t) : b <= n /\ c <= EndOf(t, b)
<1> DEFINE D == {n - j : j \in {j \in Beginnings(t) : j <= n}}
<1>1. /\ Len(t) \in Nat /\ DOMAIN t = 1 .. Len(t) /\ n \in Nat /\ c \in Nat /\ n <= c
      /\ Beginnings(t) \subseteq 1 .. Len(t)
  <2>1. Len(t) \in Nat /\ DOMAIN t = 1 .. Len(t)
    BY ListedIs
  <2>2. QED
    BY <2>1 DEF Beginnings
<1>2. D \in SUBSET Nat
  BY <1>1
<1>3. 1 \in Beginnings(t) /\ 1 <= n
  BY <1>1 DEF Beginnings
<1>4. n - 1 \in D
  BY <1>3
<1>5. PICK m \in D : \A k \in D : m <= k
  <2> HIDE DEF D
  <2>1. QED
    BY <1>2, <1>4, LeastNumber
<1>6. PICK b \in Beginnings(t) : b <= n /\ m = n - b
  BY <1>5
<1>7. ASSUME NEW j \in b .. n - 1 PROVE t[j] # Stop
  <2> SUFFICES ASSUME t[j] = Stop PROVE FALSE
    OBVIOUS
  <2>1. j + 1 \in DOMAIN t /\ (j + 1) - 1 = j /\ j + 1 <= n /\ b < j + 1 /\ j + 1 \in Int /\ b \in Int
    BY <1>1, <1>6
  <2>2. j + 1 \in Beginnings(t)
    BY <2>1 DEF Beginnings
  <2>3. n - (j + 1) \in D
    BY <2>1, <2>2
  <2>4. n - b <= n - (j + 1)
    BY <1>5, <1>6, <2>3
  <2>5. QED
    BY <1>1, <2>1, <2>4
<1>8. EndOf(t, b) \in b .. Len(t) /\ (EndOf(t, b) = Len(t) \/ t[EndOf(t, b)] = Stop)
  BY <1>1, <1>6, EndIs
<1>9. \A j \in b .. c : t[j] # Stop
  <2>1. \A j \in b .. c : j \in b .. n - 1 \/ j \in n .. c
    BY <1>1, <1>6
  <2>2. QED
    BY <1>7, <2>1
<1>10. c <= EndOf(t, b)
  BY <1>1, <1>6, <1>8, <1>9
<1>11. QED
  BY <1>6, <1>10

LEMMA SentenceIs ==
  ASSUME NEW t, Listed(t), NEW b \in Beginnings(t)
  PROVE  LET s == SentenceAt(t, b)
         IN  /\ b \in 1 .. Len(t) /\ EndOf(t, b) \in b .. Len(t) /\ Len(t) \in Nat
             /\ Listed(s) /\ Len(s) = EndOf(t, b) - b + 1 /\ DOMAIN s = 1 .. Len(s)
             /\ \A j \in 1 .. Len(s) : s[j] = t[b + j - 1]
<1> DEFINE s == SentenceAt(t, b)
           e == EndOf(t, b)
<1>1. Len(t) \in Nat /\ DOMAIN t = 1 .. Len(t) /\ b \in 1 .. Len(t) /\ b \in DOMAIN t
  BY ListedIs DEF Beginnings
<1>2. e \in b .. Len(t)
  BY <1>1, EndIs
<1>3. PICK T : t \in Seq(T)
  BY DEF Listed
<1> HIDE DEF e
<1>4. b \in Int /\ e \in Int /\ \A j \in b .. e : t[j] \in T
  BY <1>1, <1>2, <1>3
<1>5. s = SubSeq(t, b, e)
  BY DEF SentenceAt, e
<1> HIDE DEF s
<1>6. /\ s \in Seq(T) /\ Len(s) = (IF b <= e THEN e - b + 1 ELSE 0)
      /\ \A j \in 1 .. e - b + 1 : s[j] = t[b + j - 1]
  BY <1>4, <1>5, SubSeqProperties
<1>7. Listed(s) /\ Len(s) = e - b + 1
  BY <1>1, <1>2, <1>6 DEF Listed
<1>8. DOMAIN s = 1 .. Len(s)
  BY <1>7, ListedIs
<1>9. QED
  BY <1>1, <1>2, <1>6, <1>7, <1>8 DEF s, e

\* A marker of the text, b - 1 places on, is one of its sentence.
LEMMA MarkerOfSentence ==
  ASSUME NEW t, Listed(t), NEW n \in Markers(t), NEW b \in Beginnings(t), b <= n,
         CloseAfter(t, n) <= EndOf(t, b)
  PROVE  LET s == SentenceAt(t, b)
         IN  /\ n - b + 1 \in Markers(s)
             /\ \A k \in Within(t, n) : k - b + 1 \in Within(s, n - b + 1) /\ s[k - b + 1] = t[k]
             /\ \A j \in Within(s, n - b + 1) : b + j - 1 \in Within(t, n) /\ s[j] = t[b + j - 1]
<1> DEFINE s == SentenceAt(t, b)
           e == EndOf(t, b)
           c == CloseAfter(t, n)
           m == n - b + 1
           d == c - b + 1
<1>1. /\ b \in 1 .. Len(t) /\ e \in b .. Len(t) /\ Len(t) \in Nat
      /\ Listed(s) /\ Len(s) = e - b + 1 /\ DOMAIN s = 1 .. Len(s)
      /\ \A j \in 1 .. Len(s) : s[j] = t[b + j - 1]
  BY SentenceIs
<1>2. /\ n \in Brackets(t) /\ Within(t, n) # {}
      /\ \A k \in Within(t, n) : IsNumber(t[k]) /\ k \in 1 .. Len(t) /\ n < k /\ k < c
  BY MarkerIs
<1>3. /\ n \in 1 .. Len(t) /\ t[n] = Open /\ Opens(t, n) /\ c \in n + 1 .. Len(t) /\ t[c] = Close
      /\ \A j \in n + 1 .. c - 1 : t[j] # Close
  BY <1>2, BracketIs
<1>4. c <= e
  OBVIOUS
<1> HIDE DEF s, e, c
<1>5. m \in 1 .. Len(s) /\ d \in m + 1 .. Len(s) /\ b + m - 1 = n /\ b + d - 1 = c
  BY <1>1, <1>3, <1>4
<1>6. s[m] = Open /\ s[d] = Close
  BY <1>1, <1>3, <1>5
<1>7. ASSUME NEW j \in m + 1 .. d - 1
      PROVE  b + j - 1 \in n + 1 .. c - 1 /\ s[j] = t[b + j - 1]
  BY <1>1, <1>3, <1>4
<1>8. CloseAfter(s, m) = d
  <2>1. m \in DOMAIN s /\ \A j \in m + 1 .. d - 1 : s[j] # Close
    BY <1>1, <1>3, <1>5, <1>7
  <2> HIDE DEF m, d
  <2>2. QED
    BY <1>1, <1>5, <1>6, <2>1, CloseFound
<1>9. Opens(s, m)
  <2> SUFFICES ASSUME NEW j \in 1 .. m - 1, s[j] = Open
               PROVE  \E k \in j + 1 .. m - 1 : s[k] = Close
    BY <1>6 DEF Opens
  <2>1. b + j - 1 \in 1 .. n - 1 /\ t[b + j - 1] = Open /\ j \in 1 .. Len(s)
    BY <1>1, <1>3, <1>5
  <2>2. PICK k \in b + j - 1 + 1 .. n - 1 : t[k] = Close
    BY <1>3, <2>1 DEF Opens
  <2>3. k - b + 1 \in j + 1 .. m - 1 /\ k - b + 1 \in 1 .. Len(s) /\ b + (k - b + 1) - 1 = k
    BY <1>1, <1>3, <1>5, <2>1
  <2>4. s[k - b + 1] = t[k]
    BY <1>1, <2>3
  <2>5. QED
    BY <2>2, <2>3, <2>4
<1>10. ASSUME NEW k \in Within(t, n)
       PROVE  k - b + 1 \in Within(s, m) /\ s[k - b + 1] = t[k]
  <2>1. k \in 1 .. Len(t) /\ n < k /\ k < c
    BY <1>2
  <2>2. k - b + 1 \in m + 1 .. d - 1 /\ k - b + 1 \in 1 .. Len(s) /\ b + (k - b + 1) - 1 = k
    BY <1>1, <1>3, <1>5, <2>1
  <2>3. s[k - b + 1] = t[k]
    BY <1>1, <2>2
  <2> HIDE DEF m, d
  <2>4. QED
    BY <1>8, <2>2, <2>3 DEF Within
<1>11. ASSUME NEW j \in Within(s, m)
       PROVE  b + j - 1 \in Within(t, n) /\ s[j] = t[b + j - 1]
  <2>1. j \in m + 1 .. d - 1
    <3> HIDE DEF m, d
    <3>1. QED
      BY <1>8 DEF Within
  <2>2. QED
    BY <1>7, <2>1 DEF Within, c
<1>12. m \in Markers(s)
  <2>1. d > 0 /\ m \in DOMAIN s
    BY <1>1, <1>3, <1>5
  <2> HIDE DEF m, d
  <2>2. m \in Brackets(s)
    BY <1>8, <1>9, <2>1 DEF Brackets
  <2>3. QED
    BY <1>2, <1>10, <1>11, <2>2 DEF Markers
<1>13. QED
  BY <1>10, <1>11, <1>12 DEF s

-----------------------------------------------------------------------------
(***************************************************************************)
(* Statements.  What the merger cites is read in a statement, and printed  *)
(* there with the sources of the claim.                                    *)
(***************************************************************************)
LEMMA StatementIs ==
  ASSUME NEW t, Listed(t), NEW b \in Beginnings(t), ClaimRefs(SentenceAt(t, b)) # {}
  PROVE  \E i \in DOMAIN Statements(t) :
           Statements(t)[i] = [text |-> SentenceAt(t, b), refs |-> ClaimRefs(SentenceAt(t, b))]
<1> DEFINE read == [i \in DOMAIN t |-> [text |-> SentenceAt(t, i), refs |-> ClaimRefs(SentenceAt(t, i))]]
           S    == {i \in Beginnings(t) : read[i].refs # {}}
<1>1. Len(t) \in Nat /\ DOMAIN t = 1 .. Len(t) /\ Beginnings(t) \subseteq DOMAIN t
  BY ListedIs DEF Beginnings
<1>2. \A i \in DOMAIN t : read[i] = [text |-> SentenceAt(t, i), refs |-> ClaimRefs(SentenceAt(t, i))]
  OBVIOUS
<1>3. Statements(t) = AtPlaces(read, S)
  BY DEF Statements
<1>4. read = [i \in 1 .. Len(t) |-> read[i]]
  BY <1>1
<1> HIDE DEF read
<1>5. Listed(read) /\ DOMAIN read = 1 .. Len(t)
  BY <1>1, <1>4, ListedByLength
<1>6. b \in S
  <2>1. b \in DOMAIN t
    BY <1>1
  <2>2. read[b] = [text |-> SentenceAt(t, b), refs |-> ClaimRefs(SentenceAt(t, b))]
    BY <1>2, <2>1
  <2>3. read[b].refs = ClaimRefs(SentenceAt(t, b))
    BY <2>2
  <2>4. QED
    BY <2>3
<1>7. S \in SUBSET DOMAIN read
  BY <1>1, <1>5
<1> HIDE DEF S
<1>8. PICK at : Filters(read, S, AtPlaces(read, S), at)
  BY <1>5, <1>7, AtPlacesFilters
<1>9. PICK i \in DOMAIN AtPlaces(read, S) : at[i] = b
  BY <1>6, <1>8 DEF Filters
<1>10. AtPlaces(read, S)[i] = read[b]
  BY <1>8, <1>9 DEF Filters
<1>11. QED
  BY <1>1, <1>2, <1>3, <1>10

LEMMA RefsOfMarker ==
  ASSUME NEW s, Listed(s), NEW m \in Markers(s), NEW k \in Within(s, m), Known(s[k])
  PROVE  s[k][2] \in ClaimRefs(s)
<1>1. /\ m \in Brackets(s)
      /\ \A j \in Within(s, m) : s[j] # Open /\ j \in 1 .. Len(s) /\ m < j /\ j < CloseAfter(s, m)
  BY MarkerIs
<1>2. CloseAfter(s, m) \in Int /\ m \in Int /\ Len(s) \in Nat
  BY <1>1, BracketIs
<1>3. s[k - 1] = Open => k - 1 = m
  <2> SUFFICES ASSUME k - 1 # m PROVE s[k - 1] # Open
    OBVIOUS
  <2>1. k - 1 \in Within(s, m)
    BY <1>1, <1>2 DEF Within
  <2>2. QED
    BY <1>1, <2>1
<1>4. s[k][2] \in ItemsRead(s, m)
  BY <1>3 DEF ItemsRead
<1>5. QED
  BY <1>1, <1>4 DEF ClaimRefs

LEMMA RenderedCites ==
  ASSUME NEW s, Listed(s), NEW m \in Markers(s), \A j \in Within(s, m) : Known(s[j]), NEW k \in Within(s, m)
  PROVE  Labels(Claims[s[k][2]]) \subseteq LabelsIn(Rendered(s))
<1> DEFINE marks == {i \in DOMAIN s : MarkedAt(s, i) # {}}
           shown == [i \in DOMAIN s |-> IF i \in marks THEN Cite(Labels(MarkedAt(s, i))) ELSE s[i]]
           S     == marks \cup (DOMAIN s \ Hidden(s))
           out   == AtPlaces(shown, S)
<1>1. m \in Brackets(s)
  BY MarkerIs
<1>2. m \in DOMAIN s /\ s[m] = Open /\ Len(s) \in Nat /\ DOMAIN s = 1 .. Len(s)
  BY <1>1, BracketIs
<1>3. \A j \in Within(s, m) : IsNumber(s[j]) /\ s[j][2] \in DOMAIN Claims
  BY DEF Known, IsNumber
<1>4. MarkedAt(s, m) = UNION {Claims[s[j][2]] : j \in Within(s, m)}
  BY <1>2, <1>3 DEF MarkedAt
<1>5. Claims[s[k][2]] \subseteq MarkedAt(s, m)
  BY <1>4
<1>6. CASE MarkedAt(s, m) = {}
  <2>1. Labels(Claims[s[k][2]]) = {}
    BY <1>5, <1>6 DEF Labels
  <2>2. QED
    BY <2>1
<1>7. CASE MarkedAt(s, m) # {}
  <2>1. Rendered(s) = out
    BY DEF Rendered
  <2>2. m \in marks /\ S \in SUBSET DOMAIN s /\ m \in S
    BY <1>2, <1>7
  <2>3. shown = [i \in 1 .. Len(s) |-> shown[i]] /\ shown[m] = Cite(Labels(MarkedAt(s, m)))
    BY <1>2, <2>2
  <2> HIDE DEF shown, S
  <2>4. Listed(shown) /\ DOMAIN shown = DOMAIN s
    BY <1>2, <2>3, ListedByLength
  <2>5. PICK at : Filters(shown, S, out, at)
    BY <2>2, <2>4, AtPlacesFilters
  <2>6. PICK i \in DOMAIN out : at[i] = m
    BY <2>2, <2>5 DEF Filters
  <2>7. out[i] = Cite(Labels(MarkedAt(s, m)))
    BY <2>3, <2>5, <2>6 DEF Filters
  <2> HIDE DEF out
  <2>8. out[i] \in Range(out)
    BY <2>6 DEF Range
  <2>9. Labels(MarkedAt(s, m)) \subseteq LabelsIn(out)
    <3>1. out[i][1] = "cite" /\ out[i][2] = Labels(MarkedAt(s, m))
      BY <2>7 DEF Cite
    <3>2. QED
      BY <2>8, <3>1 DEF LabelsIn
  <2>10. Labels(Claims[s[k][2]]) \subseteq Labels(MarkedAt(s, m))
    BY <1>5 DEF Labels
  <2>11. QED
    BY <2>1, <2>9, <2>10
<1>8. QED
  BY <1>6, <1>7

\* A statement tells of claim n, and shows its sources once it is rendered.
Tells(statement, n) ==
  n \in statement.refs /\ Labels(Claims[n]) \subseteq LabelsIn(Rendered(statement.text))

LEMMA CitedIsTold ==
  ASSUME NEW w, Listed(w), NEW n \in CitedIn(w)
  PROVE  \E i \in DOMAIN Statements(Sanitised(w)) : Tells(Statements(Sanitised(w))[i], n)
<1> DEFINE t == Sanitised(w)
<1>1. PICK at : Sanitises(w, t, at)
  BY SanitisedIs
<1>2. PICK o \in Markers(w) : \E p \in Within(w, o) : Known(w[p]) /\ n = w[p][2]
  BY DEF CitedIn
<1>3. PICK p \in Within(w, o) : Known(w[p]) /\ n = w[p][2]
  BY <1>2
<1> HIDE DEF t
<1>4. Listed(t) /\ Len(t) \in Nat /\ DOMAIN t = 1 .. Len(t)
  BY <1>1, Standing
<1>5. PICK m \in Markers(t) : \E k \in Within(t, m) : t[k] = w[p]
  BY <1>1, <1>3, CitedIsLeft
<1>6. PICK k \in Within(t, m) : t[k] = w[p]
  BY <1>5
<1>7. \A j \in Within(t, m) : Known(t[j])
  BY <1>1, MarkersAreLeft
<1> DEFINE c == CloseAfter(t, m)
<1>8. m \in 1 .. Len(t) /\ c \in m .. Len(t) /\ \A j \in m .. c : t[j] # Stop
  <2>1. /\ m \in Brackets(t)
        /\ \A j \in Within(t, m) : t[j] # Stop
    BY <1>4, MarkerIs
  <2>2. m \in 1 .. Len(t) /\ t[m] = Open /\ c \in m + 1 .. Len(t) /\ t[c] = Close
    BY <1>4, <2>1, BracketIs
  <2>3. \A j \in m .. c : j = m \/ j = c \/ j \in Within(t, m)
    BY <2>2 DEF Within
  <2> HIDE DEF c
  <2>4. QED
    BY <1>4, <2>1, <2>2, <2>3, SignsDiffer
<1>9. PICK b \in Beginnings(t) : b <= m /\ c <= EndOf(t, b)
  <2> HIDE DEF c
  <2>1. QED
    BY <1>4, <1>8, SentenceOf
<1> DEFINE s == SentenceAt(t, b)
           a == m - b + 1
           q == k - b + 1
<1>10. Listed(s)
  BY <1>4, SentenceIs
<1>11. /\ a \in Markers(s) /\ q \in Within(s, a) /\ s[q] = t[k]
      /\ \A j \in Within(s, a) : b + j - 1 \in Within(t, m) /\ s[j] = t[b + j - 1]
  BY <1>4, <1>9, MarkerOfSentence
<1> HIDE DEF s, a, q
<1>12. \A j \in Within(s, a) : Known(s[j])
  BY <1>7, <1>11
<1>13. Known(s[q]) /\ s[q][2] = n
  BY <1>3, <1>6, <1>11
<1>14. n \in ClaimRefs(s)
  BY <1>10, <1>11, <1>13, RefsOfMarker
<1>15. Labels(Claims[n]) \subseteq LabelsIn(Rendered(s))
  BY <1>10, <1>11, <1>12, <1>13, RenderedCites
<1>16. PICK i \in DOMAIN Statements(t) : Statements(t)[i] = [text |-> s, refs |-> ClaimRefs(s)]
  BY <1>4, <1>14, StatementIs DEF s
<1>17. Tells(Statements(t)[i], n)
  BY <1>14, <1>15, <1>16 DEF Tells
<1>18. QED
  BY <1>17 DEF t

-----------------------------------------------------------------------------
(***************************************************************************)
(* The stage.  What is read and printed is what the merger wrote.          *)
(***************************************************************************)
TextIInv ==
  /\ Listed(merged) /\ \A i \in DOMAIN merged : Listed(merged[i])
  /\ phase = "read" => statements = Statements(Sanitised(Wrote))
  /\ phase = "printed" =>
       statements = LET read == Statements(Sanitised(Wrote))
                    IN IF lit THEN [i \in DOMAIN read |-> [read[i] EXCEPT !.text = Rendered(@)]] ELSE read

LEMMA TextsAreListed ==
  ASSUME NEW text \in Texts \cup SectionTexts
  PROVE  Listed(text)
BY NarrativeAssumption DEF Listed

LEMMA SectionIsListed ==
  ASSUME NEW h, NEW text \in SectionTexts
  PROVE  Listed(WithHeading(h, text))
<1>1. Listed(text) /\ Listed(<<Title(h)>>)
  <2>1. <<Title(h)>> \in Seq({Title(h)})
    OBVIOUS
  <2>2. QED
    BY <2>1, TextsAreListed DEF Listed
<1>2. Listed(<<Title(h)>> \o text)
  BY <1>1, ListedConcat
<1>3. QED
  BY <1>1, <1>2 DEF WithHeading

LEMMA TextInit == Init => TextIInv
BY DEF Init, TextIInv, Listed

LEMMA TextStep == TextIInv /\ [Next]_vars => TextIInv'
<1> SUFFICES ASSUME TextIInv, [Next]_vars PROVE TextIInv'
  OBVIOUS
<1>1. lit' = lit
  BY SameProfile
<1>2. CASE UNCHANGED <<merged, statements>> /\ (phase' = phase \/ phase' \notin {"read", "printed"})
  <2>1. Wrote' = Wrote
    BY <1>2 DEF Wrote
  <2>2. QED
    BY <1>1, <1>2, <2>1 DEF TextIInv
<1>3. CASE \E text \in Texts : merged' = <<text>> /\ phase' = "saved"
  <2>1. PICK text \in Texts : merged' = <<text>> /\ phase' = "saved"
    BY <1>3
  <2>2. Listed(text)
    BY TextsAreListed
  <2>3. Listed(<<text>>) /\ DOMAIN <<text>> = {1} /\ <<text>>[1] = text
    BY DEF Listed
  <2>4. QED
    BY <2>1, <2>2, <2>3 DEF TextIInv
<1>4. CASE MergeSection
  <2> DEFINE h == plan.sections[Len(merged) + 1].heading
  <2>1. PICK text \in SectionTexts : merged' = Append(merged, WithHeading(h, text))
    BY <1>4 DEF MergeSection
  <2> DEFINE x == WithHeading(h, text)
  <2>2. Listed(x)
    BY SectionIsListed
  <2> HIDE DEF x
  <2>3. PICK T : merged \in Seq(T)
    BY DEF TextIInv, Listed
  <2>4. merged \in Seq(T \cup {x})
    BY <2>3, SeqMonotonic
  <2>5. /\ merged' \in Seq(T \cup {x})
        /\ \A i \in DOMAIN merged' : merged'[i] = x \/ (i \in DOMAIN merged /\ merged'[i] = merged[i])
    BY <2>1, <2>4 DEF x
  <2>6. phase' \in {"saved", "merge"}
    BY <1>4 DEF MergeSection
  <2>7. QED
    BY <2>2, <2>5, <2>6 DEF TextIInv, Listed
<1>5. CASE Save
  <2>1. Wrote' = Wrote
    BY <1>5 DEF Save, Wrote
  <2>2. QED
    BY <1>5, <2>1 DEF Save, TextIInv
<1>6. CASE PrintReview
  <2>1. Wrote' = Wrote
    BY <1>6 DEF PrintReview, Wrote
  <2>2. QED
    BY <1>1, <1>6, <2>1 DEF PrintReview, TextIInv
<1>7. QED
  BY <1>2, <1>3, <1>4, <1>5, <1>6 DEF Next, vars, stageVars, Tournament, StartStage, Onward, Restore, Generate, GenerateFails,
     Fail, Evaluate, CritiqueSkipped, Critique, CritiqueFails, EndStep, Refine, RefineFails, ToMerge, MergeWhole,
     MergeFails, Done

\* Whatever a model writes, with brackets in any state and in any place: a claim the
\* merger cites is cited in the end, with its sources where they are printed, and what
\* does not exist is not (narrative.rs:960, engine.rs:1092, citations.rs:146).
THEOREM CitedClaimsSurvive == Spec => []CitationsSurvive
<1>1. TextIInv => CitationsSurvive
  <2> SUFFICES ASSUME TextIInv, phase = "printed" PROVE CitationsSurvive
    BY DEF CitationsSurvive
  <2> DEFINE w    == Wrote
             read == Statements(Sanitised(w))
  <2>1. Listed(w)
    BY FlatIsListed DEF TextIInv, Wrote
  <2>2. statements = IF lit THEN [i \in DOMAIN read |-> [read[i] EXCEPT !.text = Rendered(@)]] ELSE read
    BY DEF TextIInv
  <2> HIDE DEF w
  <2>3. ASSUME NEW n \in CitedIn(w)
        PROVE  \E i \in DOMAIN statements :
                 n \in statements[i].refs /\ (lit => Labels(Claims[n]) \subseteq LabelsIn(statements[i].text))
    <3>1. PICK i \in DOMAIN read : Tells(read[i], n)
      BY <2>1, CitedIsTold
    <3>2. CASE lit
      <4>1. i \in DOMAIN statements /\ statements[i] = [read[i] EXCEPT !.text = Rendered(@)]
        BY <2>2, <3>1, <3>2
      <4>2. statements[i].refs = read[i].refs /\ statements[i].text = Rendered(read[i].text)
        BY <4>1
      <4>3. QED
        BY <3>1, <4>1, <4>2 DEF Tells
    <3>3. CASE ~lit
      BY <2>2, <3>1, <3>3 DEF Tells
    <3>4. QED
      BY <3>2, <3>3
  <2>4. ASSUME NEW i \in Markers(Sanitised(w)), NEW k \in Within(Sanitised(w), i)
        PROVE  Known(Sanitised(w)[k])
    BY <2>1, SanitisedIs, MarkersAreLeft
  <2>5. QED
    BY <2>3, <2>4 DEF CitationsSurvive, w
<1>2. QED
  BY <1>1, TextInit, TextStep, PTL DEF Spec
=============================================================================
