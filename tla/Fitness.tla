------------------------------- MODULE Fitness -------------------------------
(***************************************************************************)
(* What becomes of a judge's answer (ttd/fitness.rs): the ladder that      *)
(* finds a score in it, the weighted total over the dimensions that were   *)
(* scored, and the order that puts the best candidate first.  A score that *)
(* was not found is <<>>, one that was is <<n>>.                           *)
(***************************************************************************)
EXTENDS Integers, Sequences, FiniteSets, FiniteSetsExt

\* An answer of a judge: the whole number that stands alone in its first <score>
\* element, the digits 1 to 5 that stand alone in another text of that element,
\* the number in a later <score>, and such digits among the first 200 characters.
Tagged(n) == [number |-> <<n>>, text |-> <<>>, later |-> <<>>, prose |-> <<>>]
Worded(s) == [number |-> <<>>, text |-> s, later |-> <<>>, prose |-> s]
Spoken(s) == [number |-> <<>>, text |-> <<>>, later |-> <<>>, prose |-> s]
Silent    == Spoken(<<>>)

Clamped(n)   == <<Max({1, Min({5, n})})>>
First(s)     == IF s = <<>> THEN <<>> ELSE <<Head(s)>>
Or(s, t)     == IF s # <<>> THEN s ELSE t

\* parse_fitness_response: the tiers in the order they are tried.
JudgeRead(answer) ==
  Or(IF answer.number # <<>> THEN Clamped(answer.number[1]) ELSE First(answer.text),
     Or(IF answer.later # <<>> THEN Clamped(answer.later[1]) ELSE <<>>, First(answer.prose)))

-----------------------------------------------------------------------------
(* The weight tables, in hundredths.                                       *)

GraphWeights       == [groundedness |-> 30, coverage |-> 25, atomicity |-> 15, non_redundancy |-> 10,
                       relation_coherence |-> 10, dissent_preservation |-> 10]
V2GraphWeights     == [faithfulness |-> 30, coverage |-> 25, tension_visibility |-> 15,
                       lineage_clarity |-> 15, recency_balance |-> 15]
SynthesisWeights   == [faithfulness |-> 25, completeness |-> 20, traceability |-> 15, neutrality |-> 15,
                       dissent_visibility |-> 15, structural_clarity |-> 10]
V2SynthesisWeights == [faithfulness |-> 30, coverage |-> 20, tension_visibility |-> 20,
                       lineage_clarity |-> 15, recency_balance |-> 15]
PlanWeights      == [corpus_fit |-> 50, archetype_singularity |-> 25, focal_question_grip |-> 25]
NarrativeWeights == [structural_clarity |-> 25, dissent_visibility |-> 20, faithfulness |-> 15,
                     completeness |-> 15, neutrality |-> 15, traceability |-> 10]
V2Weights        == [lineage_clarity |-> 25, tension_visibility |-> 20, faithfulness |-> 20,
                     coverage |-> 20, recency_balance |-> 15]
PlannedWeights   == [plan_conformance |-> 25, lineage_clarity |-> 20, tension_visibility |-> 15,
                     faithfulness |-> 15, coverage |-> 15, recency_balance |-> 10]

\* V2_JUDGE_DIMS, and the same dimensions with anchors for prose.
V2Dims          == {"faithfulness", "coverage", "tension_visibility", "lineage_clarity", "recency_balance"}
V2NarrativeDims == V2Dims

SumOver(dims, points) == FoldSet(LAMBDA d, n : n + points[d], 0, dims)
\* check_weight_sum, at the construction of every machine.
SumsToOne(weights) == SumOver(DOMAIN weights, weights) = 100

\* weighted_sum as a fraction: a dimension without a score takes no part in it.
Scored(scores) == {d \in DOMAIN scores : scores[d] # <<>>}
Total(scores, weights) ==
  IF Scored(scores) = {} THEN [num |-> 0, den |-> 1]
  ELSE [num |-> SumOver(Scored(scores), [d \in Scored(scores) |-> scores[d][1] * weights[d]]),
        den |-> SumOver(Scored(scores), weights)]
Above(t, u) == t.num * u.den > u.num * t.den

\* The sort key (valid, total): does e come before f by it?
BetterKey(e, f) == (e.valid /\ ~f.valid) \/ (e.valid = f.valid /\ Above(e.total, f.total))
\* The first place of a list of keys after the stable sort.
BestPlace(keys) ==
  CHOOSE i \in DOMAIN keys :
    /\ \A j \in DOMAIN keys : ~BetterKey(keys[j], keys[i])
    /\ \A j \in 1 .. i - 1  : BetterKey(keys[i], keys[j])
=============================================================================
