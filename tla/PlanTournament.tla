---------------------------- MODULE PlanTournament ----------------------------
(***************************************************************************)
(* The plan tournament between stage 2 and stage 3 (ttd/plan.rs): drafts   *)
(* of a plan, each linted and, if the lints pass, judged; the best of them *)
(* redrafted while it is not valid, at most Redrafts times.  A tournament  *)
(* that yields no plan leaves stage 3 to work without one.                 *)
(***************************************************************************)
EXTENDS Fitness, CitationText, EngineConfig

CONSTANTS
  None,
  Plans,         \* what a model may answer for a plan
  JudgeAnswers,  \* what a judge may answer
  Redrafts,      \* PLAN_WINNER_REDRAFT_CAP
  MaxPerId,      \* PLAN_MAX_SECTIONS_PER_ID
  Tensions,      \* the number of the synthesis's areas of disagreement
  PlanFaults     \* subset of {"draft", "judge", "redraft"}

\* One of four, or the plan cannot be read: a hybrid has no name.
Archetypes == {"narrative-arc", "problem-lattice", "mece-taxonomy", "thesis-and-convergence"}
\* An id that a section lists, as it is spelt; a plan's terms and threads by whether
\* there are any.
PlanId(kind, n, spelling) == [kind |-> kind, n |-> n, spelling |-> spelling]

ASSUME PlanAssumption ==
  /\ Redrafts \in Nat /\ MaxPerId \in Nat /\ Tensions \in Nat
  /\ PlanFaults \subseteq {"draft", "judge", "redraft"}
  /\ JudgeAnswers \subseteq [number : Seq(Int), text : Seq(1 .. 5), later : Seq(Int), prose : Seq(1 .. 5)]
  /\ SumsToOne(PlanWeights)

VARIABLES
  config,    \* how the run is set up
  round,     \* what the tournament does next
  entrants,  \* the candidates, in the order they were drafted
  drafted,   \* drafts asked for
  winner,    \* the best so far, None before the selection
  redrafts,  \* redrafts of the winner
  calls,     \* calls_used
  judged     \* history: the keys of every candidate that was evaluated

NDrafts == PlanDrafts(config)
planVars == <<round, entrants, drafted, winner, redrafts, calls, judged>>

IsPlan(p) ==
  p.archetype \in Archetypes /\ p.focal /\ \A i \in DOMAIN p.sections : p.sections[i].heading # None

PlanTypeOK ==
  /\ round \in {"draft", "redraft", "won", "failed", "over"}
  /\ drafted \in 0 .. NDrafts /\ redrafts \in 0 .. Redrafts /\ Len(entrants) <= drafted
  /\ calls \in Nat
  /\ \A e \in Range(entrants) \cup ({winner} \ {None}) : e.plan = None \/ IsPlan(e.plan)

-----------------------------------------------------------------------------
(* Reading and linting.                                                    *)

NClaims == Len(Claims)

\* parse_review_plan: without a <plan>, an archetype of the vocabulary and a
\* focal question there is no plan; a section needs a heading.
Parsed(raw) ==
  IF raw.archetype \notin Archetypes \/ ~raw.focal THEN None
  ELSE [raw EXCEPT !.sections = SelectSeq(@, LAMBDA s : s.heading # None)]

Listings(plan) ==
  UNION {{i} \X DOMAIN plan.sections[i].ids : i \in DOMAIN plan.sections}
IdAt(plan, l) == plan.sections[l[1]].ids[l[2]]
Exists(id) ==
  \/ id.kind = "C" /\ id.n \in 1 .. NClaims
  \/ id.kind = "T" /\ id.n \in 1 .. Tensions
Covered(plan) == {IdAt(plan, l).n : l \in {l \in Listings(plan) : IdAt(plan, l).kind = "C"}}

\* plan_lint_claim_id_cross_check: as many listings of one spelling as sections
\* are allowed, and three claims of five covered.
IdsPass(plan) ==
  \/ plan.sections = <<>>
  \/ /\ \A l \in Listings(plan) :
          /\ Exists(IdAt(plan, l))
          /\ Cardinality({k \in Listings(plan) : IdAt(plan, k) = IdAt(plan, l)}) <= MaxPerId
     /\ 5 * Cardinality(Covered(plan)) >= 3 * NClaims
\* run_plan_lints, after plan_lint_core_fields.
LintsPass(plan) == plan.terms /\ plan.threads /\ IdsPass(plan)

-----------------------------------------------------------------------------
(* Forms: what the prompts of the tournament state, and what they ask for. *)

\* The corpus digest: the claims and the tensions, each under its id.
DigestShows == {"claims", "support", "grade", "disagreement"}
IdsOffered  == {PlanId("C", n, "plain") : n \in 1 .. NClaims} \cup {PlanId("T", n, "plain") : n \in 1 .. Tensions}

Sectioned(shape) == shape = "sectioned"
\* The elements a draft has to have; a skeleton only in the long shape.
Elements(shape) == {"archetype", "focal", "terms", "threads"} \cup {e \in {"sections"} : Sectioned(shape)}
\* The rules the skeleton is checked by, stated with the lint's own constants.
LeastAssigned == (3 * NClaims + 4) \div 5
RulesStated(shape) ==
  {[ids |-> IdsOffered, most |-> MaxPerId, least |-> LeastAssigned] : x \in {x \in {shape} : Sectioned(x)}}

PlanForm(call, shape, shows) == [call |-> call, shape |-> shape, plan |-> None, shows |-> shows, ranks |-> {}]
PlanDraftForm(shape) ==
  PlanForm("plan", shape, DigestShows \cup {"question", "archetypes"} \cup {r \in {"rules"} : Sectioned(shape)})
PlanRedraftForm(shape) ==
  [PlanDraftForm(shape) EXCEPT !.call = "replan", !.shows = @ \cup {"plan", "feedback"}]
PlanJudgeForm == PlanForm("planjudge", None, DigestShows \cup {"plan"})

\* What a writer, a rewriter, a merger and the judge of conformance see of the plan.
PlanBlock(plan) ==
  {"archetype", "focal"} \cup {x \in {"terms"} : plan.terms} \cup {x \in {"threads"} : plan.threads}
    \cup {x \in {"skeleton"} : plan.sections # <<>>}

-----------------------------------------------------------------------------
(* Evaluation.                                                             *)

ScoresRead == {JudgeRead(a) : a \in JudgeAnswers} \cup (IF "judge" \in PlanFaults THEN {<<>>} ELSE {})
NoScores   == [d \in DOMAIN PlanWeights |-> <<>>]

\* is_valid_plan: no veto, and corpus_fit is at least 4.
ValidPlan(veto, scores) == ~veto /\ scores.corpus_fit # <<>> /\ scores.corpus_fit[1] >= 4
Key(veto, scores) == [valid |-> ValidPlan(veto, scores), total |-> Total(scores, PlanWeights)]

\* evaluate_plan_candidate: the judges are asked only about a plan that passes.
Vetoed(raw) == Parsed(raw) = None \/ ~LintsPass(Parsed(raw))
\* The keys of what the judges may answer; and what may come of an answer.
KeysJudged    == {Key(FALSE, scores) : scores \in [DOMAIN PlanWeights -> ScoresRead]}
Entrant(raw, key) == [plan |-> Parsed(raw), veto |-> Vetoed(raw), key |-> key]
Entrants ==
  LET keys == KeysJudged
  IN UNION {{Entrant(raw, key) : key \in IF Vetoed(raw) THEN {Key(TRUE, NoScores)} ELSE keys} : raw \in Plans}
Judges(e) == IF e.veto THEN 0 ELSE Cardinality(DOMAIN PlanWeights)

-----------------------------------------------------------------------------
PlanInit ==
  /\ round = "draft" /\ entrants = <<>> /\ drafted = 0 /\ winner = None
  /\ redrafts = 0 /\ calls = 0 /\ judged = {}

\* A draft that fails is counted, and skipped.
DraftFails ==
  /\ round = "draft" /\ drafted < NDrafts /\ "draft" \in PlanFaults
  /\ drafted' = drafted + 1 /\ calls' = calls + 1
  /\ UNCHANGED <<round, entrants, winner, redrafts, judged>>

DraftPlan ==
  /\ round = "draft" /\ drafted < NDrafts
  /\ \E e \in Entrants :
       /\ entrants' = Append(entrants, e) /\ judged' = judged \cup {e.key}
       /\ calls' = calls + 1 + Judges(e)
  /\ drafted' = drafted + 1
  /\ UNCHANGED <<round, winner, redrafts>>

\* NoCandidates.
NobodyEntered ==
  /\ round = "draft" /\ drafted = NDrafts /\ entrants = <<>>
  /\ round' = "failed"
  /\ UNCHANGED <<entrants, drafted, winner, redrafts, calls, judged>>

\* The losers of the selection are kept for the log alone.
Select ==
  /\ round = "draft" /\ drafted = NDrafts /\ entrants # <<>>
  /\ LET keys == [i \in DOMAIN entrants |-> entrants[i].key]
     IN winner' = entrants[BestPlace(keys)]
  /\ round' = "redraft" /\ entrants' = <<>>
  /\ UNCHANGED <<drafted, redrafts, calls, judged>>

MayRedraft == round = "redraft" /\ ~winner.key.valid /\ redrafts < Redrafts

RedraftFails ==
  /\ MayRedraft /\ "redraft" \in PlanFaults
  /\ redrafts' = redrafts + 1 /\ calls' = calls + 1
  /\ UNCHANGED <<round, entrants, drafted, winner, judged>>

\* The better of the two stays, the winner if they tie.  A mutant takes the redraft.
BetterTakesLast(e, f) == f  \* Mutant of Better
Better(e, f) == IF BetterKey(f.key, e.key) THEN f ELSE e
Redraft ==
  /\ MayRedraft
  /\ \E e \in Entrants :
       /\ winner' = Better(winner, e) /\ judged' = judged \cup {e.key}
       /\ calls' = calls + 1 + Judges(e)
  /\ redrafts' = redrafts + 1
  /\ UNCHANGED <<round, entrants, drafted>>

\* A winner that could not be read ends the tournament with an error.
Conclude ==
  /\ round = "redraft" /\ ~MayRedraft
  /\ round' = IF winner.plan = None THEN "failed" ELSE "won"
  /\ UNCHANGED <<entrants, drafted, winner, redrafts, calls, judged>>

PlanNext ==
  DraftFails \/ DraftPlan \/ NobodyEntered \/ Select \/ RedraftFails \/ Redraft \/ Conclude

\* The prompts a step sends.
PlanAsks(shape) ==
  {f \in {PlanDraftForm(shape)} : drafted' > drafted} \cup {f \in {PlanRedraftForm(shape)} : redrafts' > redrafts}
    \cup {f \in {PlanJudgeForm} : calls' > calls + 1}

ThePlan == IF round = "won" THEN winner.plan ELSE None
=============================================================================
