---------------------------- MODULE NarrativeStage ----------------------------
(***************************************************************************)
(* Stage 3 from the plan tournament to the printed review: trajectories of *)
(* drafts, critiques and rewrites (ttd/stages/narrative.rs), the merge,    *)
(* section by section where plan and candidates allow it, the sanitising   *)
(* of citation markers, the statements the engine reads, the citations the *)
(* pipeline prints.  Ranking, guards and permits are TtdStage's; here the  *)
(* trajectories follow one another, and the candidates stand best first.   *)
(***************************************************************************)
EXTENDS PlanTournament

CONSTANTS
  Configs,       \* the configurations of EngineConfig that are considered
  Texts,         \* what a model may write for a whole narrative
  SectionTexts,  \* what it may write for one section
  Faults         \* subset of {"draft", "critique", "refine", "merge"}

ASSUME NarrativeAssumption ==
  /\ \A c \in Configs : c.profile \in PromptProfiles /\ c.ttd.planMode \in PlanModes /\ c.resume \subseteq StageNames
  /\ Faults \subseteq {"draft", "critique", "refine", "merge"}
  /\ \A text \in Texts \cup SectionTexts : text \in Seq(Range(text))
  /\ SumsToOne(NarrativeWeights) /\ SumsToOne(V2Weights) /\ SumsToOne(PlannedWeights)

VARIABLES
  phase,       \* what the stage does next
  plan,        \* the plan it works under, or None
  begun,       \* trajectories begun
  step,        \* denoise steps taken by the present one
  doc,         \* its narrative
  candidates,  \* the narratives of the finished ones
  merged,      \* the merger's answers so far
  statements,  \* narrative_statements
  narrative,   \* the narrative of the artifact
  booked,      \* llm_calls of the present trajectory
  spent,       \* history: the calls its steps made
  asked        \* history: the forms of the prompts the stage has sent

stageVars == <<config, phase, plan, begun, step, doc, candidates, merged,
               statements, narrative, booked, spent, asked>>
vars == <<planVars, stageVars>>

machine == NarrativeMachine(config)
lit == Lit(machine.profile)
resolving == machine.config.resolving

TypeOK ==
  /\ PlanTypeOK /\ config \in Configs
  /\ phase \in {"plan", "draft", "evaluate", "critique", "refine", "merge", "saved", "read", "printed", "failed"}
  /\ begun \in 0 .. Drafts /\ step \in 0 .. Rounds /\ Len(candidates) <= begun
  /\ booked \in Nat /\ spent \in Nat

-----------------------------------------------------------------------------
(* Forms: what a prompt shows, and the shape it asks for.                  *)

\* One shape for every prompt of the run.
Shape == NarrativeShape(machine.profile)

Form(call, shows) == [call |-> call, shape |-> Shape, plan |-> None, shows |-> shows, ranks |-> {}]
Free(form)    == [form EXCEPT !.shape = None]
\* The base form with the plan appended, where there is one.
Planned(form) == IF plan = None THEN form ELSE [form EXCEPT !.plan = plan, !.shows = @ \cup PlanBlock(plan)]
Lists == {"agreement", "disagreement", "uncertainties"}

\* The first dialect shows the level of agreement on a claim, the others its support.
DraftFormV1  == Form("draft", Lists \cup {"claims", "level"})
DraftFormLit == Form("draft", Lists \cup {"claims", "support"})
DraftForm    == IF lit THEN Planned(DraftFormLit) ELSE DraftFormV1

CritiqueFormV1  == Free(Form("critique", {"narrative", "feedback", "claims", "level"}))
CritiqueFormLit == Free(Form("critique", {"narrative", "feedback", "claims", "support"}))
CritiqueForm    == IF lit THEN CritiqueFormLit ELSE CritiqueFormV1

\* Only the first dialect shows the claims to who rewrites or merges.  The mutant
\* forgets the plan in a rewrite.
RefineFormV1  == Form("refine", {"narrative", "critique", "feedback", "claims", "level"})
RefineFormLit == Form("refine", {"narrative", "critique", "feedback"})
RefineFormPlanless == RefineFormLit  \* Mutant of RefineForm
RefineForm    == IF lit THEN Planned(RefineFormLit) ELSE RefineFormV1

MergeRules    == {"verdict", "terms", "phrases", "citations"}
MergeFormV1   == Form("merge", {"candidates", "claims", "level"})
MergeFormLit  == Form("merge", {"candidates"})
MergeFormPlanned == Planned([MergeFormLit EXCEPT !.shows = @ \cup MergeRules])
MergeForm     == CASE ~lit               -> MergeFormV1
                   [] lit /\ plan = None -> MergeFormLit
                   [] OTHER              -> MergeFormPlanned

\* One section: the bodies the candidates have for it, each with its rank, and the
\* last paragraph of the section before, if one was written.
LastParagraph(text) == {x \in {"tail"} : text # <<>>}
SectionForm(ranks) ==
  [Form("section", {"archetype", "focal", "terms", "entry", "bodies"} \cup MergeRules
                     \cup (IF merged = <<>> THEN {} ELSE LastParagraph(Last(merged))))
     EXCEPT !.plan = plan, !.ranks = ranks]

JudgeFormV1   == Free(Form("judge", {"narrative"}))
JudgeFormLit  == Free(Form("judge", DigestShows \cup {"narrative"}))
JudgeForm     == IF lit THEN JudgeFormLit ELSE JudgeFormV1
ConformanceForm == Planned(Form("conformance", {"narrative"}))

-----------------------------------------------------------------------------
(* Judges and what is booked for them.                                     *)

\* The judges NarrativeEvalFitness asks, one call each.
JudgeDims ==
  IF ~lit THEN {"faithfulness", "completeness", "traceability", "neutrality", "dissent_visibility",
                "structural_clarity"}
  ELSE V2NarrativeDims \cup (IF plan = None THEN {} ELSE {"plan_conformance"})
\* weights(), from whose length the loop books.  A mutant has no table for plans.
WeightsPlanless == IF lit THEN V2Weights ELSE NarrativeWeights  \* Mutant of Weights
Weights == CASE ~lit               -> NarrativeWeights
             [] lit /\ plan = None -> V2Weights
             [] OTHER              -> PlannedWeights

Book(n, made) == booked' = booked + n /\ spent' = spent + made
Asks(forms) == asked' = asked \cup forms
MayFail(f) == f \in Faults
Fail == phase' = "failed"

-----------------------------------------------------------------------------
Init ==
  /\ PlanInit
  /\ config \in Configs
  /\ phase = "plan" /\ plan = None /\ begun = 0 /\ step = 0 /\ doc = <<>> /\ candidates = <<>>
  /\ merged = <<>> /\ statements = <<>> /\ narrative = <<>>
  /\ booked = 0 /\ spent = 0 /\ asked = {}

Tournament ==
  /\ phase = "plan" /\ WantsPlan(config)
  /\ PlanNext /\ Asks(PlanAsks(Shape))
  /\ UNCHANGED <<config, phase, plan, begun, step, doc, candidates, merged, statements,
                 narrative, booked, spent>>

Forget == entrants' = <<>> /\ winner' = None /\ judged' = {} /\ calls' = 0 /\ redrafts' = 0 /\ drafted' = 0
OnwardStrict == IF round = "failed" THEN "failed" ELSE "draft"  \* Mutant of Onward: the error is passed on
Onward == "draft"
\* Stage 3 takes the winning plan, if there is one; after a failed tournament, or
\* where none was wanted, it works without.
StartStage ==
  /\ phase = "plan" /\ "narrative" \notin config.resume
  /\ WantsPlan(config) => round \in {"won", "failed"}
  /\ plan' = ThePlan /\ round' = "over" /\ Forget /\ phase' = Onward
  /\ asked' = {f \in asked : f.shape # None}
  /\ UNCHANGED <<config, begun, step, doc, candidates, merged, statements, narrative,
                 booked, spent>>

\* A narrative that was checkpointed, sanitised, by a process that crashed: neither
\* the tournament nor the stage runs again, and Save reads it as it read the first.
Restore ==
  /\ phase = "plan" /\ "narrative" \in config.resume
  /\ \E text \in Texts : merged' = <<text>>
  /\ phase' = "saved"
  /\ UNCHANGED <<planVars, config, plan, begun, step, doc, candidates, statements, narrative, booked,
                 spent, asked>>

-----------------------------------------------------------------------------
(* One trajectory.                                                         *)

Generate ==
  /\ phase = "draft" /\ begun < Drafts
  /\ \E text \in Texts : doc' = text
  /\ begun' = begun + 1 /\ step' = 0 /\ booked' = 0 /\ spent' = 0 /\ Asks({DraftForm})
  /\ phase' = IF Rounds = 0 THEN "draft" ELSE "evaluate"
  /\ candidates' = IF Rounds = 0 THEN Append(candidates, doc') ELSE candidates
  /\ UNCHANGED <<planVars, config, plan, merged, statements, narrative>>

\* A draft that fails fails the stage.
GenerateFails ==
  /\ phase = "draft" /\ begun < Drafts /\ MayFail("draft") /\ Fail
  /\ begun' = begun + 1 /\ Asks({DraftForm})
  /\ UNCHANGED <<planVars, config, plan, step, doc, candidates, merged, statements, narrative, booked,
                 spent>>

\* A judge that fails has no score; the veto of other stages is not used here.
Evaluate ==
  /\ phase = "evaluate"
  /\ Book(Cardinality(DOMAIN Weights), Cardinality(JudgeDims))
  /\ Asks({JudgeForm} \cup (IF plan = None THEN {} ELSE {ConformanceForm}))
  /\ phase' = "critique"
  /\ UNCHANGED <<planVars, config, plan, begun, step, doc, candidates, merged, statements,
                 narrative>>

EndStep(text) ==
  /\ doc' = text /\ step' = step + 1
  /\ IF step + 1 < Rounds THEN phase' = "evaluate" /\ UNCHANGED candidates
     ELSE phase' = "draft" /\ candidates' = Append(candidates, text)

\* identify makes no call when nothing could be resolved, but one is booked.
CritiqueSkipped ==
  /\ phase = "critique" /\ ~resolving
  /\ Book(1, 0) /\ EndStep(doc)
  /\ UNCHANGED <<planVars, config, plan, begun, merged, statements, narrative, asked>>
Critique ==
  /\ phase = "critique" /\ resolving
  /\ Book(1, 1) /\ Asks({CritiqueForm})
  /\ \/ phase' = "refine" /\ UNCHANGED <<step, doc, candidates>>  \* gaps were read
     \/ EndStep(doc)                                              \* none were
  /\ UNCHANGED <<planVars, config, plan, begun, merged, statements, narrative>>
CritiqueFails ==
  /\ phase = "critique" /\ resolving /\ MayFail("critique") /\ Fail
  /\ UNCHANGED <<planVars, config, plan, begun, step, doc, candidates, merged, statements,
                 narrative, booked, spent, asked>>

\* The whole narrative is written anew.
Refine ==
  /\ phase = "refine"
  /\ Book(1, 1) /\ Asks({RefineForm})
  /\ \E text \in Texts : EndStep(text)
  /\ UNCHANGED <<planVars, config, plan, begun, merged, statements, narrative>>
RefineFails ==
  /\ phase = "refine" /\ MayFail("refine") /\ Fail
  /\ UNCHANGED <<planVars, config, plan, begun, step, doc, candidates, merged, statements,
                 narrative, booked, spent, asked>>

-----------------------------------------------------------------------------
(* The merge.                                                              *)

Fanned == phase = "draft" /\ begun = Drafts
ToMerge ==
  /\ Fanned /\ phase' = "merge"
  /\ UNCHANGED <<planVars, config, plan, begun, step, doc, candidates, merged, statements,
                 narrative, booked, spent, asked>>

Carriers(h) == {i \in DOMAIN candidates : HasSection(candidates[i], h)}
\* merge_planned: the long shape, a plan with sections, two candidates with each.
Sectionable ==
  /\ Shape = "sectioned" /\ plan # None /\ plan.sections # <<>>
  /\ \A i \in DOMAIN plan.sections : Cardinality(Carriers(plan.sections[i].heading)) >= 2

\* The heading is put back unless the answer begins with one, be it another.
WithHeading(h, text) == IF text # <<>> /\ IsTitle(Head(text)) THEN text ELSE <<Title(h)>> \o text

MergeWhole ==
  /\ phase = "merge" /\ ~Sectionable
  /\ \E text \in Texts : merged' = <<text>>
  /\ Asks({MergeForm})
  /\ phase' = "saved"
  /\ UNCHANGED <<planVars, config, plan, begun, step, doc, candidates, statements, narrative,
                 booked, spent>>

MergeSection ==
  /\ phase = "merge" /\ Sectionable
  /\ LET section == plan.sections[Len(merged) + 1] IN
       /\ \E text \in SectionTexts : merged' = Append(merged, WithHeading(section.heading, text))
       /\ Asks({SectionForm(Carriers(section.heading))})
  /\ phase' = IF Len(merged') = Len(plan.sections) THEN "saved" ELSE "merge"
  /\ UNCHANGED <<planVars, config, plan, begun, step, doc, candidates, statements, narrative,
                 booked, spent>>

\* One failed section fails the merge, and with it the stage.
MergeFails ==
  /\ phase = "merge" /\ MayFail("merge") /\ Fail
  /\ UNCHANGED <<planVars, config, plan, begun, step, doc, candidates, merged, statements,
                 narrative, booked, spent, asked>>

-----------------------------------------------------------------------------
(* After the merge: the engine saves and reads, the pipeline prints.       *)

\* What the merger wrote, before it is sanitised.
Wrote == FlattenSeq(merged)

Save ==
  /\ phase = "saved"
  /\ narrative' = Sanitised(Wrote) /\ statements' = Statements(Sanitised(Wrote))
  /\ phase' = "read"
  /\ UNCHANGED <<planVars, config, plan, begun, step, doc, candidates, merged, booked, spent,
                 asked>>

\* The first dialect prints the artifact as it is.
PrintReview ==
  /\ phase = "read"
  /\ narrative' = IF lit THEN WithReferences(Rendered(narrative)) ELSE narrative
  /\ statements' = IF lit THEN [i \in DOMAIN statements |-> [statements[i] EXCEPT !.text = Rendered(@)]]
                          ELSE statements
  /\ phase' = "printed"
  /\ UNCHANGED <<planVars, config, plan, begun, step, doc, candidates, merged, booked, spent,
                 asked>>

Done == phase \in {"printed", "failed"} /\ UNCHANGED vars

Next ==
  \/ Tournament \/ StartStage \/ Restore
  \/ Generate \/ GenerateFails \/ Evaluate \/ CritiqueSkipped \/ Critique \/ CritiqueFails
  \/ Refine \/ RefineFails
  \/ ToMerge \/ MergeWhole \/ MergeSection \/ MergeFails
  \/ Save \/ PrintReview \/ Done

Spec     == Init /\ [][Next]_vars
\* The tournament runs on: every call of it returns or fails, by the client's timeout.
FairSpec == Spec /\ WF_vars(Tournament \/ StartStage \/ Restore)

-----------------------------------------------------------------------------
(* Properties.                                                             *)

\* No candidate the tournament evaluated, draft or redraft, comes before its winner in
\* the order of the keys (plan.rs:1184, 1217); and a vetoed plan wins only where no
\* judge scored any candidate.  There it may: a candidate whose judges were all silent
\* has the key of a vetoed one, and the earlier of the two wins the tie, although
\* plan.rs:1057-1059 says that a vetoed candidate "sorts last regardless".
WinnerIsBestPlan ==
  phase = "plan" /\ winner # None =>
    /\ \A k \in judged : ~BetterKey(k, winner.key)
    /\ winner.veto => judged = {Key(TRUE, NoScores)}

\* Nothing is spent that is not accounted for: a tournament stays within a draft and
\* three judgements per entrant and redraft (plan.rs:1133), a trajectory's steps make
\* no call the budget guard does not hear of (narrative.rs:213, 905).
CallsAreBooked ==
  /\ calls <= (1 + Cardinality(DOMAIN PlanWeights)) * (NDrafts + Redrafts)
  /\ spent <= booked

\* Whoever drafts a plan, writes under it, merges under it or judges conformance to
\* it is put before one shape; and all but the first before one plan
\* (lit_review.rs:1353, narrative.rs:350, engine.rs:695).
Targeted == {f \in asked : f.shape # None}
OneTarget ==
  /\ \A f, g \in Targeted : f.shape = g.shape
  /\ \A f, g \in {f \in Targeted : f.call \notin {"plan", "replan"}} : f.plan = g.plan

CitedIn(text) ==
  {text[k][2] : k \in {k \in UNION {Within(text, i) : i \in Markers(text)} : Known(text[k])}}
LabelsIn(text) == UNION {t[2] : t \in {t \in Range(text) : t[1] = "cite"}}

\* A claim that the merger cites is cited in the end: a statement refers to it, and
\* where its sources are printed they stand in that statement; no marker is left of
\* a claim that does not exist (narrative.rs:960, engine.rs:1092, citations.rs:146).
CitationsSurvive ==
  phase = "printed" =>
    /\ \A n \in CitedIn(Wrote) : \E i \in DOMAIN statements :
         n \in statements[i].refs /\ (lit => Labels(Claims[n]) \subseteq LabelsIn(statements[i].text))
    /\ LET kept == Sanitised(Wrote) IN \A i \in Markers(kept) : \A k \in Within(kept, i) : Known(kept[k])

\* Stage 3 begins, or its result is restored, whatever becomes of the tournament
\* (plan.rs:1137, engine.rs:673).
StageThreeStarts == (phase = "plan") ~> (phase \in {"draft", "saved"})
=============================================================================
