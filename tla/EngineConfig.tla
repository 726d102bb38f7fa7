---------------------------- MODULE EngineConfig ----------------------------
(***************************************************************************)
(* How a run is set up: what the command line and the environment choose   *)
(* (espigue/src/pipeline.rs), the calls that build the configuration of    *)
(* the engine (ttd/engine.rs, ttd/config.rs), and the machine each stage   *)
(* gets from it.  A retriever is "noop", "local" or "live"; of a store, a  *)
(* refresher and a question it counts whether there is one.                *)
(***************************************************************************)
EXTENDS Naturals, Sequences, SequencesExt

CONSTANTS
  Drafts,            \* n_initial_drafts
  Rounds,            \* n_denoise_steps
  TournamentDrafts   \* PLAN_TOURNAMENT_DRAFTS

ASSUME ConfigAssumption ==
  Drafts \in Nat \ {0} /\ Rounds \in Nat /\ TournamentDrafts \in Nat \ {0}

PromptProfiles == {"v1", "v2", "v3"}
PlanModes      == {"disabled", "tournament", "single"}
StageNames     == {"graph", "synthesis", "narrative"}

\* The dialects that differ from the first agree on everything but the shape.
Lit(profile) == profile # "v1"
SchemaVersion(profile) == IF Lit(profile) THEN "2.0" ELSE "1.0"
PromptVersion(profile, stage) == IF Lit(profile) THEN <<profile, "lit-review">> ELSE <<"v1", stage>>
NarrativeShape(profile) == IF profile = "v3" THEN "sectioned" ELSE "concise"

-----------------------------------------------------------------------------
(* TtdConfig.                                                              *)

ConsensusSeconds == 1800
V3MaxStageSeconds == 7200

TtdDefault ==
  [profile |-> "v1", drafts |-> Drafts, steps |-> Rounds, topK |-> 25, feedback |-> TRUE, threshold |-> 3,
   diverse |-> FALSE, seconds |-> ConsensusSeconds, calls |-> 1000, plateau |-> FALSE, evals |-> 5,
   planMode |-> "disabled", resolving |-> FALSE, question |-> FALSE]

WithV2Profile(ttd) == [ttd EXCEPT !.profile = "v2"]
WithV3Profile(ttd) == [ttd EXCEPT !.profile = "v3", !.seconds = V3MaxStageSeconds]

\* The fan-out takes its personas from this profile, not from the stages'.
Personas(ttd) == IF Lit(ttd.profile) THEN "reviewers" ELSE "delphi"

-----------------------------------------------------------------------------
(* EngineConfig and its builders.                                          *)

New ==
  [ttd |-> TtdDefault, runId |-> FALSE, live |-> "noop", local |-> "noop", profile |-> "v1",
   refresher |-> FALSE, merger |-> "pinned", store |-> FALSE, resume |-> {}]

WithRetriever(c, r)               == [c EXCEPT !.live = r, !.local = r]
WithStageRetrievers(c, live, local) == [c EXCEPT !.live = live, !.local = local]

\* The long profile tells the loop as well, and allows it more time unless somebody
\* has set a limit; the second profile does not reach the loop.
WithProfile(c, p) ==
  IF p # "v3" THEN [c EXCEPT !.profile = p]
  ELSE [c EXCEPT !.profile = p, !.ttd.profile = p,
                 !.ttd.seconds = IF @ = ConsensusSeconds THEN V3MaxStageSeconds ELSE @]

WithPlanTournament(c) == [c EXCEPT !.ttd.planMode = "tournament"]

\* One builder call, with its arguments.
Call(builder, args) == [builder |-> builder, args |-> args]
Apply(c, call) ==
  CASE call.builder = "run id"     -> [c EXCEPT !.runId = TRUE]
    [] call.builder = "question"   -> [c EXCEPT !.ttd.question = TRUE]
    [] call.builder = "retrievers" -> WithStageRetrievers(c, call.args[1], call.args[2])
    [] call.builder = "store"      -> [c EXCEPT !.store = TRUE]
    [] call.builder = "resume"     -> [c EXCEPT !.resume = call.args[1]]
    [] call.builder = "profile"    -> WithProfile(c, call.args[1])
    [] call.builder = "refresher"  -> [c EXCEPT !.refresher = TRUE]
    [] call.builder = "merger"     -> [c EXCEPT !.merger = call.args[1]]
    [] call.builder = "tournament" -> WithPlanTournament(c)

\* A review's options: scope, profile, a model for the merger or "none", whether the
\* environment leaves the tournament on; and what a resume restored.
Options == [scope : {"corpus", "web"}, profile : PromptProfiles, merger : {"none", "chosen"},
            tournament : BOOLEAN, restored : SUBSET StageNames]

LivePolicy(scope) == IF scope = "corpus" THEN "local" ELSE "live"

PipelineCalls(o) ==
  <<Call("run id", <<>>), Call("question", <<>>), Call("retrievers", <<LivePolicy(o.scope), "local">>),
    Call("store", <<>>), Call("resume", <<o.restored>>), Call("profile", <<o.profile>>), Call("refresher", <<>>)>>
    \o (IF o.merger = "none" THEN <<>> ELSE <<Call("merger", <<o.merger>>)>>)
    \o (IF o.tournament THEN <<Call("tournament", <<>>)>> ELSE <<>>)
PipelineConfig(o) == FoldLeft(Apply, New, PipelineCalls(o))

-----------------------------------------------------------------------------
(* The machines.                                                           *)

\* Retrieval in the first two stages is real, so an empty answer stops the step there.
Grounded(ttd) == [ttd EXCEPT !.resolving = FALSE]

GraphMachine(c) ==
  [label |-> "graph", config |-> Grounded(c.ttd), retriever |-> c.live, profile |-> c.profile,
   prompts |-> PromptVersion(c.profile, "graph"), merger |-> "stage"]

SynthesisMachine(c) ==
  [label |-> "synthesis", config |-> Grounded(c.ttd), retriever |-> c.local, profile |-> c.profile,
   prompts |-> PromptVersion(c.profile, "synthesis"),
   merger |-> IF Lit(c.profile) THEN c.merger ELSE "stage"]

NarrativeMachine(c) ==
  [label |-> "narrative", config |-> c.ttd, retriever |-> "noop", profile |-> c.profile,
   prompts |-> PromptVersion(c.profile, "narrative"), merger |-> "stage"]

\* A restored stage needs no machine.
MachinesRun(c) == {m \in {GraphMachine(c), SynthesisMachine(c), NarrativeMachine(c)} : m.label \notin c.resume}

\* The tournament is for the dialects whose prompts read a plan, and for a narrative
\* that is yet to be written.
WantsPlan(c)  == "narrative" \notin c.resume /\ c.ttd.planMode # "disabled" /\ Lit(c.profile)
PlanDrafts(c) == IF c.ttd.planMode = "tournament" THEN TournamentDrafts ELSE 1
=============================================================================
