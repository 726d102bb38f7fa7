------------------------------ MODULE TtdStage ------------------------------
(***************************************************************************)
(* One stage of the test-time diffusion engine, TtdMachine::run: N drafts  *)
(* generated concurrently, N trajectories each refined in up to S denoise  *)
(* steps, a final evaluation of every trajectory, a ranking and a merge.   *)
(*                                                                         *)
(* A trajectory is a future; it can be suspended at every await, so every  *)
(* await ends an action.  The trajectories share the wall clock, the       *)
(* fitness semaphore and the degradation sink, and nothing else: each      *)
(* counts its own model calls against the limit.                           *)
(***************************************************************************)
EXTENDS Integers, FiniteSets

CONSTANTS N,            \* initial drafts, hence trajectories
          S,            \* denoise steps
          J,            \* judges of one evaluation (the evaluator's weights)
          MaxEvals,     \* max_concurrent_fitness_evals as configured; may be 0
          Limits,       \* the values of max_llm_calls considered
          MaxScore,     \* weighted scores are 0..MaxScore
          ResolveAnyway,\* resolve_without_retrieval
          Plateau,      \* whether plateau_threshold is set
          Faults,       \* the kinds of failure that may happen
          None          \* "no evaluation"

FaultKind == {"draft", "judge", "identify", "retrieve", "resolve", "bib", "merge", "clock"}

ASSUME ConstantsAssumption ==
  /\ N \in Nat \ {0}
  /\ S \in Nat \ {0}
  /\ J \in Nat
  /\ MaxEvals \in Nat
  /\ Limits \subseteq Nat
  /\ MaxScore \in Nat
  /\ ResolveAnyway \in BOOLEAN
  /\ Plateau \in BOOLEAN
  /\ Faults \subseteq FaultKind

\* A trajectory is its index: drafts are numbered as they arrive.
Traj == 1..N

\* max_concurrent_fitness_evals.max(1): no permit at all would be a deadlock.
Permits == IF MaxEvals = 0 THEN 1 ELSE MaxEvals

\* A final evaluation: whether the stage's validity gate accepts it, and its
\* weighted score, 0 when no judge gave an answer that could be parsed.
Eval == [valid : BOOLEAN, score : 0..MaxScore]

(***************************************************************************)
(* Where a trajectory is suspended.                                        *)
(***************************************************************************)
Drafting == {"draft", "ready"}
Evolving == {"loop", "wait", "judge", "identify", "retrieve", "resolve", "record"}
Evolved  == {"ended", "error"}
Ranking  == {"final", "waitFinal", "judgeFinal"}
Ranked   == {"scored", "unscored", "error"}
Halted   == Evolved \cup Ranked \cup {"ready", "aborted"}
Holding  == {"judge", "judgeFinal"}

VARIABLES
  limit,   \* max_llm_calls of this stage
  phase,   \* "draft", "evolve", "rank", "merge", "done" or "failed"
  pc,      \* where each trajectory is
  step,    \* current_step: denoise steps recorded
  calls,   \* llm_calls: the model calls booked on each trajectory
  draft,   \* trajectories[0]: the number of refinements it has taken
  found,   \* this step's retrieval was not empty
  refined, \* this step's resolve made a new draft
  late,    \* the stage's clock has passed max_stage_seconds
  permits, \* free permits of the fitness semaphore
  sink,    \* the degradation reasons pushed, by trajectory
  eval,    \* the evaluation of each trajectory's draft, None if not judged
  winner,  \* the best-ranked trajectory, None before the merge
  plateaued \* history: the trajectories that stopped on the plateau threshold

vars == <<limit, phase, pc, step, calls, draft, found, refined, late, permits,
          sink, eval, winner, plateaued>>

\* What only the steps of one trajectory change, besides pc.
own    == <<step, calls, draft, found, refined>>
global == <<limit, late, winner>>

Reason == {"clock", "budget", "bib"}

TypeOK ==
  /\ limit \in Limits
  /\ phase \in {"draft", "evolve", "rank", "merge", "done", "failed"}
  /\ pc \in [Traj -> Drafting \cup Evolving \cup Evolved \cup Ranking \cup Ranked \cup {"aborted"}]
  /\ step \in [Traj -> 0..S]
  /\ calls \in [Traj -> Nat]
  /\ draft \in [Traj -> 0..S]
  /\ found \in [Traj -> BOOLEAN]
  /\ refined \in [Traj -> BOOLEAN]
  /\ late \in BOOLEAN
  /\ permits \in 0..Permits
  /\ sink \subseteq Traj \X Reason
  /\ eval \in [Traj -> Eval \cup {None}]
  /\ winner \in Traj \cup {None}
  /\ plateaued \subseteq Traj

Init ==
  /\ limit \in Limits
  /\ phase = "draft"
  /\ pc = [t \in Traj |-> "draft"]
  /\ step = [t \in Traj |-> 0]
  /\ calls = [t \in Traj |-> 0]
  /\ draft = [t \in Traj |-> 0]
  /\ found = [t \in Traj |-> FALSE]
  /\ refined = [t \in Traj |-> FALSE]
  /\ late = FALSE
  /\ permits = Permits
  /\ sink = {}
  /\ eval = [t \in Traj |-> None]
  /\ winner = None
  /\ plateaued = {}
-----------------------------------------------------------------------------
Allowed(fault) == fault \in Faults

At(t, here) == pc[t] = here
Goto(t, there) == pc' = [pc EXCEPT ![t] = there]
Book(t, n) == calls' = [calls EXCEPT ![t] = @ + n]
Push(t, reason) == sink' = sink \cup {<<t, reason>>}

\* max_stage_seconds passes; only the top of a step looks at the clock.
ClockRunsOut ==
  /\ Allowed("clock") /\ ~late
  /\ phase = "evolve"
  /\ late' = TRUE
  /\ UNCHANGED <<limit, phase, pc, own, permits, sink, eval, winner, plateaued>>
-----------------------------------------------------------------------------
(***************************************************************************)
(* Step 1, the fan-out.  Draft calls are not booked on any trajectory.     *)
(***************************************************************************)
DraftDone(t) ==
  /\ phase = "draft"
  /\ At(t, "draft") /\ \A u \in 1..(t - 1) : At(u, "ready")
  /\ Goto(t, "ready")
  /\ UNCHANGED <<phase, global, own, permits, sink, eval, plateaued>>

\* The first draft task that fails or panics fails the stage: dropping the
\* JoinSet aborts those still running.
DraftFails ==
  /\ Allowed("draft")
  /\ phase = "draft"
  /\ \E t \in Traj : At(t, "draft")
  /\ phase' = "failed"
  /\ pc' = [t \in Traj |-> IF At(t, "draft") THEN "aborted" ELSE pc[t]]
  /\ UNCHANGED <<global, own, permits, sink, eval, plateaued>>

StartEvolve ==
  /\ phase = "draft"
  /\ \A t \in Traj : At(t, "ready")
  /\ phase' = "evolve"
  /\ pc' = [t \in Traj |-> "loop"]
  /\ UNCHANGED <<global, own, permits, sink, eval, plateaued>>
-----------------------------------------------------------------------------
(***************************************************************************)
(* Step 2, evolve_trajectory.  The guards at the top of a denoise step and *)
(* the request for a permit involve no await in between.                   *)
(***************************************************************************)
OverBudget_AtLimit(t) == calls[t] + J >= limit \* mutant: no call is left over
OverBudget(t) == calls[t] + J > limit

ClockStops(t) ==
  /\ At(t, "loop") /\ late
  /\ Goto(t, "ended")
  /\ Push(t, "clock")
  /\ UNCHANGED <<phase, global, own, permits, eval, plateaued>>

\* budget_before_fitness_guard.
BudgetStops(t) ==
  /\ At(t, "loop") /\ ~late
  /\ OverBudget(t)
  /\ Goto(t, "ended")
  /\ Push(t, "budget")
  /\ UNCHANGED <<phase, global, own, permits, eval, plateaued>>

\* Mutant of EnterStep: no guard.
EnterStep_Unguarded(t) ==
  /\ At(t, "loop") /\ ~late
  /\ Goto(t, "wait")
  /\ UNCHANGED <<phase, global, own, permits, sink, eval, plateaued>>

EnterStep(t) ==
  /\ At(t, "loop") /\ ~late
  /\ ~OverBudget(t)
  /\ Goto(t, "wait")
  /\ UNCHANGED <<phase, global, own, permits, sink, eval, plateaued>>

Acquire(t) ==
  /\ permits > 0
  /\ permits' = permits - 1
  /\ \/ At(t, "wait") /\ Goto(t, "judge")
     \/ At(t, "waitFinal") /\ Goto(t, "judgeFinal")
  /\ UNCHANGED <<phase, global, own, sink, eval, plateaued>>

\* The evaluation that feeds this step; its permit is dropped either way.
Judge(t) ==
  /\ At(t, "judge")
  /\ permits' = permits + 1
  /\ \/ Goto(t, "identify") /\ Book(t, J)
     \/ Allowed("judge") /\ Goto(t, "error") /\ UNCHANGED calls
  /\ UNCHANGED <<phase, global, step, draft, found, refined, sink, eval, plateaued>>

\* gap_identify: one call; with no gap there is nothing to retrieve.
Identify(t) ==
  /\ At(t, "identify")
  /\ \/ Goto(t, "retrieve") /\ Book(t, 1)
     \/ Goto(t, "record") /\ Book(t, 1)
     \/ Allowed("identify") /\ Goto(t, "error") /\ UNCHANGED calls
  /\ UNCHANGED <<phase, global, step, draft, found, refined, permits, sink, eval, plateaued>>

\* All gaps are retrieved; empty retrieval leaves the draft unchanged unless
\* resolve_without_retrieval is set.
Retrieve(t) ==
  /\ At(t, "retrieve")
  /\ \/ \E any \in BOOLEAN :
          /\ found' = [found EXCEPT ![t] = any]
          /\ Goto(t, IF any \/ ResolveAnyway THEN "resolve" ELSE "record")
     \/ Allowed("retrieve") /\ Goto(t, "error") /\ UNCHANGED found
  /\ UNCHANGED <<phase, global, step, calls, draft, refined, permits, sink, eval, plateaued>>

Resolve(t) ==
  /\ At(t, "resolve")
  /\ \/ /\ Goto(t, "record")
        /\ Book(t, 1)
        /\ refined' = [refined EXCEPT ![t] = TRUE]
     \/ Allowed("resolve") /\ Goto(t, "error") /\ UNCHANGED <<calls, refined>>
  /\ UNCHANGED <<phase, global, step, draft, found, permits, sink, eval, plateaued>>

(***************************************************************************)
(* The end of a denoise step: the step is recorded, the sources found go   *)
(* to the bibliography (a failed write only degrades), and then one of:    *)
(* the plateau threshold is met and the refinement is dropped, or the      *)
(* refinement is taken and the budget is looked at once more.              *)
(***************************************************************************)
OverSpent(t) == calls[t] > limit

\* The budget is spent and steps remained; mutant: also after the last step.
CutsShort_AlsoAtTheEnd(t) == OverSpent(t)
CutsShort(t) == OverSpent(t) /\ step[t] + 1 < S

BibReason(t, failed) == IF failed THEN {<<t, "bib">>} ELSE {}

RecordPlateau(t, lost) ==
  /\ Plateau
  /\ Goto(t, "ended")
  /\ sink' = sink \cup BibReason(t, lost)
  /\ plateaued' = plateaued \cup {t}
  /\ UNCHANGED draft

RecordTakes(t, lost) ==
  /\ draft' = [draft EXCEPT ![t] = IF refined[t] THEN @ + 1 ELSE @]
  /\ Goto(t, IF OverSpent(t) \/ step[t] + 1 = S THEN "ended" ELSE "loop")
  /\ sink' = sink \cup BibReason(t, lost) \cup
             (IF CutsShort(t) THEN {<<t, "budget">>} ELSE {})
  /\ UNCHANGED plateaued

RecordStep(t) ==
  /\ At(t, "record")
  /\ step' = [step EXCEPT ![t] = @ + 1]
  /\ found' = [found EXCEPT ![t] = FALSE]
  /\ refined' = [refined EXCEPT ![t] = FALSE]
  /\ \E lost \in {FALSE, found[t] /\ Allowed("bib")} :
       RecordPlateau(t, lost) \/ RecordTakes(t, lost)
  /\ UNCHANGED <<phase, global, calls, permits, eval>>

EvolveEnds ==
  /\ phase = "evolve"
  /\ \A t \in Traj : pc[t] \in Evolved
  /\ \/ \E t \in Traj : At(t, "error") /\ phase' = "failed" /\ UNCHANGED pc
     \/ /\ \A t \in Traj : At(t, "ended")
        /\ phase' = "rank"
        /\ pc' = [t \in Traj |-> "final"]
  /\ UNCHANGED <<global, own, permits, sink, eval, plateaued>>
-----------------------------------------------------------------------------
(***************************************************************************)
(* Step 3, the final evaluation, behind the same semaphore.  It is guarded *)
(* by the budget but not booked; an over-budget trajectory is given the    *)
(* empty evaluation, and nothing is pushed.                                *)
(***************************************************************************)
SkipFinal(t) ==
  /\ At(t, "final")
  /\ OverBudget(t)
  /\ Goto(t, "unscored")
  /\ UNCHANGED <<phase, global, own, permits, sink, eval, plateaued>>

EnterFinal(t) ==
  /\ At(t, "final")
  /\ ~OverBudget(t)
  /\ Goto(t, "waitFinal")
  /\ UNCHANGED <<phase, global, own, permits, sink, eval, plateaued>>

JudgeFinal(t) ==
  /\ At(t, "judgeFinal")
  /\ permits' = permits + 1
  /\ \/ Goto(t, "scored") /\ \E e \in Eval : eval' = [eval EXCEPT ![t] = e]
     \/ Allowed("judge") /\ Goto(t, "error") /\ UNCHANGED eval
  /\ UNCHANGED <<phase, global, own, sink, plateaued>>

\* Mutant of RankEnds: failed evaluations are tried again, for ever.
RankEnds_Retries ==
  /\ phase = "rank"
  /\ \A t \in Traj : pc[t] \in Ranked
  /\ phase' = IF \E t \in Traj : At(t, "error") THEN "rank" ELSE "merge"
  /\ pc' = [t \in Traj |-> IF At(t, "error") THEN "final" ELSE pc[t]]
  /\ UNCHANGED <<global, own, permits, sink, eval, plateaued>>

RankEnds ==
  /\ phase = "rank"
  /\ \A t \in Traj : pc[t] \in Ranked
  /\ phase' = IF \E t \in Traj : At(t, "error") THEN "failed" ELSE "merge"
  /\ UNCHANGED <<pc, global, own, permits, sink, eval, plateaued>>
-----------------------------------------------------------------------------
(***************************************************************************)
(* Steps 4 and 5: rank valid before invalid, then by score, ties by index, *)
(* and hand the drafts to the merger, best first.                          *)
(***************************************************************************)
\* How the sort sees a trajectory: no evaluation is an invalid score of 0.
Seen(t) == IF eval[t] = None THEN [valid |-> FALSE, score |-> 0] ELSE eval[t]

Better_ByScoreAlone(e, f) == e.score > f.score \* mutant: the gate is ignored
Better(e, f) == (e.valid /\ ~f.valid) \/ (e.valid = f.valid /\ e.score > f.score)

Before(t, u) == Better(Seen(t), Seen(u)) \/ (t < u /\ ~Better(Seen(u), Seen(t)))

Merge ==
  /\ phase = "merge"
  /\ \/ /\ phase' = "done"
        /\ \E t \in Traj : (\A u \in Traj \ {t} : Before(t, u)) /\ winner' = t
     \/ Allowed("merge") /\ phase' = "failed" /\ UNCHANGED winner
  /\ UNCHANGED <<limit, late, pc, own, permits, sink, eval, plateaued>>
-----------------------------------------------------------------------------
Step(t) ==
  \/ DraftDone(t) \/ ClockStops(t) \/ BudgetStops(t) \/ EnterStep(t)
  \/ Acquire(t)   \/ Judge(t)      \/ Identify(t)    \/ Retrieve(t)
  \/ Resolve(t)   \/ RecordStep(t) \/ SkipFinal(t)   \/ EnterFinal(t)
  \/ JudgeFinal(t)

\* Steps of run itself, between its joins.
Join == StartEvolve \/ EvolveEnds \/ RankEnds \/ Merge

Returned == phase \in {"done", "failed"} /\ UNCHANGED vars

Next == (\E t \in Traj : Step(t)) \/ DraftFails \/ Join \/ ClockRunsOut \/ Returned

Spec == Init /\ [][Next]_vars

(***************************************************************************)
(* Every await returns (a call answers, fails or times out) and the        *)
(* semaphore is fair: a trajectory that can go on does, and so does run.   *)
(***************************************************************************)
FairSpec == Spec /\ WF_vars(Join) /\ \A t \in Traj : WF_vars(Step(t))
-----------------------------------------------------------------------------
(***************************************************************************)
(* Properties.                                                             *)
(***************************************************************************)
\* Every permit is free or held by a trajectory that is being judged: no error
\* path leaks one, so no more than Permits evaluations run at a time and none
\* waits forever.
Holders == {t \in Traj : pc[t] \in Holding}
PermitsConserved == permits + Cardinality(Holders) = Permits

\* What a trajectory has done by each point of a step fits the phase of run:
\* run never goes on, nor returns, while a trajectory is still at work.
PhaseFits ==
  \A t \in Traj :
    pc[t] \in CASE phase = "draft"  -> Drafting
                [] phase = "evolve" -> Evolving \cup Evolved
                [] phase = "rank"   -> Ranking \cup Ranked
                [] phase \in {"merge", "done"} -> {"scored", "unscored"}
                [] phase = "failed" -> Halted

\* The calls booked on a trajectory never exceed the limit by more than the
\* two calls of the step that spent it (guards before fitness, after the step).
WithinBudget(t) ==
  /\ calls[t] <= limit + 2
  /\ pc[t] \in {"wait", "judge"} => calls[t] + J <= limit
  /\ pc[t] = "identify" => calls[t] <= limit
  /\ pc[t] \in {"retrieve", "resolve"} => calls[t] <= limit + 1
CallsBounded == \A t \in Traj : WithinBudget(t)

\* A trajectory that stopped with steps left says why: it met the plateau
\* threshold, failed, or a guard cut it short and pushed a reason; and a guard
\* reports nothing when it cut nothing.
TruncationReported ==
  \A t \in Traj :
    /\ pc[t] \in Drafting \cup Evolving => step[t] < S
    /\ pc[t] \in {"ended"} \cup Ranking \cup {"scored", "unscored"} =>
         (step[t] < S => t \in plateaued \/ {<<t, "clock">>, <<t, "budget">>} \cap sink # {})
    /\ {<<t, "clock">>, <<t, "budget">>} \cap sink # {} =>
         step[t] < S /\ pc[t] \notin Evolving \cup Drafting

\* The merger's first candidate is a best one: a draft whose evaluation was
\* skipped or whose gate failed is not preferred to a valid one, and among
\* equally valid drafts none has a higher score.
WinnerIsBest ==
  phase = "done" =>
    \A t \in Traj :
      eval[t] # None =>
        /\ eval[t].valid => eval[winner] # None /\ eval[winner].valid
        /\ eval[winner] # None /\ eval[winner].valid = eval[t].valid
             => eval[winner].score >= eval[t].score

\* A limit of S * (J + 2) + J calls suffices for every trajectory: no budget
\* guard cuts any short, and every final draft is evaluated.
Suffices == limit >= S * (J + 2) + J
BudgetSuffices ==
  Suffices =>
    \A t \in Traj : <<t, "budget">> \notin sink /\ pc[t] # "unscored"

\* A step refines the draft at most once, and books at most J + 2 calls: those
\* of the finished steps, and of the step under way.
Spent ==
  \A t \in Traj :
    /\ draft[t] <= step[t]
    /\ calls[t] <= step[t] * (J + 2) + (CASE pc[t] = "identify" -> J
                                          [] pc[t] \in {"retrieve", "resolve"} -> J + 1
                                          [] pc[t] \in {"record", "error"} -> J + 2
                                          [] OTHER -> 0)

\* The inductive invariant: the properties above but for the winner's, and
\* the account of calls that BudgetSuffices rests on.
IInv == /\ TypeOK /\ PermitsConserved /\ PhaseFits /\ CallsBounded
        /\ TruncationReported /\ Spent /\ BudgetSuffices

\* The stage returns, an artifact or an error: with max(1) permits whatever
\* max_concurrent_fitness_evals is, and whatever fails.
StageReturns == <>(phase \in {"done", "failed"})
=============================================================================
