--------------------------- MODULE TtdStageProofs ---------------------------
(***************************************************************************)
(* Theorems about TtdStage, for any number of trajectories, steps, judges  *)
(* and permits, any limit and any faults: what the semaphore, the phases,  *)
(* the guards and the degradation sink keep true in every behaviour.       *)
(***************************************************************************)
EXTENDS TtdStage, FiniteSetTheorems, TLAPS

States == Drafting \cup Evolving \cup Evolved \cup Ranking \cup Ranked \cup {"aborted"}

LEMMA Constants == /\ N \in Nat \ {0} /\ S \in Nat \ {0} /\ J \in Nat
                   /\ Permits \in Nat \ {0} /\ Limits \subseteq Nat
  BY ConstantsAssumption DEF Permits

\* The calls of k steps, step by step: the only products in the account.
LEMMA StepCost ==
  ASSUME NEW k \in Nat
  PROVE  /\ k * (J + 2) \in Nat
         /\ (k + 1) * (J + 2) = k * (J + 2) + J + 2
  BY Constants

LEMMA StepCostGrows ==
  ASSUME NEW k \in Nat, NEW n \in Nat, k <= n
  PROVE  k * (J + 2) <= n * (J + 2)
<1>1. n * (J + 2) = k * (J + 2) + (n - k) * (J + 2)
  BY Constants
<1>2. (n - k) * (J + 2) \in Nat
  BY Constants, n - k \in Nat, StepCost
<1>3. QED
  BY <1>1, <1>2, StepCost
-----------------------------------------------------------------------------
(***************************************************************************)
(* Type correctness.                                                       *)
(***************************************************************************)
LEMMA HoldersFinite == IsFiniteSet(Traj) /\ IsFiniteSet(Holders)
<1>1. IsFiniteSet(Traj)
  BY Constants, FS_Interval DEF Traj
<1>2. Holders \subseteq Traj
  BY DEF Holders
<1>3. QED
  BY <1>1, <1>2, FS_Subset

LEMMA StepTyped ==
  ASSUME TypeOK, PermitsConserved, TruncationReported, Spent, NEW t \in Traj, Step(t)
  PROVE  TypeOK'
<1> USE Constants DEF TypeOK, Goto, Book, Push, At, own, global, Reason
<1>1. CASE DraftDone(t) \/ ClockStops(t) \/ BudgetStops(t) \/ EnterStep(t) \/ SkipFinal(t) \/ EnterFinal(t)
  BY <1>1 DEF DraftDone, ClockStops, BudgetStops, EnterStep, SkipFinal, EnterFinal,
              Drafting, Evolving, Evolved, Ranking, Ranked
<1>2. CASE Acquire(t)
  BY <1>2 DEF Acquire, Evolving, Ranking
<1>3. CASE Judge(t) \/ JudgeFinal(t)
  <2>1. permits + 1 \in 0..Permits
    <3>1. t \in Holders /\ IsFiniteSet(Holders)
      BY <1>3, HoldersFinite DEF Judge, JudgeFinal, Holders, Holding
    <3>2. Cardinality(Holders) \in Nat /\ Cardinality(Holders) # 0
      BY <3>1, FS_CardinalityType, FS_EmptySet
    <3>3. QED
      BY <3>2 DEF PermitsConserved
  <2>2. QED
    BY <1>3, <2>1 DEF Judge, JudgeFinal, Evolving, Evolved, Ranked
<1>4. CASE Identify(t) \/ Retrieve(t) \/ Resolve(t)
  <2>1. CASE Identify(t)
    BY <1>4, <2>1 DEF Identify, Evolving, Evolved
  <2>2. CASE Retrieve(t)
    BY <1>4, <2>2 DEF Retrieve, Evolving, Evolved
  <2>3. CASE Resolve(t)
    <3>1. refined' \in [Traj -> BOOLEAN]
      BY <2>3 DEF Resolve
    <3>2. pc' \in [Traj -> States] /\ calls' \in [Traj -> Nat]
      BY <2>3 DEF Resolve, Evolving, Evolved, States
    <3>3. QED
      BY <2>3, <3>1, <3>2 DEF Resolve, States
  <2>4. QED
    BY <1>4, <2>1, <2>2, <2>3
<1>5. CASE RecordStep(t)
  <2>1. step[t] + 1 \in 0..S
    BY <1>5 DEF RecordStep, TruncationReported, Evolving
  <2>2. draft[t] + 1 \in 0..S
    BY <2>1 DEF Spent
  <2>3. QED
    BY <1>5, <2>1, <2>2 DEF RecordStep, RecordPlateau, RecordTakes, BibReason, CutsShort, OverSpent, Evolving, Evolved
<1>6. QED
  BY <1>1, <1>2, <1>3, <1>4, <1>5 DEF Step

LEMMA RunTyped ==
  ASSUME TypeOK, DraftFails \/ Join \/ ClockRunsOut \/ Returned
  PROVE  TypeOK'
<1> USE DEF TypeOK, own, global
<1>1. CASE DraftFails
  BY <1>1 DEF DraftFails, At
<1>2. CASE StartEvolve \/ EvolveEnds
  BY <1>2 DEF StartEvolve, EvolveEnds, At, Evolving, Ranking
<1>3. CASE RankEnds \/ Merge \/ ClockRunsOut \/ Returned
  BY <1>3 DEF RankEnds, Merge, ClockRunsOut, Returned, vars
<1>4. QED
  BY <1>1, <1>2, <1>3 DEF Join
-----------------------------------------------------------------------------
(***************************************************************************)
(* The semaphore.  Only Acquire takes a permit, only the two evaluations   *)
(* give one back, and those are the steps that change the set of holders.  *)
(***************************************************************************)
LEMMA StepPermits ==
  ASSUME TypeOK, PermitsConserved, NEW t \in Traj, Step(t)
  PROVE  PermitsConserved'
<1> USE DEF At, Goto
<1>1. CASE Acquire(t)
  <2>1. Holders' = Holders \cup {t} /\ t \notin Holders
    BY <1>1 DEF Acquire, Holders, Holding, TypeOK
  <2>2. Cardinality(Holders') = Cardinality(Holders) + 1
    BY <2>1, HoldersFinite, FS_AddElement
  <2>3. QED
    BY <1>1, <2>2, HoldersFinite, FS_CardinalityType, Constants DEF Acquire, PermitsConserved, TypeOK
<1>2. CASE Judge(t) \/ JudgeFinal(t)
  <2>1. Holders' = Holders \ {t} /\ t \in Holders
    BY <1>2 DEF Judge, JudgeFinal, Holders, Holding, TypeOK
  <2>2. Cardinality(Holders') = Cardinality(Holders) - 1
    BY <2>1, HoldersFinite, FS_RemoveElement
  <2>3. permits' = permits + 1
    BY <1>2 DEF Judge, JudgeFinal
  <2>4. QED
    BY <2>2, <2>3, HoldersFinite, FS_CardinalityType, Constants DEF PermitsConserved, TypeOK
<1>3. CASE ~(Acquire(t) \/ Judge(t) \/ JudgeFinal(t))
  <2>1. UNCHANGED permits /\ pc[t] \notin Holding /\ \E there \in States \ Holding : pc' = [pc EXCEPT ![t] = there]
    BY <1>3 DEF Step, DraftDone, ClockStops, BudgetStops, EnterStep, Identify, Retrieve, Resolve,
                RecordStep, RecordPlateau, RecordTakes, SkipFinal, EnterFinal, Holding, States,
                Drafting, Evolving, Evolved, Ranking, Ranked
  <2>2. Holders' = Holders
    BY <2>1 DEF Holders, TypeOK
  <2>3. QED
    BY <2>1, <2>2 DEF PermitsConserved
<1>4. QED
  BY <1>1, <1>2, <1>3

LEMMA RunPermits ==
  ASSUME TypeOK, PhaseFits, PermitsConserved, DraftFails \/ Join \/ ClockRunsOut \/ Returned
  PROVE  PermitsConserved'
<1>1. UNCHANGED permits
  BY DEF DraftFails, Join, StartEvolve, EvolveEnds, RankEnds, Merge, ClockRunsOut, Returned, vars
<1>2. Holders' = Holders
  BY DEF DraftFails, Join, StartEvolve, EvolveEnds, RankEnds, Merge, ClockRunsOut, Returned, vars,
         TypeOK, PhaseFits, Holders, Holding, At, Drafting, Evolved
<1>3. QED
  BY <1>1, <1>2 DEF PermitsConserved
-----------------------------------------------------------------------------
(***************************************************************************)
(* The phases.                                                             *)
(***************************************************************************)
LEMMA StepPhase ==
  ASSUME TypeOK, PhaseFits, NEW t \in Traj, Step(t)
  PROVE  PhaseFits'
<1> USE DEF At, Goto, Drafting, Evolving, Evolved, Ranking, Ranked, Halted
<1>1. CASE DraftDone(t)
  BY <1>1 DEF DraftDone, TypeOK, PhaseFits
<1>2. CASE \/ ClockStops(t) \/ BudgetStops(t) \/ EnterStep(t) \/ Judge(t) \/ Identify(t)
           \/ Retrieve(t) \/ Resolve(t) \/ RecordStep(t)
  <2>1. phase' = phase /\ pc[t] \in Evolving /\ \E there \in Evolving \cup Evolved : pc' = [pc EXCEPT ![t] = there]
    BY <1>2 DEF ClockStops, BudgetStops, EnterStep, Judge, Identify, Retrieve, Resolve,
                RecordStep, RecordPlateau, RecordTakes
  <2>2. phase = "evolve"
    BY <2>1 DEF TypeOK, PhaseFits
  <2>3. QED
    BY <2>1, <2>2 DEF TypeOK, PhaseFits
<1>3. CASE SkipFinal(t) \/ EnterFinal(t) \/ JudgeFinal(t)
  <2>1. phase' = phase /\ pc[t] \in Ranking /\ \E there \in Ranking \cup Ranked : pc' = [pc EXCEPT ![t] = there]
    BY <1>3 DEF SkipFinal, EnterFinal, JudgeFinal
  <2>2. phase = "rank"
    BY <2>1 DEF TypeOK, PhaseFits
  <2>3. QED
    BY <2>1, <2>2 DEF TypeOK, PhaseFits
<1>4. CASE Acquire(t)
  <2>1. phase' = phase
    BY <1>4 DEF Acquire
  <2>2. CASE pc[t] = "wait"
    <3>1. phase = "evolve" /\ pc' = [pc EXCEPT ![t] = "judge"]
      BY <1>4, <2>2 DEF Acquire, TypeOK, PhaseFits
    <3>2. QED
      BY <2>1, <3>1 DEF TypeOK, PhaseFits
  <2>3. CASE pc[t] = "waitFinal"
    <3>1. phase = "rank" /\ pc' = [pc EXCEPT ![t] = "judgeFinal"]
      BY <1>4, <2>3 DEF Acquire, TypeOK, PhaseFits
    <3>2. QED
      BY <2>1, <3>1 DEF TypeOK, PhaseFits
  <2>4. QED
    BY <1>4, <2>2, <2>3 DEF Acquire
<1>5. QED
  BY <1>1, <1>2, <1>3, <1>4 DEF Step

LEMMA RunPhase ==
  ASSUME TypeOK, PhaseFits, DraftFails \/ Join \/ ClockRunsOut \/ Returned
  PROVE  PhaseFits'
<1> USE DEF At, Drafting, Evolving, Evolved, Ranking, Ranked, Halted, TypeOK, PhaseFits
<1>1. CASE DraftFails
  BY <1>1 DEF DraftFails
<1>2. CASE StartEvolve
  BY <1>2 DEF StartEvolve
<1>3. CASE EvolveEnds
  BY <1>3 DEF EvolveEnds
<1>4. CASE RankEnds
  BY <1>4 DEF RankEnds
<1>5. CASE Merge \/ ClockRunsOut \/ Returned
  BY <1>5 DEF Merge, ClockRunsOut, Returned, vars
<1>6. QED
  BY <1>1, <1>2, <1>3, <1>4, <1>5 DEF Join
-----------------------------------------------------------------------------
(***************************************************************************)
(* A step of one trajectory leaves the others where they are.              *)
(***************************************************************************)
LEMMA StepIsLocal ==
  ASSUME TypeOK, NEW t \in Traj, Step(t)
  PROVE  /\ UNCHANGED limit
         /\ \A u \in Traj \ {t} :
              /\ pc'[u] = pc[u] /\ step'[u] = step[u]
              /\ calls'[u] = calls[u] /\ draft'[u] = draft[u]
<1> USE DEF TypeOK, At, Goto, Book, own, global
<1>1. CASE \/ DraftDone(t) \/ ClockStops(t) \/ BudgetStops(t) \/ EnterStep(t) \/ SkipFinal(t)
           \/ EnterFinal(t) \/ Acquire(t) \/ JudgeFinal(t)
  BY <1>1 DEF DraftDone, ClockStops, BudgetStops, EnterStep, SkipFinal, EnterFinal, Acquire, JudgeFinal
<1>2. CASE Judge(t) \/ Identify(t) \/ Retrieve(t) \/ Resolve(t)
  BY <1>2 DEF Judge, Identify, Retrieve, Resolve
<1>3. CASE RecordStep(t)
  BY <1>3 DEF RecordStep, RecordPlateau, RecordTakes
<1>4. QED
  BY <1>1, <1>2, <1>3 DEF Step

\* And what it pushes into the sink, or notes of a plateau, is its own.
LEMMA StepReportsItself ==
  ASSUME TypeOK, NEW t \in Traj, Step(t), NEW u \in Traj \ {t}
  PROVE  /\ \A r \in Reason : <<u, r>> \in sink' <=> <<u, r>> \in sink
         /\ u \in plateaued' <=> u \in plateaued
<1>1. CASE RecordStep(t)
  BY <1>1 DEF RecordStep, RecordPlateau, RecordTakes, BibReason
<1>2. CASE ~RecordStep(t)
  BY <1>2 DEF Step, Push, DraftDone, ClockStops, BudgetStops, EnterStep, SkipFinal, EnterFinal, Acquire,
              JudgeFinal, Judge, Identify, Retrieve, Resolve
<1>3. QED
  BY <1>1, <1>2
-----------------------------------------------------------------------------
(***************************************************************************)
(* The budget guards.                                                      *)
(***************************************************************************)
LEMMA StepBounded ==
  ASSUME TypeOK, CallsBounded, NEW t \in Traj, Step(t)
  PROVE  CallsBounded'
<1>1. limit \in Nat /\ calls[t] \in Nat /\ J \in Nat
  BY Constants DEF TypeOK
<1>2. WithinBudget(t)'
  <2> USE <1>1 DEF TypeOK, CallsBounded, WithinBudget, At, Goto, Book, own, global
  <2>1. CASE \/ DraftDone(t) \/ ClockStops(t) \/ BudgetStops(t) \/ SkipFinal(t)
             \/ EnterFinal(t) \/ JudgeFinal(t)
    BY <2>1 DEF DraftDone, ClockStops, BudgetStops, SkipFinal, EnterFinal, JudgeFinal
  <2>2. CASE EnterStep(t) \/ Acquire(t)
    BY <2>2 DEF EnterStep, Acquire, OverBudget
  <2>3. CASE Judge(t)
    BY <2>3 DEF Judge
  <2>4. CASE Identify(t) \/ Retrieve(t)
    BY <2>4 DEF Identify, Retrieve
  <2>5. CASE Resolve(t)
    BY <2>5 DEF Resolve
  <2>6. CASE RecordStep(t)
    BY <2>6 DEF RecordStep, RecordPlateau, RecordTakes
  <2>7. QED
    BY <2>1, <2>2, <2>3, <2>4, <2>5, <2>6 DEF Step
<1>3. ASSUME NEW u \in Traj \ {t}  PROVE WithinBudget(u)'
  BY <1>3, StepIsLocal DEF CallsBounded, WithinBudget
<1>4. QED
  BY <1>2, <1>3 DEF CallsBounded

LEMMA RunBounded ==
  ASSUME TypeOK, CallsBounded, DraftFails \/ Join \/ ClockRunsOut \/ Returned
  PROVE  CallsBounded'
<1>1. UNCHANGED <<calls, limit>>
  BY DEF DraftFails, Join, StartEvolve, EvolveEnds, RankEnds, Merge, ClockRunsOut, Returned, vars, own, global
<1>2. ASSUME NEW u \in Traj, pc'[u] \in {"wait", "judge", "identify", "retrieve", "resolve"}
      PROVE  pc'[u] = pc[u]
  BY <1>2 DEF DraftFails, Join, StartEvolve, EvolveEnds, RankEnds, Merge, ClockRunsOut, Returned, vars, TypeOK
<1>3. QED
  BY <1>1, <1>2 DEF CallsBounded, WithinBudget
-----------------------------------------------------------------------------
(***************************************************************************)
(* The account of the calls.                                               *)
(***************************************************************************)
Extra(where) == CASE where = "identify" -> J
                  [] where \in {"retrieve", "resolve"} -> J + 1
                  [] where \in {"record", "error"} -> J + 2
                  [] OTHER -> 0

LEMMA ExtraType == \A w \in States : Extra(w) \in 0..(J + 2)
  BY Constants DEF Extra

LEMMA SpentIs == Spent <=> \A t \in Traj : draft[t] <= step[t] /\ calls[t] <= step[t] * (J + 2) + Extra(pc[t])
  BY DEF Spent, Extra

LEMMA SpentNext ==
  Spent' <=> \A t \in Traj : draft'[t] <= step'[t] /\ calls'[t] <= step'[t] * (J + 2) + Extra(pc'[t])
  BY DEF Spent, Extra

LEMMA StepSpent ==
  ASSUME TypeOK, Spent, TruncationReported, NEW t \in Traj, Step(t)
  PROVE  Spent'
<1> DEFINE k == step[t] * (J + 2)
<1>1. /\ k \in Nat /\ J \in Nat /\ calls[t] \in Nat /\ step[t] \in Nat /\ draft[t] \in Nat
      /\ draft[t] <= step[t] /\ calls[t] <= k + Extra(pc[t])
  <2>1. step[t] \in Nat /\ J \in Nat /\ calls[t] \in Nat /\ draft[t] \in Nat
    BY Constants DEF TypeOK
  <2>2. draft[t] <= step[t] /\ calls[t] <= k + Extra(pc[t])
    BY SpentIs
  <2>3. QED
    BY <2>1, <2>2, StepCost
<1>2. draft'[t] <= step'[t] /\ calls'[t] <= step'[t] * (J + 2) + Extra(pc'[t])
  <2>1. CASE ~RecordStep(t)
    <3>1. step' = step /\ draft' = draft
      BY <2>1 DEF Step, DraftDone, ClockStops, BudgetStops, EnterStep, SkipFinal, EnterFinal,
                  Acquire, JudgeFinal, Judge, Identify, Retrieve, Resolve, own
    <3>2. calls'[t] <= k + Extra(pc'[t])
      <4> HIDE DEF k
      <4> USE <1>1 DEF TypeOK, At, Goto, Book, own
      <4>1. CASE \/ DraftDone(t) \/ ClockStops(t) \/ BudgetStops(t) \/ SkipFinal(t)
                 \/ EnterFinal(t) \/ JudgeFinal(t) \/ EnterStep(t) \/ Acquire(t)
        BY <4>1 DEF DraftDone, ClockStops, BudgetStops, SkipFinal, EnterFinal, JudgeFinal, EnterStep, Acquire, Extra
      <4>2. CASE Judge(t)
        BY <4>2 DEF Judge, Extra
      <4>3. CASE Identify(t)
        BY <4>3 DEF Identify, Extra
      <4>4. CASE Retrieve(t)
        BY <4>4 DEF Retrieve, Extra
      <4>5. CASE Resolve(t)
        BY <4>5 DEF Resolve, Extra
      <4>6. QED
        BY <2>1, <4>1, <4>2, <4>3, <4>4, <4>5 DEF Step
    <3>3. QED
      BY <1>1, <3>1, <3>2
  <2>2. CASE RecordStep(t)
    <3>1. step'[t] = step[t] + 1 /\ calls' = calls /\ draft'[t] <= draft[t] + 1 /\ pc[t] = "record" /\ pc'[t] \in States
      BY <2>2, <1>1 DEF RecordStep, RecordPlateau, RecordTakes, TypeOK, At, Goto, States, Evolved, Evolving
    <3>2. step'[t] * (J + 2) = k + J + 2
      BY <1>1, <3>1, StepCost
    <3>3. Extra(pc[t]) = J + 2
      BY <3>1 DEF Extra
    <3>4. Extra(pc'[t]) \in Nat
      BY <3>1, ExtraType, Constants
    <3>5. draft'[t] \in Nat
      BY <2>2, <1>1 DEF RecordStep, RecordPlateau, RecordTakes, TypeOK
    <3> HIDE DEF k
    <3>6. QED
      BY <1>1, <3>1, <3>2, <3>3, <3>4, <3>5
  <2>3. QED
    BY <2>1, <2>2
<1>3. QED
  BY <1>2, StepIsLocal, SpentIs, SpentNext

LEMMA RunSpent ==
  ASSUME TypeOK, Spent, PhaseFits, DraftFails \/ Join \/ ClockRunsOut \/ Returned
  PROVE  Spent'
<1>1. UNCHANGED <<calls, step, draft>>
  BY DEF DraftFails, Join, StartEvolve, EvolveEnds, RankEnds, Merge, ClockRunsOut, Returned, vars, own, global
<1>2. ASSUME NEW u \in Traj  PROVE Extra(pc'[u]) = Extra(pc[u])
  <2>1. CASE UNCHANGED pc
    BY <2>1
  <2>2. CASE DraftFails
    BY <2>2 DEF DraftFails, At, Extra, TypeOK
  <2>3. CASE StartEvolve
    BY <2>3 DEF StartEvolve, At, Extra, TypeOK
  <2>4. CASE EvolveEnds
    BY <2>4 DEF EvolveEnds, At, Extra, TypeOK
  <2>5. QED
    BY <2>1, <2>2, <2>3, <2>4 DEF Join, RankEnds, Merge, ClockRunsOut, Returned, vars
<1>3. QED
  BY <1>1, <1>2, SpentIs, SpentNext
-----------------------------------------------------------------------------
(***************************************************************************)
(* What the sink says about a trajectory.                                  *)
(***************************************************************************)
Cut(t) == {<<t, "clock">>, <<t, "budget">>} \cap sink # {}
Stopped == {"ended"} \cup Ranking \cup {"scored", "unscored"}
ReportedAt(t) ==
  /\ pc[t] \in Drafting \cup Evolving => step[t] < S
  /\ pc[t] \in Stopped => (step[t] < S => t \in plateaued \/ Cut(t))
  /\ Cut(t) => step[t] < S /\ pc[t] \notin Evolving \cup Drafting

LEMMA ReportedIs == TruncationReported <=> \A t \in Traj : ReportedAt(t)
  BY DEF TruncationReported, ReportedAt, Cut, Stopped

LEMMA ReportedNext == TruncationReported' <=> \A t \in Traj : ReportedAt(t)'
  BY DEF TruncationReported, ReportedAt, Cut, Stopped

LEMMA StepReported ==
  ASSUME TypeOK, TruncationReported, NEW t \in Traj, Step(t)
  PROVE  TruncationReported'
<1>0. step[t] \in 0..S /\ S \in Nat \ {0} /\ ReportedAt(t)
  BY Constants, ReportedIs DEF TypeOK
<1>1. ReportedAt(t)'
  <2> USE <1>0 DEF TypeOK, At, Goto, Push, own, ReportedAt, Cut, Stopped, Drafting, Evolving, Ranking
  <2>1. CASE DraftDone(t)
    BY <2>1 DEF DraftDone
  <2>2. CASE ClockStops(t) \/ BudgetStops(t)
    <3>1. step' = step /\ pc'[t] = "ended" /\ Cut(t)' /\ pc[t] = "loop"
      BY <2>2 DEF ClockStops, BudgetStops
    <3>2. QED
      BY <3>1
  <2>3. CASE EnterStep(t) \/ Acquire(t) \/ Judge(t) \/ Identify(t) \/ Retrieve(t) \/ Resolve(t)
    <3>1. UNCHANGED <<step, sink, plateaued>>
      BY <2>3 DEF EnterStep, Acquire, Judge, Identify, Retrieve, Resolve
    <3>2. \/ pc[t] \in Evolving /\ pc'[t] \in Evolving \cup {"error"}
          \/ pc[t] = "waitFinal" /\ pc'[t] = "judgeFinal"
      BY <2>3 DEF EnterStep, Acquire, Judge, Identify, Retrieve, Resolve
    <3>3. QED
      BY <3>1, <3>2
  <2>4. CASE SkipFinal(t) \/ EnterFinal(t) \/ JudgeFinal(t)
    BY <2>4 DEF SkipFinal, EnterFinal, JudgeFinal
  <2>5. CASE RecordStep(t)
    <3>1. pc[t] = "record" /\ step'[t] = step[t] + 1 /\ step[t] < S /\ ~Cut(t)
      BY <2>5 DEF RecordStep
    <3>2. CASE \E lost \in BOOLEAN : RecordPlateau(t, lost)
      <4>1. pc'[t] = "ended" /\ t \in plateaued'
        BY <3>2 DEF RecordPlateau
      <4>2. ~Cut(t)'
        BY <3>1, <3>2 DEF RecordPlateau, BibReason
      <4>3. QED
        BY <3>1, <4>1, <4>2
    <3>3. CASE \E lost \in BOOLEAN : RecordTakes(t, lost)
      <4>1. pc'[t] = IF OverSpent(t) \/ step[t] + 1 = S THEN "ended" ELSE "loop"
        BY <3>3 DEF RecordTakes
      <4>2. Cut(t)' <=> CutsShort(t)
        <5>1. PICK lost \in BOOLEAN : RecordTakes(t, lost)
          BY <3>3
        <5>2. CASE CutsShort(t)
          BY <5>1, <5>2 DEF RecordTakes
        <5>3. CASE ~CutsShort(t)
          <6>1. sink' = sink \cup BibReason(t, lost)
            BY <5>1, <5>3 DEF RecordTakes
          <6>2. QED
            BY <3>1, <5>3, <6>1 DEF BibReason
        <5>4. QED
          BY <5>2, <5>3
      <4>3. QED
        BY <3>1, <4>1, <4>2 DEF CutsShort
    <3>4. \E lost \in BOOLEAN : RecordPlateau(t, lost) \/ RecordTakes(t, lost)
      BY <2>5 DEF RecordStep, Allowed
    <3>5. QED
      BY <3>2, <3>3, <3>4
  <2>6. QED
    BY <2>1, <2>2, <2>3, <2>4, <2>5 DEF Step
<1>2. ASSUME NEW u \in Traj \ {t}  PROVE ReportedAt(u)'
  <2>1. Cut(u)' <=> Cut(u)
    BY StepReportsItself DEF Cut, Reason
  <2>2. ReportedAt(u)
    BY ReportedIs
  <2>3. QED
    BY <2>1, <2>2, StepIsLocal, StepReportsItself DEF ReportedAt
<1>3. QED
  BY <1>1, <1>2, ReportedNext

LEMMA RunReported ==
  ASSUME TypeOK, TruncationReported, PhaseFits, DraftFails \/ Join \/ ClockRunsOut \/ Returned
  PROVE  TruncationReported'
<1>1. UNCHANGED <<step, sink, plateaued>>
  BY DEF DraftFails, Join, StartEvolve, EvolveEnds, RankEnds, Merge, ClockRunsOut, Returned, vars, own
<1>2. CASE UNCHANGED pc
  BY <1>1, <1>2 DEF TruncationReported
<1>3. CASE DraftFails
  BY <1>1, <1>3, ReportedIs, ReportedNext DEF DraftFails, ReportedAt, Cut, Stopped, Ranking, Evolving, Drafting, TypeOK, At
<1>4. CASE StartEvolve
  <2>1. \A t \in Traj : pc[t] = "ready" /\ pc'[t] = "loop"
    BY <1>4 DEF StartEvolve, At
  <2>2. QED
    BY <1>1, <2>1, Constants, ReportedIs, ReportedNext DEF ReportedAt, Cut, Stopped, Ranking, Evolving, Drafting
<1>5. CASE EvolveEnds
  BY <1>1, <1>2, <1>5, ReportedIs, ReportedNext DEF EvolveEnds, ReportedAt, Cut, Stopped, Ranking, Evolving, Drafting, TypeOK, At
<1>6. QED
  BY <1>2, <1>3, <1>4, <1>5 DEF Join, RankEnds, Merge, ClockRunsOut, Returned, vars
-----------------------------------------------------------------------------
(***************************************************************************)
(* A sufficient limit: the calls of a trajectory never reach a guard.      *)
(***************************************************************************)
LEMMA StepSuffices ==
  ASSUME TypeOK, Spent, TruncationReported, BudgetSuffices, NEW t \in Traj, Step(t)
  PROVE  BudgetSuffices'
<1> SUFFICES ASSUME Suffices'  PROVE \A u \in Traj : (<<u, "budget">> \notin sink /\ pc[u] # "unscored")'
  BY DEF BudgetSuffices
<1>1. Suffices /\ limit \in Nat /\ \A u \in Traj : <<u, "budget">> \notin sink /\ pc[u] # "unscored"
  BY StepIsLocal, Constants DEF Suffices, BudgetSuffices, TypeOK
<1>2. /\ step[t] \in 0..S /\ S \in Nat /\ J \in Nat /\ calls[t] \in Nat
      /\ calls[t] <= step[t] * (J + 2) + Extra(pc[t])
  BY Constants, SpentIs DEF TypeOK
<1>3. step[t] * (J + 2) \in Nat /\ S * (J + 2) \in Nat /\ step[t] * (J + 2) <= S * (J + 2)
  <2>1. step[t] \in Nat /\ step[t] <= S
    BY <1>2
  <2>2. QED
    BY <1>2, <2>1, StepCost, StepCostGrows
<1>4. pc[t] \in {"loop", "final"} => ~OverBudget(t)
  <2>1. pc[t] \in {"loop", "final"} => Extra(pc[t]) = 0
    BY DEF Extra
  <2>2. QED
    BY <1>1, <1>2, <1>3, <2>1 DEF Suffices, OverBudget
<1>5. pc[t] = "record" => ~OverSpent(t)
  <2> SUFFICES ASSUME pc[t] = "record"  PROVE ~OverSpent(t)
    OBVIOUS
  <2>1. step[t] + 1 <= S
    BY <1>2 DEF TruncationReported, Evolving
  <2>2. (step[t] + 1) * (J + 2) <= S * (J + 2)
    BY <1>2, <2>1, StepCostGrows
  <2>3. (step[t] + 1) * (J + 2) = step[t] * (J + 2) + J + 2
    BY <1>2, StepCost
  <2>4. Extra(pc[t]) = J + 2
    BY DEF Extra
  <2>5. QED
    BY <1>1, <1>2, <1>3, <2>2, <2>3, <2>4 DEF Suffices, OverSpent
<1>6. <<t, "budget">> \notin sink' /\ pc'[t] # "unscored"
  <2> USE <1>1 DEF TypeOK, At, Goto, Push
  <2>1. CASE RecordStep(t)
    <3>1. pc[t] = "record" /\ ~CutsShort(t)
      BY <1>5, <2>1 DEF RecordStep, CutsShort
    <3>2. PICK lost \in BOOLEAN : RecordPlateau(t, lost) \/ RecordTakes(t, lost)
      BY <2>1 DEF RecordStep, Allowed
    <3>3. sink' = sink \cup BibReason(t, lost)
      BY <3>1, <3>2 DEF RecordPlateau, RecordTakes
    <3>4. pc'[t] # "unscored"
      BY <3>2 DEF RecordPlateau, RecordTakes
    <3>5. QED
      BY <3>3, <3>4 DEF BibReason
  <2>2. CASE ClockStops(t)
    BY <2>2 DEF ClockStops
  <2>3. CASE BudgetStops(t) \/ SkipFinal(t)
    BY <1>4, <2>3 DEF BudgetStops, SkipFinal
  <2>4. CASE \/ DraftDone(t) \/ EnterStep(t) \/ Acquire(t) \/ Judge(t) \/ Identify(t) \/ Retrieve(t)
             \/ Resolve(t) \/ EnterFinal(t) \/ JudgeFinal(t)
    BY <2>4 DEF DraftDone, EnterStep, Acquire, Judge, Identify, Retrieve, Resolve, EnterFinal, JudgeFinal
  <2>5. QED
    BY <2>1, <2>2, <2>3, <2>4 DEF Step
<1>7. ASSUME NEW u \in Traj \ {t}  PROVE <<u, "budget">> \notin sink' /\ pc'[u] # "unscored"
  BY <1>1, StepIsLocal, StepReportsItself DEF Reason
<1>8. QED
  BY <1>6, <1>7

LEMMA RunSuffices ==
  ASSUME TypeOK, BudgetSuffices, DraftFails \/ Join \/ ClockRunsOut \/ Returned
  PROVE  BudgetSuffices'
<1>1. UNCHANGED <<limit, sink>>
  BY DEF DraftFails, Join, StartEvolve, EvolveEnds, RankEnds, Merge, ClockRunsOut, Returned, vars, global
<1>2. ASSUME NEW u \in Traj, pc'[u] = "unscored"  PROVE pc[u] = "unscored"
  BY <1>2 DEF DraftFails, Join, StartEvolve, EvolveEnds, RankEnds, Merge, ClockRunsOut, Returned, vars, TypeOK
<1>3. QED
  BY <1>1, <1>2 DEF BudgetSuffices, Suffices
-----------------------------------------------------------------------------
(***************************************************************************)
(* The ranking.                                                            *)
(***************************************************************************)
\* The sort never puts a trajectory before one that is better.
LEMMA BeforeIsBest ==
  ASSUME TypeOK, NEW t \in Traj, NEW u \in Traj, t = u \/ Before(t, u)
  PROVE  /\ Seen(u).valid => Seen(t).valid
         /\ Seen(t).valid = Seen(u).valid => Seen(t).score >= Seen(u).score
<1>1. Seen(t) \in Eval /\ Seen(u) \in Eval
  BY ConstantsAssumption DEF Seen, Eval, TypeOK
<1>2. Seen(t).score \in Int /\ Seen(u).score \in Int /\ Seen(t).valid \in BOOLEAN /\ Seen(u).valid \in BOOLEAN
  BY <1>1, ConstantsAssumption DEF Eval
<1> HIDE DEF Seen
<1>3. QED
  BY <1>2 DEF Before, Better

LEMMA NextWinner ==
  ASSUME TypeOK, PhaseFits, WinnerIsBest, [Next]_vars
  PROVE  WinnerIsBest'
<1>1. CASE Merge
  <2> SUFFICES ASSUME phase' = "done", NEW u \in Traj, eval[u] # None
               PROVE  /\ eval[u].valid => eval[winner'] # None /\ eval[winner'].valid
                      /\ eval[winner'] # None /\ eval[winner'].valid = eval[u].valid
                           => eval[winner'].score >= eval[u].score
    BY <1>1 DEF Merge, WinnerIsBest
  <2>1. winner' \in Traj /\ (winner' = u \/ Before(winner', u))
    BY <1>1 DEF Merge
  <2>2. Seen(u) = eval[u]
    BY DEF Seen
  <2>3. /\ eval[winner'] = None => ~Seen(winner').valid
        /\ eval[winner'] # None => Seen(winner') = eval[winner']
    BY DEF Seen
  <2>4. QED
    BY <2>1, <2>2, <2>3, BeforeIsBest
<1>2. CASE UNCHANGED <<phase, eval, winner>>
  BY <1>2 DEF WinnerIsBest
<1>3. CASE phase' # "done"
  BY <1>3 DEF WinnerIsBest
<1>4. ASSUME NEW t \in Traj, Step(t)  PROVE phase' # "done"
  <2>1. phase' = phase
    BY <1>4 DEF Step, DraftDone, ClockStops, BudgetStops, EnterStep, SkipFinal, EnterFinal, Acquire,
                JudgeFinal, Judge, Identify, Retrieve, Resolve, RecordStep
  <2>2. pc[t] \notin {"scored", "unscored"}
    BY <1>4 DEF Step, DraftDone, ClockStops, BudgetStops, EnterStep, SkipFinal, EnterFinal, Acquire,
                JudgeFinal, Judge, Identify, Retrieve, Resolve, RecordStep, At
  <2>3. QED
    BY <2>1, <2>2 DEF PhaseFits
<1>5. CASE DraftFails \/ StartEvolve \/ EvolveEnds \/ RankEnds
  BY <1>5, <1>3 DEF DraftFails, StartEvolve, EvolveEnds, RankEnds
<1>6. CASE ClockRunsOut \/ Returned \/ UNCHANGED vars
  BY <1>6, <1>2 DEF ClockRunsOut, Returned, vars
<1>7. QED
  BY <1>1, <1>3, <1>4, <1>5, <1>6 DEF Next, Join
-----------------------------------------------------------------------------
LEMMA InitInvariant == Init => IInv
<1> SUFFICES ASSUME Init  PROVE IInv
  OBVIOUS
<1> USE Constants DEF Init
<1>1. TypeOK
  <2>1. found \in [Traj -> BOOLEAN] /\ refined \in [Traj -> BOOLEAN] /\ late \in BOOLEAN
    OBVIOUS
  <2>2. pc \in [Traj -> States] /\ eval \in [Traj -> Eval \cup {None}]
    BY DEF States, Drafting
  <2>3. permits \in 0..Permits /\ step \in [Traj -> 0..S] /\ calls \in [Traj -> Nat] /\ draft \in [Traj -> 0..S]
    OBVIOUS
  <2>4. QED
    BY <2>1, <2>2, <2>3 DEF TypeOK, States
<1>2. PermitsConserved
  <2>1. Holders = {}
    BY DEF Holders, Holding
  <2>2. QED
    BY <2>1, FS_EmptySet DEF PermitsConserved
<1>3. PhaseFits /\ CallsBounded
  BY DEF PhaseFits, CallsBounded, WithinBudget, Drafting
<1>4. TruncationReported
  BY DEF TruncationReported, Ranking
<1>5. Spent
  <2>1. 0 * (J + 2) = 0
    OBVIOUS
  <2>2. QED
    BY <2>1, SpentIs DEF Extra
<1>6. BudgetSuffices
  BY DEF BudgetSuffices
<1>7. QED
  BY <1>1, <1>2, <1>3, <1>4, <1>5, <1>6 DEF IInv

LEMMA NextInvariant == IInv /\ [Next]_vars => IInv'
<1> SUFFICES ASSUME IInv, [Next]_vars  PROVE IInv'
  OBVIOUS
<1> USE DEF IInv
<1>1. ASSUME NEW t \in Traj, Step(t)  PROVE IInv'
  BY <1>1, StepTyped, StepPermits, StepPhase, StepBounded, StepReported, StepSpent, StepSuffices
<1>2. CASE DraftFails \/ Join \/ ClockRunsOut \/ Returned
  BY <1>2, RunTyped, RunPermits, RunPhase, RunBounded, RunReported, RunSpent, RunSuffices
<1>3. CASE UNCHANGED vars
  <2> USE <1>3 DEF vars
  <2>1. TypeOK' /\ PhaseFits'
    BY DEF TypeOK, PhaseFits
  <2>2. PermitsConserved' /\ CallsBounded'
    BY DEF PermitsConserved, Holders, CallsBounded, WithinBudget
  <2>3. TruncationReported' /\ BudgetSuffices'
    BY DEF TruncationReported, BudgetSuffices, Suffices
  <2>4. Spent'
    BY SpentIs, SpentNext
  <2>5. QED
    BY <2>1, <2>2, <2>3, <2>4
<1>4. QED
  BY <1>1, <1>2, <1>3 DEF Next

\* The inductive invariant holds in every behaviour of run.
THEOREM Invariance == Spec => []IInv
  BY InitInvariant, NextInvariant, PTL DEF Spec

\* The permits of the fitness semaphore are conserved on every path.
THEOREM PermitsAreConserved == Spec => []PermitsConserved
<1>1. IInv => PermitsConserved
  BY DEF IInv
<1>2. QED
  BY <1>1, Invariance, PTL

\* run neither goes on nor returns while a trajectory is at work.
THEOREM PhasesFit == Spec => []PhaseFits
<1>1. IInv => PhaseFits
  BY DEF IInv
<1>2. QED
  BY <1>1, Invariance, PTL

\* No trajectory books more than two calls beyond its limit.
THEOREM CallsAreBounded == Spec => []CallsBounded
<1>1. IInv => CallsBounded
  BY DEF IInv
<1>2. QED
  BY <1>1, Invariance, PTL

\* A trajectory the guards cut short is reported, and only such a one.
THEOREM TruncationIsReported == Spec => []TruncationReported
<1>1. IInv => TruncationReported
  BY DEF IInv
<1>2. QED
  BY <1>1, Invariance, PTL

\* S steps and a final evaluation fit in S * (J + 2) + J calls.
THEOREM BudgetIsEnough == Spec => []BudgetSuffices
<1>1. IInv => BudgetSuffices
  BY DEF IInv
<1>2. QED
  BY <1>1, Invariance, PTL

\* The candidate handed first to the merger is a best one of those judged.
THEOREM BestWins == Spec => []WinnerIsBest
<1>1. Init => WinnerIsBest
  BY DEF Init, WinnerIsBest
<1>2. IInv /\ WinnerIsBest /\ [Next]_vars => WinnerIsBest'
  BY NextWinner DEF IInv
<1>3. QED
  BY <1>1, <1>2, Invariance, PTL DEF Spec
=============================================================================
