------------------------- MODULE RunLifecycleProofs -------------------------
(***************************************************************************)
(* Theorems about RunLifecycle, for every set of invocations, runs and     *)
(* faults: its inductive invariant, the order of publication and           *)
(* completion, that it implements the ledger's abstract specification, and *)
(* what it leaves behind: the two files come from one invocation, the      *)
(* artifacts of a result belong together, and a loss is in the notice of   *)
(* the invocation it happened to.                                          *)
(***************************************************************************)
EXTENDS RunLifecycle, TLAPS

(***************************************************************************)
(* Tables of artifacts.                                                    *)
(***************************************************************************)
LEMMA ArtifactOfStage ==
  ASSUME NEW s \in Stage
  PROVE  ArtifactOf(s) \subseteq Artifact
  BY DEF Stage, ArtifactOf, Artifact

LEMMA NoArtifactsType == NoArtifacts \in StageArtifacts
  BY DEF NoArtifacts, StageArtifacts

LEMMA PutArtifact ==
  ASSUME NEW a \in StageArtifacts, NEW s \in Stage, NEW v \in ArtifactOf(s) \cup {None}
  PROVE  [a EXCEPT ![s] = v] \in StageArtifacts
<1>1. v \in Artifact \cup {None}
  BY ArtifactOfStage
<1>2. QED
  BY <1>1 DEF StageArtifacts

LEMMA GetArtifact ==
  ASSUME NEW a \in StageArtifacts, NEW s \in Stage
  PROVE  a[s] \in ArtifactOf(s) \cup {None}
  BY DEF StageArtifacts

\* The artifact a stage makes is of that stage, if memory holds its input.
LEMMA MadeArtifact ==
  ASSUME TypeOK, StagesInOrder, NEW p \in Inv, pc[p] = "stage"
  PROVE  <<Input(p, stage[p]), p>> \in ArtifactOf(stage[p])
<1>1. stage[p] \in Stage /\ art[p] \in StageArtifacts
  BY DEF TypeOK
<1>2. CASE stage[p] = "graph"
  BY <1>2 DEF Input, ArtifactOf, Graphs
<1>3. CASE stage[p] = "synthesis"
  <2>1. art[p]["graph"] \in ArtifactOf("graph")
    BY <1>1, <1>3, GetArtifact DEF StagesInOrder, Stage
  <2>2. QED
    BY <1>3, <2>1 DEF Input, ArtifactOf, Syntheses
<1>4. CASE stage[p] = "narrative"
  <2>1. art[p]["synthesis"] \in ArtifactOf("synthesis")
    BY <1>1, <1>4, GetArtifact DEF StagesInOrder, Stage
  <2>2. QED
    BY <1>4, <2>1 DEF Input, ArtifactOf, Narratives
<1>5. QED
  BY <1>1, <1>2, <1>3, <1>4 DEF Stage

LEMMA LossesType == Losses \subseteq BOOLEAN
  BY DEF Losses, Allowed

LEMMA NoneIsNoArtifact == None \notin Artifact
  BY ConstantsAssumption
-----------------------------------------------------------------------------
(***************************************************************************)
(* Type correctness, with the two facts it rests on: an active invocation  *)
(* has a run, and a stage is worked on when memory holds its input.        *)
(***************************************************************************)
Typed == TypeOK /\ RunAssigned /\ StagesInOrder

LEMMA InitTyped == Init => Typed
  BY NoArtifactsType
  DEF Init, Typed, TypeOK, RunAssigned, StagesInOrder, Stage

LEMMA StartReviewTyped ==
  ASSUME Typed, NEW p \in Inv, NEW r \in Run, StartReview(p, r)
  PROVE  Typed'
<1> USE DEF Typed, StartReview, MayStart, Start, Goto
<1>1. TypeOK'
  BY LossesType DEF TypeOK, Active
<1>2. RunAssigned'
  BY DEF TypeOK, RunAssigned
<1>3. StagesInOrder'
  BY DEF TypeOK, StagesInOrder
<1>4. QED
  BY <1>1, <1>2, <1>3

LEMMA StartResumeTyped ==
  ASSUME Typed, NEW p \in Inv, NEW r \in Run, StartResume(p, r)
  PROVE  Typed'
<1> USE DEF Typed, StartResume, MayStart, Start, Goto, db
<1>1. TypeOK'
  BY DEF TypeOK, Active, Outcome
<1>2. RunAssigned'
  BY DEF TypeOK, RunAssigned
<1>3. StagesInOrder'
  BY DEF TypeOK, StagesInOrder
<1>4. QED
  BY <1>1, <1>2, <1>3

\* Steps that change neither artifacts nor the stage.
LEMMA PlainStepTyped ==
  ASSUME Typed, NEW p \in Inv,
         \/ EmptyPanel(p) \/ RecordRunStart(p) \/ StageFails(p) \/ Emit(p) \/ MarkFailed(p)
         \/ WriteYaml(p) \/ WriteGraph(p) \/ WriteFails(p) \/ MarkComplete(p) \/ Crash(p)
  PROVE  Typed'
<1> USE DEF Typed, EmptyPanel, RecordRunStart, StageFails, Emit, MarkFailed, WriteYaml,
            WriteGraph, WriteFails, MarkComplete, Crash, Goto, SetStatus, Result, db, local, IsActive
<1>1. /\ TypeOK /\ pc[p] \in Active /\ run[p] \in Run
      /\ UNCHANGED <<checkpoint, run, stage, art>>
  BY DEF RunAssigned, Active
<1>2. row' \in [Run -> {"absent", "running", "failed", "complete"}]
  BY DEF TypeOK
<1>3. out' \in [{"yaml", "graph"} -> Inv \cup {None}]
  BY DEF TypeOK
<1>4. \E where \in (Active \ {"save", "record"}) \cup Outcome :
        pc' = [pc EXCEPT ![p] = where] /\ (where = "stage" => pc[p] = "record")
  BY DEF Active, Outcome
<1>5. degraded' \in [Inv -> BOOLEAN] /\ published' \subseteq Run /\ lossy' = lossy
  BY <1>1, LossesType DEF TypeOK
<1>6. TypeOK'
  <2>1. pc' \in [Inv -> {"idle"} \cup Active \cup Outcome]
    BY <1>1, <1>4 DEF TypeOK
  <2> HIDE DEF EmptyPanel, RecordRunStart, StageFails, Emit, MarkFailed, WriteYaml,
               WriteGraph, WriteFails, MarkComplete, Crash
  <2>2. QED
    BY <1>1, <1>2, <1>3, <1>5, <2>1 DEF TypeOK
<1>7. RunAssigned'
  BY <1>1, <1>4 DEF RunAssigned, TypeOK, Outcome
<1>8. StagesInOrder'
  BY <1>1, <1>4 DEF StagesInOrder, RunAssigned, TypeOK, Outcome
<1>9. QED
  BY <1>6, <1>7, <1>8 DEF Typed

LEMMA AdvanceTyped ==
  ASSUME Typed, NEW p \in Inv, NEW again \in Active, Advance(p, again, "stage")
  PROVE  /\ pc' \in [Inv -> {"idle"} \cup Active \cup Outcome]
         /\ stage' \in [Inv -> Stage]
  BY DEF Typed, TypeOK, Advance, Goto, Active, Stage

LEMMA DoneTyped ==
  ASSUME Typed, NEW p \in Inv, Advance(p, "stage", "emit")
  PROVE  /\ pc' \in [Inv -> {"idle"} \cup Active \cup Outcome]
         /\ stage' \in [Inv -> Stage]
  BY DEF Typed, TypeOK, Advance, Goto, Active, Stage

\* An invocation that moves on to the next stage holds the one it leaves.
LEMMA AdvanceInOrder ==
  ASSUME Typed, NEW p \in Inv, pc[p] \in {"stage", "save"}, art[p][stage[p]] # None,
         Advance(p, "stage", "emit"), UNCHANGED art
  PROVE  StagesInOrder'
<1> USE DEF Typed
<1>1. \A q \in Inv : q # p => pc'[q] = pc[q] /\ stage'[q] = stage[q]
  BY DEF TypeOK, Advance, Goto
<1>2. CASE stage[p] = "narrative"
  <2>1. pc'[p] = "emit"
    BY <1>2 DEF TypeOK, Advance, Goto
  <2>2. QED
    BY <1>1, <2>1 DEF StagesInOrder
<1>3. CASE stage[p] = "graph"
  <2>1. pc'[p] = "stage" /\ stage'[p] = "synthesis"
    BY <1>3 DEF TypeOK, Advance, Goto
  <2>2. QED
    BY <1>1, <1>3, <2>1 DEF StagesInOrder
<1>4. CASE stage[p] = "synthesis"
  <2>1. pc'[p] = "stage" /\ stage'[p] = "narrative"
    BY <1>4 DEF TypeOK, Advance, Goto
  <2>2. QED
    BY <1>1, <1>4, <2>1 DEF StagesInOrder
<1>5. QED
  BY <1>2, <1>3, <1>4 DEF TypeOK, Stage

LEMMA LoadStageTyped ==
  ASSUME Typed, NEW p \in Inv, LoadStage(p)
  PROVE  Typed'
<1> USE DEF Typed, LoadStage, db
<1>1. /\ run[p] \in Run /\ stage[p] \in Stage /\ art[p] \in StageArtifacts
      /\ checkpoint[run[p]] \in StageArtifacts
  BY DEF RunAssigned, TypeOK
<1>2. art' \in [Inv -> StageArtifacts]
  <2>1. [art[p] EXCEPT ![stage[p]] = checkpoint[run[p]][stage[p]]] \in StageArtifacts
    BY <1>1, PutArtifact, GetArtifact
  <2>2. QED
    BY <2>1 DEF TypeOK
<1>3. TypeOK'
  BY <1>2, AdvanceTyped DEF TypeOK, Active
<1>4. RunAssigned'
  BY DEF RunAssigned, TypeOK, Advance, Goto, Stage
<1>5. StagesInOrder'
  <2>1. \/ pc' = [pc EXCEPT ![p] = "load"]
        \/ pc' = [pc EXCEPT ![p] = "stage"] /\ stage' = [stage EXCEPT ![p] = "graph"]
    BY DEF Advance, Goto
  <2>2. \A q \in Inv : q # p => art'[q] = art[q] /\ pc'[q] = pc[q] /\ stage'[q] = stage[q]
    BY DEF TypeOK, Advance, Goto
  <2>3. pc'[p] = "load" \/ (pc'[p] = "stage" /\ stage'[p] = "graph")
    BY <2>1 DEF TypeOK
  <2>4. QED
    BY <2>2, <2>3 DEF StagesInOrder
<1>6. QED
  BY <1>3, <1>4, <1>5

LEMMA SkipStageTyped ==
  ASSUME Typed, NEW p \in Inv, SkipStage(p)
  PROVE  Typed'
<1> USE DEF Typed, SkipStage, db
<1>1. TypeOK'
  BY AdvanceTyped, DoneTyped DEF TypeOK, Active
<1>2. RunAssigned'
  BY DEF RunAssigned, TypeOK, Advance, Goto, Stage
<1>3. StagesInOrder'
  BY AdvanceInOrder
<1>4. QED
  BY <1>1, <1>2, <1>3

LEMMA RunStageTyped ==
  ASSUME Typed, NEW p \in Inv, RunStage(p)
  PROVE  Typed'
<1> USE DEF Typed, RunStage, db, Goto
<1> DEFINE a == <<Input(p, stage[p]), p>>
<1>1. /\ stage[p] \in Stage /\ art[p] \in StageArtifacts
      /\ a \in ArtifactOf(stage[p]) /\ a \in Artifact /\ a # None
  BY MadeArtifact, ArtifactOfStage, NoneIsNoArtifact DEF TypeOK
<1>2. art' = [art EXCEPT ![p] = [art[p] EXCEPT ![stage[p]] = a]]
  BY DEF TypeOK
<1> HIDE DEF a
<1>3. art' \in [Inv -> StageArtifacts]
  <2>1. [art[p] EXCEPT ![stage[p]] = a] \in StageArtifacts
    BY <1>1, PutArtifact
  <2>2. QED
    BY <1>2, <2>1 DEF TypeOK
<1>4. lossy' \subseteq Artifact \cup Run /\ degraded' \in [Inv -> BOOLEAN]
  BY <1>1, LossesType DEF TypeOK, a
<1>5. TypeOK'
  BY <1>3, <1>4 DEF TypeOK, Active
<1>6. RunAssigned'
  BY DEF RunAssigned, TypeOK
<1>7. StagesInOrder'
  <2>1. \A q \in Inv : q # p => art'[q] = art[q] /\ pc'[q] = pc[q] /\ stage'[q] = stage[q]
    BY <1>2 DEF TypeOK
  <2>2. pc'[p] = "save" /\ stage'[p] = stage[p] /\ art'[p] = [art[p] EXCEPT ![stage[p]] = a]
    BY <1>2 DEF TypeOK
  <2>3. \A s \in Stage : art'[p][s] = (IF s = stage[p] THEN a ELSE art[p][s])
    BY <1>1, <2>2 DEF StageArtifacts
  <2>4. QED
    BY <1>1, <2>1, <2>2, <2>3 DEF StagesInOrder, Stage
<1>8. QED
  BY <1>5, <1>6, <1>7

LEMMA SaveCheckpointTyped ==
  ASSUME Typed, NEW p \in Inv, SaveCheckpoint(p)
  PROVE  Typed'
<1> USE DEF Typed, SaveCheckpoint
<1>1. /\ run[p] \in Run /\ stage[p] \in Stage /\ art[p] \in StageArtifacts
      /\ checkpoint[run[p]] \in StageArtifacts
  BY DEF RunAssigned, TypeOK
<1>2. checkpoint' \in [Run -> StageArtifacts]
  <2>1. [checkpoint[run[p]] EXCEPT ![stage[p]] = art[p][stage[p]]] \in StageArtifacts
    BY <1>1, PutArtifact, GetArtifact
  <2>2. QED
    BY <2>1 DEF TypeOK
<1>3. TypeOK'
  BY <1>2, DoneTyped DEF TypeOK, Active
<1>4. RunAssigned'
  BY DEF RunAssigned, TypeOK, Advance, Goto, Stage
<1>5. StagesInOrder'
  BY AdvanceInOrder DEF StagesInOrder, db
<1>6. QED
  BY <1>3, <1>4, <1>5

LEMMA DeleteCheckpointsTyped ==
  ASSUME Typed, NEW p \in Inv, DeleteCheckpoints(p)
  PROVE  Typed'
<1> USE DEF Typed, DeleteCheckpoints, Goto, Result, local
<1>1. TypeOK'
  BY NoArtifactsType DEF TypeOK, Outcome
<1>2. RunAssigned' /\ StagesInOrder'
  BY DEF RunAssigned, StagesInOrder, TypeOK
<1>3. QED
  BY <1>1, <1>2

LEMMA AlwaysTyped == Spec => []Typed
<1>1. Typed /\ [Next]_vars => Typed'
  <2> SUFFICES ASSUME Typed, [Next]_vars PROVE Typed'
    OBVIOUS
  <2>1. ASSUME NEW p \in Inv, NEW r \in Run, StartReview(p, r) \/ StartResume(p, r)
        PROVE  Typed'
    BY <2>1, StartReviewTyped, StartResumeTyped
  <2>2. ASSUME NEW p \in Inv, Step(p) \/ Crash(p)
        PROVE  Typed'
    BY <2>2, PlainStepTyped, LoadStageTyped, SkipStageTyped, RunStageTyped,
       SaveCheckpointTyped, DeleteCheckpointsTyped
    DEF Step
  <2>3. CASE UNCHANGED vars
    BY <2>3 DEF Typed, TypeOK, RunAssigned, StagesInOrder, vars
  <2>4. QED
    BY <2>1, <2>2, <2>3 DEF Next, AllEnded
<1>2. QED
  BY InitTyped, <1>1, PTL DEF Spec

\* Every variable keeps its type: in particular an artifact in memory or in
\* run_checkpoints is always one its stage could have made.
THEOREM TypeCorrect == Spec => []TypeOK
  BY AlwaysTyped, PTL DEF Typed
-----------------------------------------------------------------------------
(***************************************************************************)
(* Completion comes after publication.  CompleteMeansPublished is not      *)
(* inductive: MarkComplete relies on the position of the invocation, so    *)
(* the invariant adds that finalizing invocations have published.          *)
(***************************************************************************)
PublishedFirst == CompleteMeansPublished /\ FinalizingMeansPublished

LEMMA PublishedFirstStep ==
  ASSUME Typed, PublishedFirst, NEW p \in Inv, Step(p) \/ Crash(p)
  PROVE  PublishedFirst'
<1> USE DEF Typed, PublishedFirst
<1>1. run[p] \in Run /\ UNCHANGED run
  BY DEF RunAssigned, Step, Crash, IsActive, Active, EmptyPanel, RecordRunStart, LoadStage,
         SkipStage, RunStage, StageFails, SaveCheckpoint, Emit, MarkFailed, WriteYaml, WriteGraph,
         WriteFails, MarkComplete, DeleteCheckpoints, local
<1>2. published \subseteq published'
  BY DEF Step, Crash, EmptyPanel, RecordRunStart, LoadStage, SkipStage, RunStage, StageFails,
         SaveCheckpoint, Emit, MarkFailed, WriteYaml, WriteGraph, WriteFails, MarkComplete,
         DeleteCheckpoints
<1>3. CASE MarkComplete(p)
  BY <1>1, <1>3
  DEF MarkComplete, SetStatus, Goto, Result, local, TypeOK, CompleteMeansPublished,
      FinalizingMeansPublished
<1>4. CASE WriteGraph(p)
  BY <1>1, <1>4
  DEF WriteGraph, Goto, db, local, TypeOK, CompleteMeansPublished, FinalizingMeansPublished
<1>5. CASE ~MarkComplete(p) /\ ~WriteGraph(p)
  <2>1. \A r \in Run : row'[r] = "complete" => row[r] = "complete"
    <3>1. CASE RecordRunStart(p) \/ MarkFailed(p)
      BY <3>1 DEF TypeOK, RecordRunStart, MarkFailed, SetStatus
    <3>2. CASE ~RecordRunStart(p) /\ ~MarkFailed(p)
      <4>1. CASE Crash(p) \/ EmptyPanel(p) \/ LoadStage(p) \/ SkipStage(p) \/ RunStage(p)
        BY <4>1 DEF Crash, EmptyPanel, LoadStage, SkipStage, RunStage, db
      <4>3. CASE ~(Crash(p) \/ EmptyPanel(p) \/ LoadStage(p) \/ SkipStage(p) \/ RunStage(p))
        BY <1>5, <3>2, <4>3 DEF Step, StageFails, SaveCheckpoint, Emit, WriteYaml, WriteFails, DeleteCheckpoints, db
      <4>2. QED
        BY <4>1, <4>3
    <3>3. QED
      BY <3>1, <3>2
  <2>2. \E where : pc' = [pc EXCEPT ![p] = where] /\ where \notin {"complete", "delete"}
    <3>1. CASE Crash(p) \/ EmptyPanel(p) \/ RecordRunStart(p) \/ LoadStage(p) \/ SkipStage(p)
      BY <3>1 DEF Crash, EmptyPanel, RecordRunStart, LoadStage, SkipStage, Advance, Goto, Result
    <3>2. CASE RunStage(p) \/ StageFails(p) \/ SaveCheckpoint(p) \/ Emit(p)
      BY <3>2 DEF RunStage, StageFails, SaveCheckpoint, Emit, Advance, Goto, Result
    <3>3. CASE MarkFailed(p) \/ WriteYaml(p) \/ WriteFails(p) \/ DeleteCheckpoints(p)
      BY <3>3 DEF MarkFailed, WriteYaml, WriteFails, DeleteCheckpoints, Advance, Goto, Result
    <3>4. QED
      BY <1>5, <3>1, <3>2, <3>3 DEF Step
  <2>3. QED
    BY <1>1, <1>2, <2>1, <2>2 DEF TypeOK, CompleteMeansPublished, FinalizingMeansPublished
<1>6. QED
  BY <1>3, <1>4, <1>5

LEMMA PublishedFirstStart ==
  ASSUME Typed, PublishedFirst, NEW p \in Inv, NEW r \in Run, StartReview(p, r) \/ StartResume(p, r)
  PROVE  PublishedFirst'
  BY DEF Typed, TypeOK, PublishedFirst, StartReview, StartResume, MayStart, Start, Goto, db,
         CompleteMeansPublished, FinalizingMeansPublished

LEMMA AlwaysPublishedFirst == Spec => []PublishedFirst
<1>1. Init => PublishedFirst
  BY DEF Init, PublishedFirst, CompleteMeansPublished, FinalizingMeansPublished
<1>2. Typed /\ PublishedFirst /\ [Next]_vars => PublishedFirst'
  <2>1. ASSUME Typed, PublishedFirst, UNCHANGED vars
        PROVE  PublishedFirst'
    BY <2>1 DEF PublishedFirst, CompleteMeansPublished, FinalizingMeansPublished, vars
  <2>2. QED
    BY <2>1, PublishedFirstStep, PublishedFirstStart DEF Next, AllEnded
<1>3. QED
  BY AlwaysTyped, <1>1, <1>2, PTL DEF Spec

\* A run is complete, and so refused by resume, only when both its output
\* files have been written: for any faults, and any overlap of invocations.
THEOREM CompleteRunsArePublished == Spec => []CompleteMeansPublished
  BY AlwaysPublishedFirst, PTL DEF PublishedFirst
-----------------------------------------------------------------------------
(***************************************************************************)
(* Who works on what: a run that is being recorded has no other worker,    *)
(* and, without overlap, there is one worker, never on a complete run.     *)
(***************************************************************************)
LEMMA StepFrame ==
  ASSUME Typed, NEW p \in Inv, Step(p) \/ Crash(p)
  PROVE  /\ pc[p] \in Active /\ run[p] \in Run /\ UNCHANGED run
         /\ \E where \in (Active \ {"record"}) \cup Outcome :
              /\ pc' = [pc EXCEPT ![p] = where]
              /\ pc[p] = "delete" => where \in Outcome
              /\ where = "delete" => MarkComplete(p)
         /\ \/ UNCHANGED row
            \/ \E status \in {"running", "failed", "complete"} :
                 /\ row' = [row EXCEPT ![run[p]] = status]
                 /\ status = "running" => pc[p] = "record"
                 /\ status # "running" => row[run[p]] # "absent"
                 /\ status = "complete" => pc'[p] = "delete"
<1>1. pc[p] \in Active /\ UNCHANGED run
  BY DEF Step, Crash, IsActive, Active, EmptyPanel, RecordRunStart, LoadStage, SkipStage, RunStage,
      StageFails, SaveCheckpoint, Emit, MarkFailed, WriteYaml, WriteGraph, WriteFails,
      MarkComplete, DeleteCheckpoints, local
<1>2. run[p] \in Run
  BY <1>1 DEF Typed, RunAssigned, Active
<1>3. \E where \in (Active \ {"record"}) \cup Outcome :
        /\ pc' = [pc EXCEPT ![p] = where]
        /\ pc[p] = "delete" => where \in Outcome
        /\ where = "delete" => MarkComplete(p)
  BY DEF Step, Crash, IsActive, Active, Outcome, EmptyPanel, RecordRunStart, LoadStage, SkipStage,
      RunStage, StageFails, SaveCheckpoint, Emit, MarkFailed, WriteYaml, WriteGraph, WriteFails,
      MarkComplete, DeleteCheckpoints, Advance, Goto, Result
<1>4. \/ UNCHANGED row
      \/ \E status \in {"running", "failed", "complete"} :
           /\ row' = [row EXCEPT ![run[p]] = status]
           /\ status = "running" => pc[p] = "record"
           /\ status # "running" => row[run[p]] # "absent"
           /\ status = "complete" => pc'[p] = "delete"
  <2>1. CASE RecordRunStart(p)
    BY <2>1 DEF RecordRunStart
  <2>2. CASE MarkFailed(p)
    BY <2>2 DEF MarkFailed, SetStatus
  <2>3. CASE MarkComplete(p)
    BY <2>3 DEF MarkComplete, SetStatus, Goto, Typed, TypeOK
  <2>4. CASE ~RecordRunStart(p) /\ ~MarkFailed(p) /\ ~MarkComplete(p)
    BY <2>4 DEF Step, Crash, EmptyPanel, LoadStage, SkipStage, RunStage, StageFails,
      SaveCheckpoint, Emit, WriteYaml, WriteGraph, WriteFails, DeleteCheckpoints, db
  <2>5. QED
    BY <2>1, <2>2, <2>3, <2>4
<1>5. QED
  BY <1>1, <1>2, <1>3, <1>4

Workers == NewRunsAbsent /\ OneAtATime

LEMMA WorkersStep ==
  ASSUME Typed, Workers, NEW p \in Inv, Step(p) \/ Crash(p)
  PROVE  Workers'
<1>1. PICK where \in (Active \ {"record"}) \cup Outcome :
        /\ pc' = [pc EXCEPT ![p] = where]
        /\ pc[p] = "delete" => where \in Outcome
        /\ where = "delete" => MarkComplete(p)
  BY StepFrame
<1>2. pc[p] \in Active /\ run[p] \in Run /\ UNCHANGED run
  BY StepFrame
<1>3. \A q \in Inv : pc'[q] = IF q = p THEN where ELSE pc[q]
  BY <1>1 DEF Typed, TypeOK
<1>4. \/ UNCHANGED row
      \/ \E status \in {"running", "failed", "complete"} :
           /\ \A r \in Run : row'[r] = IF r = run[p] THEN status ELSE row[r]
           /\ status = "running" => pc[p] = "record"
           /\ status # "running" => row[run[p]] # "absent"
           /\ status = "complete" => pc'[p] = "delete"
  BY StepFrame DEF Typed, TypeOK
<1>5. NewRunsAbsent'
  BY <1>2, <1>3, <1>4 DEF Workers, NewRunsAbsent, IsActive, Typed, RunAssigned, Active, Outcome
<1>6. OneAtATime'
  BY <1>1, <1>2, <1>3, <1>4
  DEF Workers, OneAtATime, IsActive, Typed, RunAssigned, Active, Outcome, Sequential
<1>7. QED
  BY <1>5, <1>6 DEF Workers

LEMMA WorkersStart ==
  ASSUME Typed, Workers, NEW p \in Inv, NEW r \in Run, StartReview(p, r) \/ StartResume(p, r)
  PROVE  Workers'
<1> USE DEF Typed, TypeOK
<1>1. /\ MayStart(p) /\ UNCHANGED row
      /\ \A q \in Inv : run'[q] = IF q = p THEN r ELSE run[q]
  BY DEF StartReview, StartResume, MayStart, Start, db
<1>2. \/ /\ \A q \in Inv : pc'[q] = IF q = p THEN "record" ELSE pc[q]
         /\ \A q \in Inv : run[q] # r
      \/ /\ \A q \in Inv : pc'[q] = IF q = p THEN "load" ELSE pc[q]
         /\ Resumable(r)
      \/ \A q \in Inv : pc'[q] = IF q = p THEN "refused" ELSE pc[q]
  BY DEF StartReview, StartResume, MayStart, Start, Goto
<1>3. run[p] \notin Run /\ pc[p] = "idle"
  BY <1>1, ConstantsAssumption DEF RunAssigned, MayStart
<1>4. NewRunsAbsent'
  <2>1. \A s \in Run : (\A q \in Inv : run'[q] # s) => row'[s] = "absent"
    BY <1>1, <1>3 DEF Workers, NewRunsAbsent
  <2>2. ASSUME NEW q \in Inv, pc'[q] = "record"
        PROVE  /\ row'[run'[q]] = "absent"
               /\ \A s \in Inv \ {q} : pc'[s] \in Active => run'[s] # run'[q]
    <3>1. CASE q = p
      BY <1>1, <1>2, <1>3, <2>2, <3>1 DEF Workers, NewRunsAbsent
    <3>2. CASE q # p
      BY <1>1, <1>2, <1>3, <2>2, <3>2
      DEF Workers, NewRunsAbsent, IsActive, Active, Resumable, RunAssigned
    <3>3. QED
      BY <3>1, <3>2
  <2>3. QED
    BY <2>1, <2>2 DEF NewRunsAbsent, IsActive
<1>5. OneAtATime'
  BY <1>1, <1>2
  DEF Workers, NewRunsAbsent, OneAtATime, IsActive, Active, MayStart, Resumable, Sequential
<1>6. QED
  BY <1>4, <1>5 DEF Workers

LEMMA AlwaysWorkers == Spec => []Workers
<1>1. Init => Workers
  BY DEF Init, Workers, NewRunsAbsent, OneAtATime, IsActive, Active
<1>2. Typed /\ Workers /\ [Next]_vars => Workers'
  <2>1. ASSUME Typed, Workers, UNCHANGED vars
        PROVE  Workers'
    BY <2>1 DEF Workers, NewRunsAbsent, OneAtATime, IsActive, vars
  <2>2. QED
    BY <2>1, WorkersStep, WorkersStart DEF Next, AllEnded
<1>3. QED
  BY AlwaysTyped, <1>1, <1>2, PTL DEF Spec

\* The whole inductive invariant.
THEOREM Invariance == Spec => []IInv
<1>1. Typed /\ PublishedFirst /\ Workers => IInv
  BY DEF Typed, PublishedFirst, Workers, IInv
<1>2. QED
  BY AlwaysTyped, AlwaysPublishedFirst, AlwaysWorkers, <1>1, PTL
-----------------------------------------------------------------------------
(***************************************************************************)
(* Refinement: every step of an invocation is a step of the ledger or      *)
(* leaves it unchanged, under the mapping of RunLifecycle!Ledger.          *)
(***************************************************************************)
Stutter == UNCHANGED <<row, Saved, published>>

LEMMA LedgerFrame == UNCHANGED checkpoint => UNCHANGED Saved
  BY DEF Saved

LEMMA RecordsInLedger ==
  ASSUME IInv, NEW p \in Inv, RecordRunStart(p)
  PROVE  Ledger!Record(run[p]) \/ Stutter
<1>1. row[run[p]] = "absent" /\ UNCHANGED <<Saved, published>>
  BY LedgerFrame DEF IInv, NewRunsAbsent, RecordRunStart
<1>2. QED
  BY <1>1 DEF Ledger!Record, Stutter, RecordRunStart, Saved

LEMMA SavesInLedger ==
  ASSUME IInv, NEW p \in Inv, SaveCheckpoint(p)
  PROVE  Ledger!Next \/ Stutter
<1>1. /\ run[p] \in Run /\ stage[p] \in Stage /\ UNCHANGED <<row, published>>
      /\ art[p][stage[p]] # None
      /\ Sequential => row[run[p]] # "complete"
  BY DEF IInv, TypeOK, RunAssigned, StagesInOrder, OneAtATime, IsActive, Active, SaveCheckpoint
<1>2. CASE UNCHANGED checkpoint
  BY <1>1, <1>2, LedgerFrame DEF Stutter
<1>3. CASE checkpoint' = [checkpoint EXCEPT ![run[p]][stage[p]] = art[p][stage[p]]]
  <2>1. \A r \in Run, s \in Stage :
          checkpoint'[r][s] = IF r = run[p] /\ s = stage[p] THEN art[p][stage[p]] ELSE checkpoint[r][s]
    BY <1>1, <1>3 DEF IInv, TypeOK, StageArtifacts
  <2>2. Saved' = [Saved EXCEPT ![run[p]] = @ \cup {stage[p]}]
    <3>1. \A r \in Run : {s \in Stage : checkpoint'[r][s] # None}
            = IF r = run[p] THEN {s \in Stage : checkpoint[r][s] # None} \cup {stage[p]}
                            ELSE {s \in Stage : checkpoint[r][s] # None}
      BY <1>1, <2>1
    <3>2. QED
      BY <1>1, <3>1 DEF Saved
  <2>3. QED
    BY <1>1, <2>2 DEF Ledger!Next, Ledger!Save, Ledger!Open
<1>4. QED
  BY <1>2, <1>3 DEF SaveCheckpoint

LEMMA FailsInLedger ==
  ASSUME IInv, NEW p \in Inv, MarkFailed(p)
  PROVE  Ledger!Fail(run[p]) \/ Stutter
<1>1. /\ UNCHANGED <<Saved, published>>
      /\ Sequential => row[run[p]] # "complete"
  BY LedgerFrame DEF IInv, OneAtATime, IsActive, Active, MarkFailed
<1>2. QED
  BY <1>1 DEF Ledger!Fail, Ledger!Open, Stutter, MarkFailed, SetStatus, Saved

LEMMA PublishesInLedger ==
  ASSUME IInv, NEW p \in Inv, WriteGraph(p)
  PROVE  Ledger!Publish(run[p])
<1>1. /\ UNCHANGED <<row, Saved>>
      /\ Sequential => row[run[p]] # "complete"
  BY LedgerFrame DEF IInv, OneAtATime, IsActive, Active, WriteGraph, db
<1>2. QED
  BY <1>1 DEF Ledger!Publish, Ledger!Open, WriteGraph, Saved

LEMMA CompletesInLedger ==
  ASSUME IInv, NEW p \in Inv, MarkComplete(p)
  PROVE  Ledger!Complete(run[p]) \/ Stutter
<1>1. UNCHANGED <<Saved, published>> /\ run[p] \in published
  BY LedgerFrame DEF IInv, FinalizingMeansPublished, MarkComplete
<1>2. QED
  BY <1>1 DEF Ledger!Complete, Stutter, MarkComplete, SetStatus, Saved

LEMMA ForgetsInLedger ==
  ASSUME IInv, NEW p \in Inv, DeleteCheckpoints(p)
  PROVE  Ledger!Next \/ Stutter
<1>1. run[p] \in Run /\ run[p] \in published /\ UNCHANGED <<row, published>>
  BY DEF IInv, FinalizingMeansPublished, RunAssigned, DeleteCheckpoints
<1>2. CASE UNCHANGED checkpoint
  BY <1>1, <1>2, LedgerFrame DEF Stutter
<1>3. CASE checkpoint' = [checkpoint EXCEPT ![run[p]] = NoArtifacts]
  <2>1. Saved' = [Saved EXCEPT ![run[p]] = {}]
    BY <1>1, <1>3 DEF IInv, TypeOK, Saved, NoArtifacts
  <2>2. QED
    BY <1>1, <2>1 DEF Ledger!Next, Ledger!Forget
<1>4. QED
  BY <1>2, <1>3 DEF DeleteCheckpoints

LEMMA OthersLeaveTheLedger ==
  ASSUME NEW p \in Inv,
         \/ EmptyPanel(p) \/ LoadStage(p) \/ SkipStage(p) \/ RunStage(p) \/ StageFails(p)
         \/ Emit(p) \/ WriteYaml(p) \/ WriteFails(p) \/ Crash(p)
         \/ \E r \in Run : StartReview(p, r) \/ StartResume(p, r)
  PROVE  Stutter
  BY LedgerFrame DEF Stutter, EmptyPanel, LoadStage, SkipStage, RunStage, StageFails, Emit,
     WriteYaml, WriteFails, Crash, StartReview, StartResume, db

LEMMA LedgerSteps ==
  ASSUME NEW r \in Run
  PROVE  /\ Ledger!Record(r) => Ledger!Next
         /\ Ledger!Fail(r) => Ledger!Next
         /\ Ledger!Publish(r) => Ledger!Next
         /\ Ledger!Complete(r) => Ledger!Next
  BY Zenon DEF Ledger!Next

\* The program implements the ledger specification: paid stages stay saved
\* until the files of their run are written, completion follows publication,
\* and, without overlap, a complete run is never worked on again.
THEOREM ImplementsLedger == Spec => LedgerSpec
<1>1. Init => Ledger!Init
  <2>1. ASSUME Init PROVE Saved = [r \in Run |-> {}]
    BY <2>1 DEF Init, Saved, NoArtifacts
  <2>2. QED
    BY <2>1 DEF Init, Ledger!Init, Saved
<1>2. IInv /\ [Next]_vars => [Ledger!Next]_(Ledger!vars)
  <2> SUFFICES ASSUME IInv, [Next]_vars
               PROVE  Ledger!Next \/ Stutter
    BY DEF Ledger!vars, Stutter, Saved
  <2>1. ASSUME NEW p \in Inv, Step(p)
        PROVE  Ledger!Next \/ Stutter
    <3>1. run[p] \in Run /\ stage[p] \in Stage
      BY <2>1, StepFrame DEF IInv, Typed, TypeOK
    <3>2. CASE RecordRunStart(p)
      BY <3>1, <3>2, RecordsInLedger, LedgerSteps
    <3>3. CASE SaveCheckpoint(p)
      BY <3>3, SavesInLedger
    <3>4. CASE MarkFailed(p)
      BY <3>1, <3>4, FailsInLedger, LedgerSteps
    <3>5. CASE WriteGraph(p)
      BY <3>1, <3>5, PublishesInLedger, LedgerSteps
    <3>6. CASE MarkComplete(p)
      BY <3>1, <3>6, CompletesInLedger, LedgerSteps
    <3>7. CASE DeleteCheckpoints(p)
      BY <3>7, ForgetsInLedger
    <3>8. QED
      BY <2>1, <3>2, <3>3, <3>4, <3>5, <3>6, <3>7, OthersLeaveTheLedger DEF Step
  <2>2. ASSUME UNCHANGED vars PROVE Stutter
    BY <2>2, LedgerFrame DEF vars, Stutter
  <2>3. QED
    BY <2>1, <2>2, OthersLeaveTheLedger DEF Next, AllEnded
<1>3. QED
  BY Invariance, <1>1, <1>2, PTL DEF Spec, LedgerSpec, Ledger!Spec

(***************************************************************************)
(* What an invocation leaves behind.                                       *)
(***************************************************************************)
Bounded == Typed /\ Workers

LEMMA AlwaysBounded == Spec => []Bounded
  BY AlwaysTyped, AlwaysWorkers, PTL DEF Bounded

LEMMA StartFrame ==
  ASSUME Typed, NEW p \in Inv, NEW r \in Run, StartReview(p, r) \/ StartResume(p, r)
  PROVE  /\ MayStart(p) /\ UNCHANGED <<row, checkpoint, out, stage, art, published>>
         /\ \A q \in Inv : run'[q] = IF q = p THEN r ELSE run[q]
         /\ \E where \in {"record", "load", "refused"} :
              \A q \in Inv : pc'[q] = IF q = p THEN where ELSE pc[q]
  BY DEF StartReview, StartResume, MayStart, Start, Goto, db, Typed, TypeOK
-----------------------------------------------------------------------------
(***************************************************************************)
(* The hint.  Who works on a run after its start was recorded finds it in  *)
(* the ledger, for nothing takes a run out of it.                          *)
(***************************************************************************)
KnownAtWork ==
  Sequential /\ ~Allowed("record") =>
    \A p \in Inv : IsActive(p) /\ pc[p] # "record" => row[run[p]] # "absent"

LEMMA KnownStep ==
  ASSUME Typed, KnownAtWork, NEW p \in Inv, Step(p) \/ Crash(p)
  PROVE  KnownAtWork'
<1> SUFFICES ASSUME Sequential, ~Allowed("record"), NEW q \in Inv, IsActive(q)', pc'[q] # "record"
             PROVE  row'[run'[q]] # "absent"
  BY DEF KnownAtWork, Sequential, Allowed
<1>1. PICK where \in (Active \ {"record"}) \cup Outcome : pc' = [pc EXCEPT ![p] = where]
  BY StepFrame
<1>2. /\ pc[p] \in Active /\ run[p] \in Run /\ run' = run
      /\ UNCHANGED row \/ \E status \in {"running", "failed", "complete"} : row' = [row EXCEPT ![run[p]] = status]
  BY StepFrame
<1>3. \A r \in Run : row[r] # "absent" => row'[r] # "absent"
  BY <1>2 DEF Typed, TypeOK
<1>4. CASE q # p
  <2>1. IsActive(q) /\ pc[q] # "record" /\ run[q] \in Run
    BY <1>1, <1>4 DEF IsActive, Typed, TypeOK, RunAssigned, Active
  <2>2. QED
    BY <1>2, <1>3, <2>1 DEF KnownAtWork
<1>5. CASE q = p /\ pc[p] # "record"
  BY <1>2, <1>3, <1>5 DEF KnownAtWork, IsActive
<1>6. CASE q = p /\ pc[p] = "record"
  <2>1. RecordRunStart(p)
    BY <1>1, <1>6 DEF Typed, TypeOK, Step, Crash, IsActive, Active, EmptyPanel, LoadStage, SkipStage, RunStage,
      StageFails, SaveCheckpoint, Emit, MarkFailed, WriteYaml, WriteGraph, WriteFails,
      MarkComplete, DeleteCheckpoints, Goto
  <2>2. row' = [row EXCEPT ![run[p]] = "running"]
    BY <2>1 DEF RecordRunStart
  <2>3. QED
    BY <1>2, <1>6, <2>2 DEF Typed, TypeOK
<1>7. QED
  BY <1>4, <1>5, <1>6

LEMMA KnownStart ==
  ASSUME Typed, KnownAtWork, NEW p \in Inv, NEW r \in Run, StartReview(p, r) \/ StartResume(p, r)
  PROVE  KnownAtWork'
<1>1. /\ MayStart(p) /\ UNCHANGED row
      /\ \A q \in Inv : run'[q] = IF q = p THEN r ELSE run[q]
  BY DEF StartReview, StartResume, MayStart, Start, db, Typed, TypeOK
<1>2. \/ \A q \in Inv : pc'[q] = IF q = p THEN "record" ELSE pc[q]
      \/ Resumable(r) /\ \A q \in Inv : pc'[q] = IF q = p THEN "load" ELSE pc[q]
      \/ \A q \in Inv : pc'[q] = IF q = p THEN "refused" ELSE pc[q]
  BY DEF StartReview, StartResume, MayStart, Start, Goto, Typed, TypeOK
<1>3. QED
  BY <1>1, <1>2 DEF KnownAtWork, Sequential, Allowed, IsActive, Active, Resumable

LEMMA AlwaysKnown == Spec => []KnownAtWork
<1>1. Init => KnownAtWork
  BY DEF Init, KnownAtWork, IsActive, Active
<1>2. Typed /\ KnownAtWork /\ [Next]_vars => KnownAtWork'
  <2>1. ASSUME Typed, KnownAtWork, UNCHANGED vars
        PROVE  KnownAtWork'
    BY <2>1 DEF KnownAtWork, Sequential, Allowed, IsActive, vars
  <2>2. QED
    BY <2>1, KnownStep, KnownStart DEF Next, AllEnded
<1>3. QED
  BY AlwaysTyped, <1>1, <1>2, PTL DEF Spec

\* The hint is printed by MarkFailed alone, which leaves the run failed or as it was.
LEMMA HintedByMarking ==
  ASSUME Typed, NEW p \in Inv, pc[p] # "hinted", pc'[p] = "hinted", [Next]_vars
  PROVE  MarkFailed(p)
<1>1. CASE UNCHANGED vars
  BY <1>1 DEF vars
<1>2. ASSUME NEW q \in Inv, NEW r \in Run, StartReview(q, r) \/ StartResume(q, r)
      PROVE  FALSE
  BY <1>2 DEF StartReview, StartResume, Start, Goto, Typed, TypeOK
<1>3. ASSUME NEW q \in Inv, Step(q) \/ Crash(q)
      PROVE  MarkFailed(p)
  <2>1. q = p
    BY <1>3, StepFrame DEF Typed, TypeOK
  <2>2. ~(EmptyPanel(p) \/ RecordRunStart(p) \/ LoadStage(p) \/ SkipStage(p) \/ RunStage(p) \/ StageFails(p))
    BY DEF Typed, TypeOK, EmptyPanel, RecordRunStart, LoadStage, SkipStage, RunStage, StageFails, Advance, Goto
  <2>3. ~(SaveCheckpoint(p) \/ Emit(p) \/ WriteYaml(p) \/ WriteGraph(p) \/ WriteFails(p) \/ MarkComplete(p) \/ DeleteCheckpoints(p) \/ Crash(p))
    BY DEF Typed, TypeOK, SaveCheckpoint, Emit, WriteYaml, WriteGraph, WriteFails, MarkComplete,
      DeleteCheckpoints, Crash, Advance, Goto, Result
  <2>4. QED
    BY <1>3, <2>1, <2>2, <2>3 DEF Step
<1>4. QED
  BY <1>1, <1>2, <1>3 DEF Next, AllEnded, vars

\* The command that a failing invocation prints finds the run it names, as long as
\* the start of runs is recorded and no second process works.
THEOREM TheHintIsGood == Spec => HintWorks
<1>1. Typed /\ Workers /\ KnownAtWork /\ [Next]_vars =>
        (Sequential /\ ~Allowed("record") =>
           \A p \in Inv : pc[p] # "hinted" /\ pc'[p] = "hinted" => Resumable(run[p])')
  <2> SUFFICES ASSUME Typed, Workers, KnownAtWork, [Next]_vars, Sequential, ~Allowed("record"),
                      NEW p \in Inv, pc[p] # "hinted", pc'[p] = "hinted"
               PROVE  Resumable(run[p])'
    OBVIOUS
  <2>1. MarkFailed(p)
    BY HintedByMarking
  <2>2. pc[p] = "fail" /\ run' = run /\ run[p] \in Run
    BY <2>1 DEF MarkFailed, local, Typed, RunAssigned
  <2>3. row[run[p]] \notin {"absent", "complete"}
    BY <2>2 DEF KnownAtWork, Workers, OneAtATime, IsActive, Active
  <2>4. row'[run[p]] \in {"failed", row[run[p]]}
    BY <2>1, <2>2, <2>3 DEF MarkFailed, SetStatus, Typed, TypeOK
  <2>5. QED
    BY <2>2, <2>3, <2>4 DEF Resumable
<1>2. QED
  BY AlwaysTyped, AlwaysWorkers, AlwaysKnown, <1>1, PTL DEF Spec, HintWorks
-----------------------------------------------------------------------------
(***************************************************************************)
(* The files.  Who has renamed the first and not yet the second file is    *)
(* alone at work, so the first file is its own until it goes on.           *)
(***************************************************************************)
Paired == OutputsPaired /\ WriterIsKnown

LEMMA PairedStep ==
  ASSUME Bounded, Paired, NEW p \in Inv, Step(p) \/ Crash(p), Sequential
  PROVE  Paired'
<1> USE DEF Paired, OutputsPaired, WriterIsKnown, Bounded
<1>1. /\ pc[p] \in Active
      /\ \A q \in Inv : IsActive(q) => q = p
  BY StepFrame DEF Workers, OneAtATime, IsActive
<1>2. PICK where : pc' = [pc EXCEPT ![p] = where]
  BY StepFrame
<1>3. \A q \in Inv : q # p => pc'[q] = pc[q] /\ pc[q] # "graphmd"
  BY <1>1, <1>2 DEF IsActive, Active
<1>4. CASE WriteYaml(p)
  <2>1. pc'[p] = "graphmd" /\ out'["yaml"] = p /\ p # None
    BY <1>4, ConstantsAssumption DEF WriteYaml, Goto, Typed, TypeOK
  <2>2. QED
    BY <1>3, <2>1
<1>5. CASE WriteGraph(p)
  <2>1. pc'[p] = "complete" /\ out'["graph"] = p /\ out'["yaml"] = p
    BY <1>5 DEF WriteGraph, Goto, Typed, TypeOK
  <2>2. QED
    BY <1>3, <2>1
<1>6. CASE ~WriteYaml(p) /\ ~WriteGraph(p)
  <2>1. UNCHANGED out
    BY <1>6 DEF Step, Crash, EmptyPanel, RecordRunStart, LoadStage, SkipStage, RunStage, StageFails,
      SaveCheckpoint, Emit, MarkFailed, WriteFails, MarkComplete, DeleteCheckpoints
  <2>2. /\ pc'[p] # "graphmd"
        /\ pc[p] = "graphmd" => pc'[p] \in {"unwritten", "crashed"}
    BY <1>6 DEF Step, Crash, EmptyPanel, RecordRunStart, LoadStage, SkipStage, RunStage, StageFails,
      SaveCheckpoint, Emit, MarkFailed, WriteFails, MarkComplete, DeleteCheckpoints, Advance, Goto,
      Result, Typed, TypeOK
  <2>3. \A q \in Inv : pc'[q] # "graphmd"
    BY <1>3, <2>2
  <2>4. CASE out["yaml"] = out["graph"]
    BY <2>1, <2>3, <2>4
  <2>5. CASE out["yaml"] # None /\ pc[out["yaml"]] \in {"graphmd", "crashed", "unwritten"}
    <3>1. out["yaml"] \in Inv
      BY <2>5 DEF Typed, TypeOK
    <3>2. pc'[out["yaml"]] \in {"crashed", "unwritten"}
      BY <1>1, <1>3, <2>2, <2>5, <3>1 DEF Active
    <3>3. QED
      BY <2>1, <2>3, <2>5, <3>2
  <2>6. QED
    BY <2>4, <2>5
<1>7. QED
  BY <1>4, <1>5, <1>6

LEMMA PairedStart ==
  ASSUME Bounded, Paired, NEW p \in Inv, NEW r \in Run, StartReview(p, r) \/ StartResume(p, r)
  PROVE  Paired'
<1>1. /\ pc[p] = "idle" /\ UNCHANGED out
      /\ \E where \in {"record", "load", "refused"} :
           \A q \in Inv : pc'[q] = IF q = p THEN where ELSE pc[q]
  BY StartFrame DEF Bounded, MayStart
<1>2. out["yaml"] \in Inv \cup {None}
  BY DEF Bounded, Typed, TypeOK
<1>3. QED
  BY <1>1, <1>2 DEF Paired, OutputsPaired, WriterIsKnown, Sequential

LEMMA AlwaysPaired == Spec => []Paired
<1>1. Init => Paired
  BY DEF Init, Paired, OutputsPaired, WriterIsKnown
<1>2. Bounded /\ Paired /\ [Next]_vars => Paired'
  <2>1. ASSUME Bounded, Paired, UNCHANGED vars
        PROVE  Paired'
    BY <2>1 DEF Paired, OutputsPaired, WriterIsKnown, Sequential, vars
  <2>2. ASSUME ~Sequential PROVE Paired'
    BY <2>2 DEF Paired, OutputsPaired, WriterIsKnown, Sequential
  <2>3. QED
    BY <2>1, <2>2, PairedStep, PairedStart DEF Next, AllEnded
<1>3. QED
  BY AlwaysBounded, <1>1, <1>2, PTL DEF Spec

\* One process at a time: synthesis.yaml and graph.md come from one invocation, but
\* between its two renames, for any crashes and failing statements.
THEOREM FilesArePaired == Spec => []OutputsPaired
  BY AlwaysPaired, PTL DEF Paired
-----------------------------------------------------------------------------
(***************************************************************************)
(* Losses.  The sink of an invocation is only ever added to.               *)
(***************************************************************************)
LEMMA NoRunIsMade ==
  ASSUME NEW r \in Run, NEW p \in Inv
  PROVE  r \notin MadeBy(p)
  BY ConstantsAssumption DEF MadeBy

LEMMA LossesStep ==
  ASSUME Typed, LossesNoticed, NEW p \in Inv, Step(p) \/ Crash(p)
  PROVE  LossesNoticed'
<1>1. PICK where : pc' = [pc EXCEPT ![p] = where] /\ where # "idle"
  BY StepFrame DEF Active, Outcome
<1>2. \A q \in Inv : q # p => pc'[q] = pc[q]
  BY <1>1 DEF Typed, TypeOK
<1>3. CASE RunStage(p)
  <2> DEFINE a == <<Input(p, stage[p]), p>>
  <2>1. PICK truncated \in BOOLEAN :
          /\ degraded' = [degraded EXCEPT ![p] = degraded[p] \/ truncated]
          /\ lossy' = IF truncated THEN lossy \cup {a} ELSE lossy
    BY <1>3, LossesType DEF RunStage
  <2>2. pc'[p] = "save"
    BY <1>3 DEF RunStage, Goto, Typed, TypeOK
  <2>3. \A q \in Inv : q # p => a \notin MadeBy(q)
    BY DEF MadeBy
  <2> HIDE DEF a
  <2>4. /\ \A q \in Inv : q # p => degraded'[q] = degraded[q]
        /\ ~degraded'[p] => ~degraded[p] /\ lossy' = lossy
    <3>1. CASE truncated = TRUE
      BY <2>1, <3>1 DEF Typed, TypeOK
    <3>2. CASE truncated = FALSE
      BY <2>1, <3>2 DEF Typed, TypeOK
    <3>3. QED
      BY <3>1, <3>2
  <2>5. \A q \in Inv : q # p => lossy' \cap MadeBy(q)' = lossy \cap MadeBy(q)
    BY <2>1, <2>3 DEF MadeBy
  <2>6. MadeBy(p)' = MadeBy(p)
    BY DEF MadeBy
  <2>7. QED
    BY <1>2, <2>2, <2>4, <2>5, <2>6 DEF LossesNoticed
<1>4. CASE ~RunStage(p)
  <2>1. UNCHANGED lossy
    BY <1>4 DEF Step, Crash, EmptyPanel, RecordRunStart, LoadStage, SkipStage, StageFails,
      SaveCheckpoint, Emit, MarkFailed, WriteYaml, WriteGraph, WriteFails, MarkComplete, DeleteCheckpoints
  <2>2. /\ \A q \in Inv : q # p => degraded'[q] = degraded[q]
        /\ ~degraded'[p] => ~degraded[p]
    <3>1. CASE Emit(p)
      <4>1. PICK b \in BOOLEAN : degraded' = [degraded EXCEPT ![p] = degraded[p] \/ b]
        BY <3>1, LossesType DEF Emit
      <4>2. QED
        BY <4>1 DEF Typed, TypeOK
    <3>2. CASE ~Emit(p)
      BY <1>4, <3>2 DEF Step, Crash, EmptyPanel, RecordRunStart, LoadStage, SkipStage, StageFails,
        SaveCheckpoint, MarkFailed, WriteYaml, WriteGraph, WriteFails, MarkComplete,
        DeleteCheckpoints, local
    <3>3. QED
      BY <3>1, <3>2
  <2>3. pc'[p] = "clean" => ~degraded'[p]
    BY <1>4 DEF Step, Crash, EmptyPanel, RecordRunStart, LoadStage, SkipStage, StageFails,
      SaveCheckpoint, Emit, MarkFailed, WriteYaml, WriteGraph, WriteFails, MarkComplete,
      DeleteCheckpoints, Advance, Goto, Result, local, Typed, TypeOK
  <2>4. \A q \in Inv : MadeBy(q)' = MadeBy(q)
    BY DEF MadeBy
  <2>5. QED
    BY <1>1, <1>2, <2>1, <2>2, <2>3, <2>4 DEF LossesNoticed, Typed, TypeOK
<1>5. QED
  BY <1>3, <1>4

LEMMA LossesStart ==
  ASSUME Typed, LossesNoticed, NEW p \in Inv, NEW r \in Run, StartReview(p, r) \/ StartResume(p, r)
  PROVE  LossesNoticed'
<1>1. /\ pc[p] = "idle"
      /\ \E where \in {"record", "load", "refused"} :
           \A q \in Inv : pc'[q] = IF q = p THEN where ELSE pc[q]
  BY StartFrame DEF MayStart
<1>2. \A q \in Inv : lossy' \cap MadeBy(q)' = lossy \cap MadeBy(q)
  <2>1. lossy' \in {lossy, lossy \cup {r}}
    BY DEF StartReview, StartResume
  <2>2. QED
    BY <2>1, NoRunIsMade DEF MadeBy
<1>3. \A q \in Inv : q # p => degraded'[q] = degraded[q]
  BY DEF StartReview, StartResume, Typed, TypeOK
<1>4. QED
  BY <1>1, <1>2, <1>3 DEF LossesNoticed

LEMMA AlwaysLossesNoticed == Spec => []LossesNoticed
<1>1. Init => LossesNoticed
  BY DEF Init, LossesNoticed
<1>2. Typed /\ LossesNoticed /\ [Next]_vars => LossesNoticed'
  <2>1. ASSUME Typed, LossesNoticed, UNCHANGED vars
        PROVE  LossesNoticed'
    BY <2>1 DEF LossesNoticed, MadeBy, vars
  <2>2. QED
    BY <2>1, LossesStep, LossesStart DEF Next, AllEnded
<1>3. QED
  BY AlwaysTyped, <1>1, <1>2, PTL DEF Spec

\* Exit code 0 is not given to a result in which this very invocation lost
\* something, for any faults and any overlap.
THEOREM OwnLossIsTold == Spec => []CleanMeansNoOwnLoss
<1>1. LossesNoticed => CleanMeansNoOwnLoss
  BY DEF LossesNoticed, CleanMeansNoOwnLoss
<1>2. QED
  BY AlwaysLossesNoticed, <1>1, PTL
-----------------------------------------------------------------------------
(***************************************************************************)
(* Artifacts.  Without overlap and with every checkpoint written and read, *)
(* memory mirrors what is saved of the run, and both are chains.           *)
(***************************************************************************)
LEMMA NoneInNoPair ==
  ASSUME NEW s \in {"synthesis", "narrative"}, NEW a \in ArtifactOf(s)
  PROVE  a[1] # None
<1>1. a[1] \in Artifact
  BY DEF ArtifactOf, Artifact, Syntheses, Narratives
<1>2. QED
  BY <1>1, NoneIsNoArtifact

\* In a chain what comes after a gap is a gap.
LEMMA ChainHasNoGap ==
  ASSUME NEW a \in StageArtifacts, Chain(a)
  PROVE  /\ a["synthesis"] # None => a["graph"] # None
         /\ a["narrative"] # None => a["synthesis"] # None
<1>1. a["synthesis"] # None => a["synthesis"] \in ArtifactOf("synthesis")
  BY GetArtifact DEF Stage
<1>2. a["narrative"] # None => a["narrative"] \in ArtifactOf("narrative")
  BY GetArtifact DEF Stage
<1>3. QED
  BY <1>1, <1>2, NoneInNoPair DEF Chain

LEMMA NoArtifactsChain == Chain(NoArtifacts)
  BY DEF Chain, NoArtifacts, Stage

\* A chain whose three links are there is a result whose parts belong together.
LEMMA FullChain ==
  ASSUME NEW p \in Inv, Chain(art[p]), art[p]["synthesis"] # None, art[p]["narrative"] # None
  PROVE  Coherent(p)
  BY DEF Chain, Coherent

\* What every step of p leaves alone, as long as one process works at a time.
LEMMA OthersKeepMemory ==
  ASSUME Bounded, ChainsKept, NoLostCheckpoints, NEW p \in Inv, Step(p) \/ Crash(p),
         \A q \in Inv : q # p => art'[q] = art[q],
         \A r \in Run : r # run[p] => checkpoint'[r] = checkpoint[r]
  PROVE  /\ \A q \in Inv : q # p => InMemory(q)'
         /\ \A r \in Run : (\A q \in Inv : run'[q] # r) => checkpoint'[r] = NoArtifacts
<1> USE DEF Bounded
<1>1. /\ pc[p] \in Active /\ run[p] \in Run /\ UNCHANGED run
      /\ \A q \in Inv : pc[q] \in Active => q = p
  BY StepFrame DEF Workers, OneAtATime, IsActive, NoLostCheckpoints
<1>2. \A q \in Inv : q # p => pc'[q] = pc[q]
  BY StepFrame DEF Typed, TypeOK
<1>3. ASSUME NEW q \in Inv, q # p
      PROVE  InMemory(q)'
  <2>1. pc'[q] = pc[q] /\ pc[q] \notin Active /\ art'[q] = art[q]
    BY <1>1, <1>2, <1>3
  <2>2. QED
    BY <2>1, <1>3 DEF InMemory, Active, ChainsKept
<1>4. QED
  BY <1>1, <1>3 DEF ChainsKept

LEMMA ChainsAfter ==
  ASSUME Bounded, ChainsKept, NoLostCheckpoints, NEW p \in Inv, Step(p) \/ Crash(p),
         \A q \in Inv : q # p => art'[q] = art[q],
         \A r \in Run : r # run[p] => checkpoint'[r] = checkpoint[r],
         Chain(checkpoint'[run[p]]), InMemory(p)'
  PROVE  ChainsKept'
<1>1. \A r \in Run : Chain(checkpoint'[r])
  BY DEF ChainsKept
<1>2. QED
  BY <1>1, OthersKeepMemory DEF ChainsKept

\* Steps that change neither memory nor checkpoints, and begin no new kind of work.
LEMMA QuietStepKeepsChains ==
  ASSUME Bounded, ChainsKept, NoLostCheckpoints, NEW p \in Inv, Step(p) \/ Crash(p),
         UNCHANGED <<art, checkpoint>>,
         \/ pc'[p] \in {"fail"} \cup Outcome
         \/ pc[p] \in {"emit", "yaml", "graphmd", "complete"} /\ pc'[p] \in {"yaml", "graphmd", "complete", "delete"}
  PROVE  ChainsKept'
<1>1. InMemory(p)'
  <2>1. InMemory(p)
    BY DEF ChainsKept
  <2>2. CASE pc'[p] \in {"fail"} \cup Outcome
    BY <2>2 DEF InMemory, Outcome
  <2>3. CASE pc[p] \in {"emit", "yaml", "graphmd", "complete"} /\ pc'[p] \in {"yaml", "graphmd", "complete", "delete"}
    BY <2>1, <2>3 DEF InMemory, Coherent
  <2>4. QED
    BY <2>2, <2>3
<1>2. run[p] \in Run
  BY StepFrame DEF Bounded
<1>3. Chain(checkpoint'[run[p]])
  BY <1>2 DEF ChainsKept
<1>4. QED
  BY <1>1, <1>3, ChainsAfter

LEMMA RecordKeepsChains ==
  ASSUME Bounded, ChainsKept, NoLostCheckpoints, NEW p \in Inv, RecordRunStart(p)
  PROVE  ChainsKept'
<1>1. /\ UNCHANGED <<art, checkpoint, run>> /\ pc[p] = "record" /\ pc'[p] = "stage" /\ Step(p)
  BY DEF RecordRunStart, Goto, local, Step, Bounded, Typed, TypeOK
<1>2. art[p] = NoArtifacts /\ checkpoint[run[p]] = NoArtifacts
  BY <1>1 DEF ChainsKept, InMemory
<1>3. InMemory(p)'
  BY <1>1, <1>2 DEF InMemory
<1>4. QED
  BY <1>1, <1>2, <1>3, NoArtifactsChain, ChainsAfter

LEMMA LoadKeepsChains ==
  ASSUME Bounded, ChainsKept, NoLostCheckpoints, NEW p \in Inv, LoadStage(p)
  PROVE  ChainsKept'
<1> USE DEF Bounded, Typed
<1>1. /\ run[p] \in Run /\ stage[p] \in Stage /\ art[p] \in StageArtifacts
      /\ checkpoint[run[p]] \in StageArtifacts
      /\ UNCHANGED <<checkpoint, run>> /\ pc[p] = "load" /\ Step(p)
  BY DEF LoadStage, RunAssigned, TypeOK, db, Step
<1>2. art' = [art EXCEPT ![p] = [art[p] EXCEPT ![stage[p]] = checkpoint[run[p]][stage[p]]]]
  BY DEF LoadStage, NoLostCheckpoints, TypeOK
<1>3. \A s \in Stage : art'[p][s] = IF s = stage[p] THEN checkpoint[run[p]][s] ELSE art[p][s]
  BY <1>1, <1>2 DEF TypeOK, StageArtifacts
<1>4. \A s \in Stage : art[p][s] = IF s \in Before(stage[p]) THEN checkpoint[run[p]][s] ELSE None
  BY <1>1 DEF ChainsKept, InMemory
<1>5. InMemory(p)'
  <2>1. CASE stage[p] = "graph"
    <3>1. pc'[p] = "load" /\ stage'[p] = "synthesis"
      BY <2>1 DEF LoadStage, Advance, Goto, TypeOK
    <3>2. QED
      BY <1>1, <1>3, <1>4, <2>1, <3>1 DEF InMemory, Before, Stage
  <2>2. CASE stage[p] = "synthesis"
    <3>1. pc'[p] = "load" /\ stage'[p] = "narrative"
      BY <2>2 DEF LoadStage, Advance, Goto, TypeOK
    <3>2. QED
      BY <1>1, <1>3, <1>4, <2>2, <3>1 DEF InMemory, Before, Stage
  <2>3. CASE stage[p] = "narrative"
    <3>1. pc'[p] = "stage"
      BY <2>3 DEF LoadStage, Advance, Goto, TypeOK
    <3>2. \A s \in Stage : art'[p][s] = checkpoint[run[p]][s]
      BY <1>3, <1>4, <2>3 DEF Before, Stage
    <3>3. art'[p] \in StageArtifacts
      BY <1>1, PutArtifact, GetArtifact, <1>2 DEF TypeOK
    <3>4. art'[p] = checkpoint[run[p]]
      BY <1>1, <3>2, <3>3 DEF StageArtifacts
    <3>5. QED
      BY <1>1, <3>1, <3>4 DEF InMemory
  <2>4. QED
    BY <1>1, <2>1, <2>2, <2>3 DEF Stage
<1>6. /\ \A q \in Inv : q # p => art'[q] = art[q]
      /\ Chain(checkpoint'[run[p]])
  BY <1>1, <1>2 DEF TypeOK, ChainsKept
<1>7. QED
  BY <1>1, <1>5, <1>6, ChainsAfter

LEMMA SkipKeepsChains ==
  ASSUME Bounded, ChainsKept, NoLostCheckpoints, NEW p \in Inv, SkipStage(p)
  PROVE  ChainsKept'
<1> USE DEF Bounded, Typed
<1>1. /\ run[p] \in Run /\ stage[p] \in Stage /\ pc[p] = "stage" /\ art[p][stage[p]] # None
      /\ UNCHANGED <<art, checkpoint, run>> /\ Step(p)
  BY DEF SkipStage, RunAssigned, TypeOK, db, Step
<1>2. art[p] = checkpoint[run[p]] /\ Chain(art[p])
  BY <1>1 DEF ChainsKept, InMemory
<1>3. InMemory(p)'
  <2>1. CASE stage[p] = "narrative"
    <3>1. pc'[p] = "emit"
      BY <2>1 DEF SkipStage, Advance, Goto, TypeOK
    <3>2. Coherent(p)
      BY <1>1, <1>2, <2>1, FullChain DEF StagesInOrder
    <3>3. QED
      BY <1>1, <3>1, <3>2 DEF InMemory, Coherent
  <2>2. CASE stage[p] # "narrative"
    <3>1. pc'[p] = "stage"
      BY <2>2 DEF SkipStage, Advance, Goto, TypeOK
    <3>2. QED
      BY <1>1, <1>2, <3>1 DEF InMemory
  <2>3. QED
    BY <2>1, <2>2
<1>4. QED
  BY <1>1, <1>2, <1>3, ChainsAfter

LEMMA RunKeepsChains ==
  ASSUME Bounded, ChainsKept, NoLostCheckpoints, NEW p \in Inv, RunStage(p)
  PROVE  ChainsKept'
<1> USE DEF Bounded, Typed
<1> DEFINE a == <<Input(p, stage[p]), p>>
<1>1. /\ run[p] \in Run /\ stage[p] \in Stage /\ art[p] \in StageArtifacts
      /\ pc[p] = "stage" /\ art[p][stage[p]] = None
      /\ UNCHANGED <<checkpoint, run, stage>> /\ Step(p)
  BY DEF RunStage, RunAssigned, TypeOK, db, Step
<1>2. art' = [art EXCEPT ![p] = [art[p] EXCEPT ![stage[p]] = a]]
  BY DEF RunStage, TypeOK
<1>3. art[p] = checkpoint[run[p]] /\ Chain(art[p])
  BY <1>1 DEF ChainsKept, InMemory
<1>4. pc'[p] = "save"
  BY DEF RunStage, Goto, TypeOK
<1>5. \A s \in Stage : art'[p][s] = IF s = stage[p] THEN a ELSE art[p][s]
  BY <1>1, <1>2 DEF TypeOK, StageArtifacts
<1>6. Chain(art'[p])
  <2>1. CASE stage[p] = "graph"
    BY <1>1, <1>3, <1>5, <2>1, ChainHasNoGap DEF Chain, Stage
  <2>2. CASE stage[p] = "synthesis"
    <3>1. art[p]["narrative"] = None
      BY <1>1, <1>3, <2>2, ChainHasNoGap
    <3>2. /\ art'[p]["synthesis"] = <<art[p]["graph"], p>>
          /\ art'[p]["graph"] = art[p]["graph"] /\ art'[p]["narrative"] = None
      BY <1>5, <2>2, <3>1 DEF Input, Stage
    <3>3. QED
      BY <3>2 DEF Chain
  <2>3. CASE stage[p] = "narrative"
    <3>1. /\ art'[p]["narrative"] = <<art[p]["synthesis"], p>>
          /\ art'[p]["graph"] = art[p]["graph"]
          /\ art'[p]["synthesis"] = art[p]["synthesis"]
      BY <1>5, <2>3 DEF Input, Stage
    <3>2. QED
      BY <1>3, <3>1 DEF Chain
  <2>4. QED
    BY <1>1, <2>1, <2>2, <2>3 DEF Stage
<1>7. checkpoint[run[p]] = [art'[p] EXCEPT ![stage[p]] = None]
  <2>1. art'[p] = [art[p] EXCEPT ![stage[p]] = a]
    BY <1>2 DEF TypeOK
  <2>2. QED
    BY <1>1, <1>3, <2>1 DEF StageArtifacts
<1>8. InMemory(p)'
  BY <1>1, <1>4, <1>6, <1>7 DEF InMemory
<1>9. \A q \in Inv : q # p => art'[q] = art[q]
  BY <1>2 DEF TypeOK
<1>10. QED
  BY <1>1, <1>3, <1>8, <1>9, ChainsAfter

LEMMA SaveKeepsChains ==
  ASSUME Bounded, ChainsKept, NoLostCheckpoints, NEW p \in Inv, SaveCheckpoint(p)
  PROVE  ChainsKept'
<1> USE DEF Bounded, Typed
<1>1. /\ run[p] \in Run /\ stage[p] \in Stage /\ art[p] \in StageArtifacts /\ pc[p] = "save"
      /\ UNCHANGED <<art, run>> /\ Step(p)
  BY DEF SaveCheckpoint, RunAssigned, TypeOK, Step
<1>2. checkpoint' = [checkpoint EXCEPT ![run[p]] = [checkpoint[run[p]] EXCEPT ![stage[p]] = art[p][stage[p]]]]
  BY DEF SaveCheckpoint, NoLostCheckpoints, TypeOK
<1>3. Chain(art[p]) /\ checkpoint[run[p]] = [art[p] EXCEPT ![stage[p]] = None]
  BY <1>1 DEF ChainsKept, InMemory
<1>4. checkpoint'[run[p]] = art[p]
  <2>1. checkpoint'[run[p]] = [checkpoint[run[p]] EXCEPT ![stage[p]] = art[p][stage[p]]]
    BY <1>1, <1>2 DEF TypeOK
  <2>2. QED
    BY <1>1, <1>3, <2>1 DEF StageArtifacts
<1>5. InMemory(p)'
  <2>1. CASE stage[p] = "narrative"
    <3>1. pc'[p] = "emit"
      BY <2>1 DEF SaveCheckpoint, Advance, Goto, TypeOK
    <3>2. Coherent(p)
      BY <1>1, <1>3, <2>1, FullChain DEF StagesInOrder
    <3>3. QED
      BY <1>1, <3>1, <3>2 DEF InMemory, Coherent
  <2>2. CASE stage[p] # "narrative"
    <3>1. pc'[p] = "stage"
      BY <2>2 DEF SaveCheckpoint, Advance, Goto, TypeOK
    <3>2. QED
      BY <1>1, <1>4, <3>1 DEF InMemory
  <2>3. QED
    BY <2>1, <2>2
<1>6. \A r \in Run : r # run[p] => checkpoint'[r] = checkpoint[r]
  BY <1>2 DEF TypeOK
<1>7. QED
  BY <1>1, <1>3, <1>4, <1>5, <1>6, ChainsAfter

LEMMA DeleteKeepsChains ==
  ASSUME Bounded, ChainsKept, NoLostCheckpoints, NEW p \in Inv, DeleteCheckpoints(p)
  PROVE  ChainsKept'
<1> USE DEF Bounded, Typed
<1>1. /\ run[p] \in Run /\ pc'[p] \in Outcome /\ UNCHANGED <<art, run>> /\ Step(p) /\ pc[p] = "delete"
  BY DEF DeleteCheckpoints, RunAssigned, TypeOK, Step, Goto, Result, Outcome, local
<1>2. checkpoint' \in {checkpoint, [checkpoint EXCEPT ![run[p]] = NoArtifacts]}
  BY DEF DeleteCheckpoints
<1>3. /\ Chain(checkpoint'[run[p]])
      /\ \A r \in Run : r # run[p] => checkpoint'[r] = checkpoint[r]
  BY <1>1, <1>2, NoArtifactsChain DEF TypeOK, ChainsKept
<1>4. InMemory(p)'
  BY <1>1 DEF InMemory, Outcome
<1>5. QED
  BY <1>1, <1>3, <1>4, ChainsAfter

LEMMA ChainsStep ==
  ASSUME Bounded, ChainsKept, NoLostCheckpoints, NEW p \in Inv, Step(p) \/ Crash(p)
  PROVE  ChainsKept'
<1>1. CASE \/ EmptyPanel(p) \/ StageFails(p) \/ Emit(p) \/ MarkFailed(p) \/ WriteYaml(p) \/ WriteGraph(p)
           \/ WriteFails(p) \/ MarkComplete(p) \/ Crash(p)
  <2>1. UNCHANGED <<art, checkpoint>>
    BY <1>1 DEF EmptyPanel, StageFails, Emit, MarkFailed, WriteYaml, WriteGraph, WriteFails,
      MarkComplete, Crash, db, local
  <2>2. \/ pc'[p] \in {"fail"} \cup Outcome
        \/ pc[p] \in {"emit", "yaml", "graphmd", "complete"} /\ pc'[p] \in {"yaml", "graphmd", "complete", "delete"}
    BY <1>1 DEF EmptyPanel, StageFails, Emit, MarkFailed, WriteYaml, WriteGraph, WriteFails,
      MarkComplete, Crash, Goto, Result, Outcome, Bounded, Typed, TypeOK
  <2>3. QED
    BY <2>1, <2>2, QuietStepKeepsChains
<1>2. CASE ~(\/ EmptyPanel(p) \/ StageFails(p) \/ Emit(p) \/ MarkFailed(p) \/ WriteYaml(p) \/ WriteGraph(p)
             \/ WriteFails(p) \/ MarkComplete(p) \/ Crash(p))
  BY <1>2, RecordKeepsChains, LoadKeepsChains, SkipKeepsChains, RunKeepsChains, SaveKeepsChains,
     DeleteKeepsChains DEF Step
<1>3. QED
  BY <1>1, <1>2

LEMMA ChainsStart ==
  ASSUME Bounded, ChainsKept, NoLostCheckpoints, NEW p \in Inv, NEW r \in Run,
         StartReview(p, r) \/ StartResume(p, r)
  PROVE  ChainsKept'
<1> USE DEF Bounded, Typed
<1>1. /\ pc[p] = "idle" /\ UNCHANGED <<checkpoint, art, stage>>
      /\ \A q \in Inv : q # p => pc[q] \notin Active
      /\ \A q \in Inv : run'[q] = IF q = p THEN r ELSE run[q]
      /\ \A q \in Inv : q # p => pc'[q] = pc[q]
  BY StartFrame DEF MayStart, NoLostCheckpoints, Sequential, IsActive, Active
<1>2. art[p] = NoArtifacts /\ stage[p] = "graph" /\ run[p] = None
  BY <1>1 DEF ChainsKept, InMemory, RunAssigned
<1>3. \A q \in Inv : q # p => InMemory(q)'
  BY <1>1 DEF ChainsKept, InMemory, Active
<1>4. InMemory(p)'
  <2>1. CASE StartReview(p, r)
    <3>1. pc'[p] = "record" /\ \A q \in Inv : run[q] # r
      BY <2>1 DEF StartReview, Start, Goto, TypeOK
    <3>2. checkpoint[r] = NoArtifacts
      BY <3>1 DEF ChainsKept
    <3>3. QED
      BY <1>1, <1>2, <3>1, <3>2 DEF InMemory
  <2>2. CASE StartResume(p, r)
    <3>1. pc'[p] \in {"load", "refused"}
      BY <2>2 DEF StartResume, Start, Goto, TypeOK
    <3>2. \A s \in Stage : NoArtifacts[s] = None
      BY DEF NoArtifacts
    <3>3. QED
      BY <1>1, <1>2, <3>1, <3>2 DEF InMemory, Before
  <2>3. QED
    BY <2>1, <2>2
<1>5. \A s \in Run : (\A q \in Inv : run'[q] # s) => checkpoint'[s] = NoArtifacts
  <2> SUFFICES ASSUME NEW s \in Run, \A q \in Inv : run'[q] # s
               PROVE  checkpoint[s] = NoArtifacts
    BY <1>1
  <2>1. \A q \in Inv : run[q] # s
    BY <1>1, <1>2, ConstantsAssumption
  <2>2. QED
    BY <2>1 DEF ChainsKept
<1>6. QED
  BY <1>1, <1>3, <1>4, <1>5 DEF ChainsKept

LEMMA AlwaysChains == Spec => []ChainsKept
<1>1. Init => ChainsKept
  <2> SUFFICES ASSUME Init PROVE ChainsKept
    OBVIOUS
  <2>1. \A p \in Inv : InMemory(p)
    BY DEF Init, InMemory
  <2>2. QED
    BY <2>1, NoArtifactsChain DEF Init, ChainsKept
<1>2. Bounded /\ ChainsKept /\ [Next]_vars => ChainsKept'
  <2>1. ASSUME Bounded, ChainsKept, UNCHANGED vars
        PROVE  ChainsKept'
    BY <2>1 DEF ChainsKept, InMemory, Coherent, NoLostCheckpoints, Sequential, vars
  <2>2. ASSUME ~NoLostCheckpoints PROVE ChainsKept'
    BY <2>2 DEF ChainsKept, NoLostCheckpoints, Sequential
  <2>3. QED
    BY <2>1, <2>2, ChainsStep, ChainsStart DEF Next, AllEnded
<1>3. QED
  BY AlwaysBounded, <1>1, <1>2, PTL DEF Spec

\* The artifacts of one result belong together, over any number of crashes and
\* resumes, where every checkpoint is written and read and no second process works.
THEOREM ResultsAreCoherent == Spec => []OutputsCoherent
<1>1. ChainsKept => OutputsCoherent
  BY DEF ChainsKept, OutputsCoherent, InMemory
<1>2. QED
  BY AlwaysChains, <1>1, PTL

=============================================================================
