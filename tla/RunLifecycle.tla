---------------------------- MODULE RunLifecycle ----------------------------
(***************************************************************************)
(* The life of a literature-review run: what the espigue command line does *)
(* with the run ledger (table synthesis_runs), the stage checkpoints       *)
(* (table run_checkpoints) and the two output files, from `espigue "q"`    *)
(* over any number of crashes and `espigue resume <run_id>` invocations.   *)
(*                                                                         *)
(* An invocation is one process.  Every database statement and every file  *)
(* rename is a step of its own, so a crash, a failed statement, or a step  *)
(* of another invocation can fall between any two of them; nothing in the  *)
(* code locks a run against a second process.  Faults selects which of     *)
(* these may happen in a given instance of the model.                      *)
(***************************************************************************)
CONSTANTS Inv,     \* invocations of the program (bounds their number)
          Run,     \* run identifiers (uuids: an invocation never reuses one)
          None,    \* "no value": absent checkpoint, unassigned run, no input
          Faults   \* the kinds of failure that may happen

FaultKind == {"crash", "record", "save", "load", "stage", "mark", "delete", "write", "loss", "overlap"}

Stage == {"graph", "synthesis", "narrative"}

(***************************************************************************)
(* A stage artifact is the input it was made from and the invocation that  *)
(* made it: graphs come from the panel (None), a synthesis from a graph, a *)
(* narrative from a synthesis.  Their contents play no part here.          *)
(***************************************************************************)
Graphs     == {None} \X Inv
Syntheses  == Graphs \X Inv
Narratives == Syntheses \X Inv

ArtifactOf(s) == CASE s = "graph"     -> Graphs
                   [] s = "synthesis" -> Syntheses
                   [] s = "narrative" -> Narratives
Artifact == Graphs \cup Syntheses \cup Narratives

ASSUME ConstantsAssumption ==
  /\ Faults \subseteq FaultKind
  /\ None \notin Run \cup Inv \cup Artifact
  /\ Run \cap Artifact = {}

StageArtifacts ==
  {a \in [Stage -> Artifact \cup {None}] : \A s \in Stage : a[s] \in ArtifactOf(s) \cup {None}}

NoArtifacts == [s \in Stage |-> None]

Active   == {"record", "load", "stage", "save", "emit", "fail", "yaml", "graphmd", "complete", "delete"}
Outcome  == {"clean", "degraded", "refused", "failed", "hinted", "unwritten", "crashed"}

VARIABLES
  row,        \* synthesis_runs.status of each run, "absent" when it has no row
  checkpoint, \* run_checkpoints: the latest artifact per (run, stage)
  out,        \* the output directory: the files synthesis.yaml and graph.md
  pc,         \* what each invocation does next, or how it ended
  run,        \* the run each invocation works on
  stage,      \* the stage an invocation loads, runs or saves
  art,        \* in memory: ResumeState, then the artifacts of the engine
  degraded,   \* in memory: a reason to report the result as degraded exists
  \* history, read by no action:
  published,  \* runs whose two files have both been written
  lossy       \* artifacts and runs made from partial data (guards, lanes, bibliography)

db    == <<row, checkpoint>>
local == <<run, stage, art, degraded>>
vars  == <<row, checkpoint, out, pc, run, stage, art, degraded, published, lossy>>

Allowed(fault) == fault \in Faults

\* Whether a step that may lose data (a lane, a guard, full texts) does.
Losses == {FALSE, Allowed("loss")}

TypeOK ==
  /\ row \in [Run -> {"absent", "running", "failed", "complete"}]
  /\ checkpoint \in [Run -> StageArtifacts]
  /\ out \in [{"yaml", "graph"} -> Inv \cup {None}]
  /\ pc \in [Inv -> {"idle"} \cup Active \cup Outcome]
  /\ run \in [Inv -> Run \cup {None}]
  /\ stage \in [Inv -> Stage]
  /\ art \in [Inv -> StageArtifacts]
  /\ degraded \in [Inv -> BOOLEAN]
  /\ published \subseteq Run
  /\ lossy \subseteq Artifact \cup Run

Init ==
  /\ row = [r \in Run |-> "absent"]
  /\ checkpoint = [r \in Run |-> NoArtifacts]
  /\ out = [f \in {"yaml", "graph"} |-> None]
  /\ pc = [p \in Inv |-> "idle"]
  /\ run = [p \in Inv |-> None]
  /\ stage = [p \in Inv |-> "graph"]
  /\ art = [p \in Inv |-> NoArtifacts]
  /\ degraded = [p \in Inv |-> FALSE]
  /\ published = {}
  /\ lossy = {}
-----------------------------------------------------------------------------
IsActive(p) == pc[p] \in Active

\* The user starts one invocation after the other, unless overlap is allowed.
MayStart(p) ==
  /\ pc[p] = "idle"
  /\ Allowed("overlap") \/ \A q \in Inv : ~IsActive(q)

Goto(p, where) == pc' = [pc EXCEPT ![p] = where]

Start(p, r, where) ==
  /\ MayStart(p)
  /\ run' = [run EXCEPT ![p] = r]
  /\ Goto(p, where)

\* The stages run in this order; after the last one, go on to `where`.
Advance(p, again, where) ==
  IF stage[p] = "narrative"
  THEN /\ Goto(p, where)
       /\ stage' = [stage EXCEPT ![p] = "graph"]
  ELSE /\ Goto(p, again)
       /\ stage' = [stage EXCEPT ![p] = IF stage[p] = "graph" THEN "synthesis" ELSE "narrative"]
-----------------------------------------------------------------------------
(***************************************************************************)
(* A fresh review: a new run id, retrieval, and a panel.  Retrieval that   *)
(* lost a lane leaves a fusion notice: the result will be degraded.        *)
(***************************************************************************)
StartReview(p, r) ==
  /\ \A q \in Inv : run[q] # r
  /\ Start(p, r, "record")
  /\ \E partial \in Losses :
       /\ degraded' = [degraded EXCEPT ![p] = partial]
       /\ lossy' = IF partial THEN lossy \cup {r} ELSE lossy
  /\ UNCHANGED <<row, checkpoint, out, stage, art, published>>

\* No sources, build_panel failed, or an empty panel: an empty, degraded
\* result; the run never reaches the ledger.
EmptyPanel(p) ==
  /\ pc[p] = "record"
  /\ Goto(p, "failed")
  /\ UNCHANGED <<db, out, local, published, lossy>>

\* Mutant of RecordRunStart: no row at all.
RecordRunStart_Forgotten(p) ==
  /\ pc[p] = "record"
  /\ Goto(p, "stage")
  /\ UNCHANGED <<db, out, local, published, lossy>>

\* record_run_start; when it fails the run continues without resume metadata.
RecordRunStart(p) ==
  /\ pc[p] = "record"
  /\ \/ row' = [row EXCEPT ![run[p]] = "running"]
     \/ Allowed("record") /\ UNCHANGED row
  /\ Goto(p, "stage")
  /\ UNCHANGED <<checkpoint, out, local, published, lossy>>

(***************************************************************************)
(* A resume: the row must exist and not be complete, and the recorded      *)
(* panel must rebuild (it may not, whatever the ledger says).  The status  *)
(* is left as it is.  PreNotices start empty: degraded is FALSE.           *)
(***************************************************************************)
Resumable(r) == row[r] \notin {"absent", "complete"}

StartResume(p, r) ==
  /\ \E q \in Inv : run[q] = r
  /\ \/ Resumable(r) /\ Start(p, r, "load")
     \/ Start(p, r, "refused")
  /\ UNCHANGED <<db, out, stage, art, degraded, published, lossy>>

\* Mutant of LoadStage: after the last checkpoint, load them again.
LoadStage_Restarts(p) ==
  /\ pc[p] = "load"
  /\ art' = [art EXCEPT ![p][stage[p]] = checkpoint[run[p]][stage[p]]]
  /\ Advance(p, "load", "load")
  /\ UNCHANGED <<db, out, run, degraded, published, lossy>>

\* load_stage_lenient and decode_checkpoint, one query per stage: an
\* unreadable or undecodable checkpoint counts as absent.
LoadStage(p) ==
  /\ pc[p] = "load"
  /\ \/ art' = [art EXCEPT ![p][stage[p]] = checkpoint[run[p]][stage[p]]]
     \/ Allowed("load") /\ UNCHANGED art
  /\ Advance(p, "load", "stage")
  /\ UNCHANGED <<db, out, run, degraded, published, lossy>>
-----------------------------------------------------------------------------
(***************************************************************************)
(* The engine, run_engine_with_bib: a restored stage is skipped; any other *)
(* stage runs on what memory holds of the stage before it.  A stage that a *)
(* resource guard truncated, or whose bibliography write failed, pushes a  *)
(* reason into the in-memory degradation sink.                             *)
(***************************************************************************)
Input(p, s) == CASE s = "graph"     -> None
                 [] s = "synthesis" -> art[p]["graph"]
                 [] s = "narrative" -> art[p]["synthesis"]

SkipStage(p) ==
  /\ pc[p] = "stage"
  /\ art[p][stage[p]] # None
  /\ Advance(p, "stage", "emit")
  /\ UNCHANGED <<db, out, run, art, degraded, published, lossy>>

\* Mutant of RunStage: a restored stage may run again.
RunStage_EvenIfRestored(p) ==
  /\ pc[p] = "stage"
  /\ art' = [art EXCEPT ![p][stage[p]] = <<Input(p, stage[p]), p>>]
  /\ Goto(p, "save")
  /\ UNCHANGED <<db, out, run, stage, degraded, published, lossy>>

RunStage(p) ==
  /\ pc[p] = "stage"
  /\ art[p][stage[p]] = None
  /\ LET a == <<Input(p, stage[p]), p>> IN
     /\ art' = [art EXCEPT ![p][stage[p]] = a]
     /\ \E truncated \in Losses :
          /\ degraded' = [degraded EXCEPT ![p] = @ \/ truncated]
          /\ lossy' = IF truncated THEN lossy \cup {a} ELSE lossy
  /\ Goto(p, "save")
  /\ UNCHANGED <<db, out, run, stage, published>>

\* A stage or the final emit returns an error; the sink is not drained.
StageFails(p) ==
  /\ Allowed("stage")
  /\ \/ pc[p] = "stage" /\ art[p][stage[p]] = None
     \/ pc[p] = "emit"
  /\ Goto(p, "fail")
  /\ UNCHANGED <<db, out, local, published, lossy>>

\* save_checkpoint: best effort, INSERT OR REPLACE on (run_id, stage).
SaveCheckpoint(p) ==
  /\ pc[p] = "save"
  /\ \/ checkpoint' = [checkpoint EXCEPT ![run[p]][stage[p]] = art[p][stage[p]]]
     \/ Allowed("save") /\ UNCHANGED checkpoint
  /\ Advance(p, "stage", "emit")
  /\ UNCHANGED <<row, out, run, art, degraded, published, lossy>>

\* Mutant of Emit: let the coverage notice replace the engine's degradations
\* instead of joining them.
Emit_ReplacesNotice(p) ==
  /\ pc[p] = "emit"
  /\ Goto(p, "yaml")
  /\ \E abstractsOnly \in Losses : degraded' = [degraded EXCEPT ![p] = abstractsOnly]
  /\ UNCHANGED <<db, out, run, stage, art, published, lossy>>

\* Emit and compose the notice; a panel of abstracts only also degrades.
Emit(p) ==
  /\ pc[p] = "emit"
  /\ Goto(p, "yaml")
  /\ \E abstractsOnly \in Losses : degraded' = [degraded EXCEPT ![p] = @ \/ abstractsOnly]
  /\ UNCHANGED <<db, out, run, stage, art, published, lossy>>

SetStatus(p, status) == row' = IF row[run[p]] = "absent" THEN row ELSE [row EXCEPT ![run[p]] = status]

\* Mutant of MarkFailed: a failed run loses its checkpoints.
MarkFailed_DeletesCheckpoints(p) ==
  /\ pc[p] = "fail"
  /\ SetStatus(p, "failed")
  /\ checkpoint' = [checkpoint EXCEPT ![run[p]] = NoArtifacts]
  /\ Goto(p, "hinted")
  /\ UNCHANGED <<out, local, published, lossy>>

\* The engine failed: mark the run failed (best effort), print the hint
\* "Resume with: espigue resume <run_id>", write no file, exit 1.
MarkFailed(p) ==
  /\ pc[p] = "fail"
  /\ SetStatus(p, "failed") \/ (Allowed("mark") /\ UNCHANGED row)
  /\ Goto(p, "hinted")
  /\ UNCHANGED <<checkpoint, out, local, published, lossy>>
-----------------------------------------------------------------------------
(***************************************************************************)
(* finish_review: write_outputs renames synthesis.yaml, then graph.md, into*)
(* place; only then finalize_run marks the run complete and deletes its    *)
(* checkpoints.  A finalisation failure is only warned about.              *)
(***************************************************************************)
Result(p) == IF degraded[p] THEN "degraded" ELSE "clean"

\* Mutant of WriteYaml: graph.md is forgotten.
WriteYaml_Only(p) ==
  /\ pc[p] = "yaml"
  /\ out' = [out EXCEPT !["yaml"] = p]
  /\ Goto(p, "complete")
  /\ UNCHANGED <<db, local, published, lossy>>

WriteYaml(p) ==
  /\ pc[p] = "yaml"
  /\ out' = [out EXCEPT !["yaml"] = p]
  /\ Goto(p, "graphmd")
  /\ UNCHANGED <<db, local, published, lossy>>

WriteGraph(p) ==
  /\ pc[p] = "graphmd"
  /\ out' = [out EXCEPT !["graph"] = p]
  /\ published' = published \cup {run[p]}
  /\ Goto(p, "complete")
  /\ UNCHANGED <<db, local, lossy>>

WriteFails(p) ==
  /\ Allowed("write")
  /\ pc[p] \in {"yaml", "graphmd"}
  /\ Goto(p, "unwritten")
  /\ UNCHANGED <<db, out, local, published, lossy>>

MarkComplete(p) ==
  /\ pc[p] = "complete"
  /\ \/ SetStatus(p, "complete") /\ Goto(p, "delete")
     \/ Allowed("mark") /\ UNCHANGED row /\ Goto(p, Result(p))
  /\ UNCHANGED <<checkpoint, out, local, published, lossy>>

DeleteCheckpoints(p) ==
  /\ pc[p] = "delete"
  /\ \/ checkpoint' = [checkpoint EXCEPT ![run[p]] = NoArtifacts]
     \/ Allowed("delete") /\ UNCHANGED checkpoint
  /\ Goto(p, Result(p))
  /\ UNCHANGED <<row, out, local, published, lossy>>

\* The process dies: only the database and the files survive.
Crash(p) ==
  /\ Allowed("crash")
  /\ IsActive(p)
  /\ Goto(p, "crashed")
  /\ UNCHANGED <<db, out, local, published, lossy>>
-----------------------------------------------------------------------------
Step(p) ==
  \/ EmptyPanel(p)     \/ RecordRunStart(p) \/ LoadStage(p)
  \/ SkipStage(p)      \/ RunStage(p)       \/ StageFails(p)
  \/ SaveCheckpoint(p) \/ Emit(p)           \/ MarkFailed(p)
  \/ WriteYaml(p)      \/ WriteGraph(p)     \/ WriteFails(p)
  \/ MarkComplete(p)   \/ DeleteCheckpoints(p)

\* Every invocation of the instance has ended: nothing is left to happen.
AllEnded ==
  /\ \A p \in Inv : pc[p] \in Outcome
  /\ UNCHANGED vars

Next ==
  \/ \E p \in Inv, r \in Run : StartReview(p, r) \/ StartResume(p, r)
  \/ \E p \in Inv : Step(p) \/ Crash(p)
  \/ AllEnded

Spec == Init /\ [][Next]_vars

(***************************************************************************)
(* A started process keeps running: every await of the engine and of the   *)
(* database returns, by an answer, an error or a timeout.  Nothing forces  *)
(* the user to start an invocation, and nothing forces a crash.            *)
(***************************************************************************)
FairSpec == Spec /\ \A p \in Inv : WF_vars(Step(p))
-----------------------------------------------------------------------------
(***************************************************************************)
(* Properties.  Sequential is the intended use: one process at a time on a *)
(* database and an output directory.                                       *)
(***************************************************************************)
Sequential == ~Allowed("overlap")

\* A run is marked complete, and its checkpoints are deleted, only after both
\* its files were written: no crash leaves it unresumable and outputless
\* (the reason finalize_run is called by the caller, not by run_review).
CompleteMeansPublished ==
  \A r \in Run : row[r] = "complete" => r \in published

\* The stages of each run that a resume would restore.
Saved == [r \in Run |-> {s \in Stage : checkpoint[r][s] # None}]

\* The ledger promise as an abstract specification: paid stages stay saved
\* until the run is published; without overlap, complete is final.
Ledger == INSTANCE RunLedger WITH
            status    <- row,
            saved     <- Saved,
            Exclusive <- Sequential
LedgerSpec == Ledger!Spec

\* The three artifacts of one result belong together: the synthesis was made
\* from the graph that is published as graph.md and the narrative from that
\* synthesis.  Resume restores each stage independently of the others, so this
\* needs every checkpoint write and read to succeed and no second process.
Coherent(p) ==
  /\ art[p]["synthesis"] \in {art[p]["graph"]} \X Inv
  /\ art[p]["narrative"] \in {art[p]["synthesis"]} \X Inv

NoLostCheckpoints == Sequential /\ ~Allowed("save") /\ ~Allowed("load")

OutputsCoherent ==
  NoLostCheckpoints =>
    \A p \in Inv : pc[p] \in {"emit", "yaml", "graphmd", "complete", "delete"} => Coherent(p)

\* "Resume with: espigue resume <run_id>" is printed only when that command
\* will find the run: it is in the ledger and not complete.  It needs the
\* start of the run to have been recorded, and no second process.
HintWorks ==
  [][Sequential /\ ~Allowed("record") =>
       \A p \in Inv : pc[p] # "hinted" /\ pc'[p] = "hinted" => Resumable(run[p])']_vars

\* Exit code 0 is never given to a result that lost something while this very
\* invocation made it: only a loss in an earlier invocation can be forgotten.
MadeBy(p) == {a \in Artifact : a[2] = p}
CleanMeansNoOwnLoss ==
  \A p \in Inv : pc[p] = "clean" =>
    \A s \in Stage : art[p][s] \notin lossy \cap MadeBy(p)

\* What the degradation sink is for: no loss is reported as a silent success.
CleanMeansNoLoss ==
  \A p \in Inv : pc[p] = "clean" =>
    run[p] \notin lossy /\ \A s \in Stage : art[p][s] \notin lossy

\* The two files on disk come from one invocation, unless one is between its
\* two renames or was stopped there.
OutputsPaired ==
  Sequential =>
    \/ out["yaml"] = out["graph"]
    \/ out["yaml"] # None /\ pc[out["yaml"]] \in {"graphmd", "crashed", "unwritten"}

\* A resume that gets going comes to an end from whatever point the earlier
\* invocations died at: it crashes; or it gives up and leaves a run that the next
\* resume will find; or it publishes, and the run is complete or can be resumed
\* without paying for a stage again.
ResumeCompletes ==
  \A p \in Inv : pc[p] = "load" ~>
    \/ pc[p] = "crashed"
    \/ pc[p] \in {"hinted", "unwritten"} /\ Resumable(run[p])
    \/ /\ pc[p] \in {"clean", "degraded"} /\ run[p] \in published
       /\ row[run[p]] = "complete" \/ (Resumable(run[p]) /\ Saved[run[p]] = Stage)
-----------------------------------------------------------------------------
(***************************************************************************)
(* The inductive invariant behind the theorems of RunLifecycleProofs.      *)
(***************************************************************************)
RunAssigned ==
  \A p \in Inv :
    /\ IF pc[p] = "idle" THEN run[p] = None ELSE run[p] \in Run
    /\ pc[p] \in {"idle", "record"} => stage[p] = "graph"

\* A stage is worked on only when memory holds the one before it.
StagesInOrder ==
  \A p \in Inv :
    /\ pc[p] \in {"stage", "save"} /\ stage[p] # "graph" => art[p]["graph"] # None
    /\ pc[p] \in {"stage", "save"} /\ stage[p] = "narrative" => art[p]["synthesis"] # None
    /\ pc[p] = "save" => art[p][stage[p]] # None

FinalizingMeansPublished ==
  \A p \in Inv : pc[p] \in {"complete", "delete"} => run[p] \in published

\* A run nobody recorded yet is absent, and only its creator works on it.
NewRunsAbsent ==
  /\ \A r \in Run : (\A p \in Inv : run[p] # r) => row[r] = "absent"
  /\ \A p \in Inv : pc[p] = "record" =>
       /\ row[run[p]] = "absent"
       /\ \A q \in Inv \ {p} : IsActive(q) => run[q] # run[p]

\* Without overlap one process works at a time, never on a complete run,
\* except to delete its checkpoints.
OneAtATime ==
  Sequential =>
    /\ \A p, q \in Inv : IsActive(p) /\ IsActive(q) => p = q
    /\ \A p \in Inv : IsActive(p) /\ pc[p] # "delete" => row[run[p]] # "complete"

\* A loss in what an invocation made is in its notice.
LossesNoticed ==
  \A p \in Inv :
    /\ ~degraded[p] => lossy \cap MadeBy(p) = {}
    /\ pc[p] \in {"idle", "clean"} => ~degraded[p]

\* Between its two renames an invocation is the one that wrote the first file.
WriterIsKnown == Sequential => \A p \in Inv : pc[p] = "graphmd" => out["yaml"] = p

\* Where no checkpoint is lost: each saved artifact was made from the one saved
\* before it, and what an invocation holds in memory is what is saved of its run, but
\* for what it has not loaded yet and the artifact it is about to save.
Chain(a) ==
  /\ a["synthesis"] # None => a["synthesis"] \in {a["graph"]} \X Inv
  /\ a["narrative"] # None => a["narrative"] \in {a["synthesis"]} \X Inv

Before(s) == CASE s = "graph" -> {} [] s = "synthesis" -> {"graph"} [] OTHER -> {"graph", "synthesis"}

InMemory(p) ==
  LET saved == checkpoint[run[p]] IN
  CASE pc[p] = "idle"   -> art[p] = NoArtifacts
    [] pc[p] = "record" -> art[p] = NoArtifacts /\ saved = NoArtifacts
    [] pc[p] = "load"   -> \A s \in Stage : art[p][s] = IF s \in Before(stage[p]) THEN saved[s] ELSE None
    [] pc[p] = "stage"  -> art[p] = saved
    [] pc[p] = "save"   -> Chain(art[p]) /\ saved = [art[p] EXCEPT ![stage[p]] = None]
    [] pc[p] \in {"emit", "yaml", "graphmd", "complete", "delete"} -> Coherent(p)
    [] OTHER -> TRUE

ChainsKept ==
  NoLostCheckpoints =>
    /\ \A r \in Run : Chain(checkpoint[r])
    /\ \A r \in Run : (\A p \in Inv : run[p] # r) => checkpoint[r] = NoArtifacts
    /\ \A p \in Inv : InMemory(p)

IInv ==
  /\ TypeOK
  /\ RunAssigned
  /\ StagesInOrder
  /\ CompleteMeansPublished
  /\ FinalizingMeansPublished
  /\ NewRunsAbsent
  /\ OneAtATime
=============================================================================
