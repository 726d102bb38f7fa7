# Espigue: specifications, model checks and proofs

Espigue turns a research question into a cited literature review. It retrieves
papers, has language models build an argument graph, a synthesis and a narrative
from them by *test-time diffusion* (many drafts, refined in steps, judged, ranked
and merged), checks quotes and sources mechanically, and writes `synthesis.yaml`
and `graph.md`. A run takes hours and costs money; it can crash, be resumed, lose
parts to limits and failures, and has to be honest about all of it. This directory
holds TLA+ modules of the parts where that is decided, TLC runs that check them on
small instances, and TLAPS proofs for all instances.

Paths in this file are relative to `src/crates/`; `P` stands for
`espigue/src/pipeline.rs`, `ttd/` for `orchestration/src/ttd/`.

## 1. The system

| Component | State it keeps | Operations | What is hard, what must hold |
|---|---|---|---|
| **Run lifecycle** (`P`, `espigue/src/main.rs`, `ttd/engine.rs`, `search/src/checkpoint_store.rs`) | `synthesis_runs` (one status per run), `run_checkpoints` (one artifact per run and stage), two output files; in memory the restored artifacts and the degradation notices | start, resume, one checkpoint per stage, mark failed, publish the two files, mark complete, delete checkpoints | A crash or a failing statement between any two of these; a second process. What was paid for stays saved until the results are on disk; artifacts published together were made from each other; a loss is never reported as success |
| **Configuration** (`P`, `ttd/engine.rs`, `config.rs`) | the engine's configuration | builder calls, one machine per stage | options, environment and resume meet in one value; the order of the calls must not matter; every stage speaks the dialect of the run |
| **Review panel** (`P`, `search/src/lit_explore.rs`, `lit_fusion.rs`, `quality.rs`, `rerank.rs`, `espigue/src/seed.rs`, `ingest.rs`, `orchestration/src/adapter/`) | store, budgets, exploration with its cache, lanes, notices, run record | ingest local files, resolve seeds, explore, search three lanes, fuse, rerank, gate, build the panel, record it, rebuild it on a resume | Every step degrades on its own; reasons travel through five variables to one notice; what a resume rebuilds must be the panel of before |
| **Clients** (`espigue/src/openrouter/`, `search/src/arxiv.rs`, `s2_enrichment.rs`, `pdf_fetch.rs`, `http_cap.rs`, `lit_chunking.rs`) | attempts, waits | post with retry; chat, embed, rerank; fetch, decode, cut into chunks | which failures may be repeated without paying twice; rows in the order of the texts; answers of any status, size and form |
| **Gateway** (`search/src/lit_gateway.rs` and its callers) | per lane: next free slot, calls made | acquire (budget, reserve, sleep), `with_backoff`, cancellation | Tasks reserve, then sleep without the lock; retries; pacing and budget must survive both |
| **Literature store** (`search/src/lit_intake.rs`, `sqlite_vec.rs`, `lit_schema.rs`, `P`) | rows of `papers`, chunks as vector plus content row, `fulltext_status`, the in-flight set | ingest of abstracts by lanes, promotion to full text in background tasks | Lanes and promotions interleave; a chunk is two writes, a paper many; a time limit drops a lane anywhere; exits of a process with tasks in flight. "indexed" means whole, flights end, rows can be retrieved |
| **Stage loop** (`ttd/run.rs`, `guards.rs`, `state.rs`, `config.rs`) | per trajectory: draft, evaluation, steps, calls; shared: clock, fitness semaphore, degradation sink | draft fan-out, evaluate, identify gaps, retrieve, resolve, record, final evaluation, rank, merge | N futures interleaved; permits on error paths; two budget guards with different comparisons; every truncation reported exactly when there was one; the stage returns |
| **Graph stage** (`ttd/stages/graph.rs`, `prompts/`, `ttd/engine.rs`) | nodes with quotes and statuses, edges, the panel | concurrent extraction, merge, relate, verify quotes, patch / regenerate / heuristic, verify again, refresh the panel | order of answers; ids made by prefixes and counters; stamps that outlive the text they were made for |
| **Synthesis stage** (`ttd/stages/synthesis.rs`, `prompts/`) | claims, evaluation, candidates, evidence | draft, judge, veto, gap prompt, patch / regenerate / heuristic, merge; an event reader of XML | a dozen flags of a parser across claims; three tiers of fallback; a bound on evidence |
| **Post-processing** (`ttd/post_process.rs`, `term_sheet.rs`) | the synthesis as it passes through the chain | normalise and filter ids, levels, verify quotes, attach graph quotes, coverage revision, minority reports | Everything a model writes is untrusted, also what the revision writes; the order of the steps; text that changes between two verifications |
| **Plan tournament** (`ttd/plan.rs`) | candidates, winner | draft, lint, judge, select, redraft | lints and prompts state one contract twice; silent judges; degrades to a run without a plan |
| **Narrative stage** (`ttd/stages/narrative.rs`, `prompts/`, `citations.rs`) | narratives, merged sections, statements | draft, critique, rewrite, judge, merge whole or by sections, sanitise, read statements, print | three scanners of one marker syntax; forms of prompts that must agree on the plan; calls that are booked in advance |
| **Fitness** (`ttd/fitness.rs`, `weights.rs`) | – | read judges' answers, weigh, veto, rank | missing and malformed scores |
| Bibliography, vector search, caches, emission, prompts' wording, base types | – | – | see section 6 |

How they interact: `main.rs` calls `run_review` or `resume_review` (`P`), which
assembles the panel and calls the engine; the engine runs the **stage loop** three
times, over the operations of the graph, synthesis and narrative stages, with
**post-processing** after the second and the **plan tournament** before the third,
and saves a checkpoint after each stage through the **run lifecycle**'s store.
Retrieval goes through the **gateway** and writes to the **literature store**;
promotions are detached tasks that go on writing while later stages read.
Degradations travel in a shared sink to the final notice and the exit code. The
profile (v1, v2, v3) chooses prompts and which steps of the post-processing run;
v3 is the default.

## 2. Modules and how they correspond to the code

Every definition that stands for code is listed with its lines under `map` in
`PROJECT.json`; each module begins with what its states are. Every `await` or
database statement that another actor can observe ends an action.

**`RunLifecycle`** — an *invocation* is one process (`pc`), working on a run. Its
steps: `StartReview`, `EmptyPanel`, `RecordRunStart`; `StartResume`, `LoadStage`;
`SkipStage` / `RunStage` / `StageFails` / `SaveCheckpoint`; `Emit`; `MarkFailed`;
`WriteYaml`, `WriteGraph`, `WriteFails`; `MarkComplete`, `DeleteCheckpoints`;
`Crash`. Artifacts are the input they were made from and the invocation that made
them, so "belongs together" can be said. A constant `Faults` names what may go
wrong: crash, failing statements of each kind, a failing stage, loss of data, and
overlap of two processes. **`RunLedger`** is the abstract specification: status,
saved stages and published runs, and what the store promises about them.

**`TtdStage`** — a *trajectory* is a future (`pc[t]`): drafting, evolving (guards,
wait for a permit, judge, identify, retrieve, resolve, record), final evaluation.
`run`'s own joins are `StartEvolve`, `EvolveEnds`, `RankEnds`, `Merge`. Contents of
drafts and answers are abstracted to what guards and ranking read: the number of
calls, validity, a score, whether anything was found.

**`LitIntake`** — a *worker* is a task: an ingest (`Probe`, `UpsertPaper`,
`InsertAbstract`, `FillAbstract`, `CancelIngest`) or a promotion (`StartPromotion`,
`CheckStatus`, `AcquireSlot`, `MarkPending`, `Fetch`, `UpsertAgain`, `InsertChunk`,
`FillChunk`, `Conclude`). `Restart` ends the process. A chunk is absent, blank
(vector without content), an abstract or text; each blank one knows who inserted it.

**`LitGateway`** — a *caller* with one of three styles found in the code: acquire
before each attempt (lanes), acquire once and retry on that grant (Stage 0), one
attempt (promotions, seeds). `Tick` is the clock; a sleeper may wake late.

**`PostProcess`** — the synthesis as a set of claims, each with sources, quotes,
node references and a level; `pc` is the next step of
`post_process_synthesis_with_graph`: `Prepare`, `Verify`, `Attach`, `Reverify`,
then `Covered`, `Revise` or `RevisionFails`, again from `Prepare` after a revision,
and `Minority`. What the merger and the revision write is any member of a constant
set; text is a set of passages; similarity (snapping, token containment) is a
constant relation. `Promote` is a promotion of `LitIntake` that ends in between.
A quote that is "paraphrased" or "unverified" in the code counts as absent; the text
of a quote whose escapes cannot be read is one the source does not have.

**`GraphForms`, `GraphStage`** — stage 1. A prompt is a *form*: the root element it
asks for, what of the draft it shows, which parts of a node and an edge it asks
for; a reader knows parts by name and passes over the others. What survives a
restatement of the graph is what the form shows, asks for and the reader knows.
`Extract(e)` runs per expert under a semaphore, in any order; then `Relate`,
`Evaluate`, `Identify`, the ladder `Patch` / `PatchRetry`, `Regenerate`,
`Heuristic`, and the engine's `Reverify` and `Refresh`.

**`SynthesisXml`, `SynthesisStage`** — stage 2. `SynthesisXml` has the forms, the
sequence of XML events a model following a form writes, and the parser as a fold over
events with its open elements and buffers; an answer may be readable only up to any of
its events, and a text in the constant `Garbled` (a bare `&`, an unknown entity) reads
as empty, as `unescape().unwrap_or_default()` makes it. `SynthesisStage` has the
trajectory: `Generate`, `Evaluate` (judges and veto), `Identify`, `PatchAnswered` /
`PatchUnread`, `Regenerate`, `Heuristic`, then `Merge` over the candidates with the
evidence for what they cite.

**`EngineConfig`, `Fitness`, `CitationText`** are modules of operators (as is `Places`,
on what a list keeps at some of its places, which `CitationText`, `Explore`, `Fusion`
and `ReviewPanel` use): the builder calls as a fold from the options of a run to the
configuration and the machines of its stages; the ladder that finds a score in a judge's
answer, totals and order; the narrative as a sequence of tokens (headings, brackets,
ids, ends of sentences) with the three scanners of citation markers, each as the set of
places it keeps.

**`PlanTournament`, `NarrativeStage`** — stage 3. The tournament's `DraftPlan`,
`Select`, `Redraft`, `Conclude` with the lints and the rules its prompts state,
composed with the stage that works under the plan: `Generate`, `Evaluate`,
`Critique`, `Refine`, `MergeWhole` or `MergeSection` by section, `Save`,
`PrintReview`; `Restore` is a resume with the stage already saved.

**`OpenRouterClient`, `LitClients`, `LitChunking`, `Explore`, `Fusion`,
`ReviewPanel`** — from the question to the panel and the notice. The first five
are operators on records: one POST moved on attempt by attempt; what each client
makes of an answer, and the reader of Atom feeds; the cutting of text; the state of
Stage 0 with its cache; fusion, gates and `build_panel`. `ReviewPanel` holds them
in its state and has an action per call: `IngestFile`, `Submit`, `Decompose`,
`SearchSeeds`, `FollowEdge`, `Descend`, `CallLane(l)`, `PersistNext(l)`,
`SearchStore(l)` (three lanes interleaved on one store and one budget), `Fuse`,
`Rerank`, `Promote`, `Screen`, `Build`, and the engine as one step, `RunEngine`,
which composes the notice.

`MC…` modules give the constants their values for TLC and hold, as assumptions TLC
evaluates, the checks of pure operators against a reference; `…Proofs` modules hold
the theorems. No state is shared between the five groups: they meet at named points
(`TtdStage` runs inside `RunStage`, its trajectories' operations are those of the
three stage modules; its sink is `RunStage`'s loss and the reasons of `RunEngine`;
`LitGateway`'s grants are `LitIntake`'s `AcquireSlot` and `ReviewPanel`'s `Granted`;
the graph `GraphStage` ends with is the one `PostProcess` starts from; its
`Promote` is a promotion of `LitIntake`), and their product would multiply
independent states.

## 3. The runs

| Run | Instance | What it shows |
|---|---|---|
| `RunLifecycle_resume` | 3 invocations, 2 runs; crashes, failing stages, marks, deletes, writes; fair | published artifacts belong together and both files come from one invocation; the resume hint works; a resume that gets going completes its run or crashes |
| `RunLifecycle_overlap` | 2 invocations, 1 run, every fault, two processes at once | no invocation calls its own loss clean; `RunLedger` is implemented |
| `RunLifecycle_silent_loss` | violation | see finding 1 |
| `TtdStage_stage` | 2 trajectories, 2 steps, 2 judges, a configured concurrency of 0, eight call limits, every fault, fair | calls per trajectory, truncation reported exactly, the winner is a best one, a sufficient budget suffices, the stage returns |
| `LitIntake_store` | 2 tasks on one paper (arXiv or S2), 2 chunks, seven environments, fair | "indexed" is whole but for a late abstract, rows come with chunks, blanks get filled, flights end |
| `LitGateway_lane` | 2 callers of any style, budget 3, interval 2, waits 1 and 4, cancellation, fair | first calls on a grant keep their distance, and all calls where every attempt acquires; calls are then paid; requests end |
| `PostProcess_checks` | 8 syntheses for merger and revision, 3 graphs, a panel of 7, both kinds of profiles, every fault, promotions | stamps are true and complete, sources are known, the graph's quotes are used but under a mis-copied tag, votes are counted |
| `GraphStage_stage` | 2 experts under 1 permit, an outside paper, two denoise steps, ids that prefixes make equal and that patches and heuristics use again, both dialects, every fault, fair | what an expert's answer lists is in the graph, its id is resolved to its node, "verified" is true, the panel survives its refresh, the stage ends |
| `SynthesisStage_ladder` | 2 trajectories of 2 steps, three answers, readable up to any event, with a garbled claim and a garbled quote, both dialects, every fault | the parser reads what was closed and can be unescaped, evidence covers every quoted paper, the veto heard is of this draft, fallbacks lose no claim |
| `SynthesisStage_survival` | violation | see finding 2 |
| `NarrativeStage_review` | the configurations of the shipped program and those of the library with rewriting, 2 planners, 2 redrafts, six plans, 2 trajectories, three merged texts, every fault, fair | the best plan wins, calls are booked, one target for all prompts, citations survive to print, stage 3 starts |
| `ReviewPanel_retrieval` | 7 reviews (web, corpus only with local files, without an S2 key, another vector dimension, seeds, no question), five papers, every failure of the provider, the services and the store | waits and payments of a call, what Stage 0 may ingest, what the engine starts with and a resume rebuilds, what the notice tells |

Many properties hold only under a hypothesis about what fails. The hypothesis is
part of the property (`Free({...})`, `Sequential`, `NoLostCheckpoints`), so the
runs do not drop the fault for the others. `LitIntake_store` considers six sets of
faults in one state space: everything, and everything but what one of the
properties excludes.

**Pure operators against references.** The MC modules assume, and TLC evaluates
before each run: every weighted dimension has a judge of its own and the weights
sum to one (`MCGraphStage`, `MCSynthesisStage`, `NarrativeStage`); no prompt of
stage 2 asks for a support level without showing the vocabulary; the reader of gap
answers, cut off at any event, returns the gaps that were closed and lets nothing
of one reach the next (`MCSynthesisStage`); the rules stated to a planner are
exactly those the lints apply, over all short plans (`RulesAreTheLints`); builder
calls commute, in whatever order they are made (`CallsCommute`), and give every
stage a machine of the run's dialect, with the web in the first stage alone
(`MachinesAgree`, `MCNarrativeStage`); cut texts keep every word up to the
references, in chunks of the allowed size (`ChunksKeepTheText`, `MCReviewPanel`).

**Bounds, and why they are enough.** *Lifecycle:* a fresh invocation, one that failed
and one that resumes are three; two runs share the output directory; with every fault
and overlap two invocations of one run already interleave in all the ways the database
can see. *Stage:* trajectories share only the semaphore, the clock and the sink, so two
show every interference; two steps distinguish the first, a middle and the last guard;
the limits 0, 3–6 and 8–10 straddle each comparison of the two guards (J = 2, so the
sufficient limit is 10). *Store:* races are between two tasks on the same paper; two
chunks are the least with a failure after the abstract is gone. Its environments are
everything that may go wrong, nothing, and for each of the hypotheses of an invariant
everything but what it excludes; each hypothesis is needed (TLC finds a counterexample
without it). *Gateway:* a wait shorter and one longer than the interval; three grants
let a late waker be overtaken. Time is relative, and `elapsed` is counted up to budget ×
interval, after which no property asks for it. *Post-processing:* the panel has seven
members because one of seven is below the cut of 0.15 and one of six is not; the
syntheses contain each thing the code looks for (no claims, an id that extends a
member's, invented and system ids, paraphrased and mis-copied quotes, wrong levels,
references to one or two nodes, uncited members). *Graph stage:* of two experts under
one permit one waits; the prefix of one makes an id of the other's; the store has text
the panel's prose has not, and the other way round; two steps of the ladder are the
least in which the heuristic gives an id a second time. *Synthesis stage:* the second
step is the first that can hear a stale verdict; of three answers one has a claim
without a topic, one a label that is no id and a claim whose text is garbled; of two
quotes one is. Trajectories share nothing inside the operations, so they run one after
the other in the models of stages 2 and 3; their interleaving is `TtdStage`'s.
*Narrative stage:* the plans break one lint each or none; the texts nest, break off and
misspell markers. *Panel:* every budget is smaller than what is asked for (two calls to
arXiv, five to Semantic Scholar); a lane tries twice, one retry being as good as three;
the paper without an abstract, one with an arXiv id that two services name differently,
and one far from the question are the cases the gates decide. Symmetry is used only
where permuting invocations and runs is sound, and never with liveness.

Deadlock is checked in every run: where the program may end, an action
(`AllEnded`, `Returned`, `Terminated`, `Done`, `Over`) says so.

**Fairness.** Weak fairness of the step of each started process (lifecycle), of
each trajectory and of `run`'s joins (stage), of each promotion (store), of the
clock and each caller (gateway), of the steps of the graph stage, of the
tournament. It is justified by the code's time limits: every HTTP client has one,
SQLite statements return or fail with sqlx's busy timeout, tokio's semaphore is
FIFO, and no future waits for another except through these. Nothing obliges a user
to resume, a lane to start, or a crash to happen. `SynthesisStage_survival` states
fairness so that its counterexample is of a stage that goes on. The other runs have
no liveness property: their code is sequential, and that it does not get stuck is
the absence of deadlock.

## 4. What is proved

All theorems hold for every value of the constants that meets the named
assumptions of the module (which TLC evaluates in the runs): any number of
processes, runs, trajectories, steps, judges, limits, papers, tasks, chunks,
callers, budgets, any panel, graph, texts and answers of a model.

* **`RunLifecycleProofs`** — `Invariance` proves `IInv`, which adds to
  completeness-means-publication that a process past the file writes has
  published, that new runs are absent and belong to their creator, that stages are
  worked on in order and, without overlap, one process at a time. The last two are
  needed for `ImplementsLedger`: each step of `RunLifecycle` is a step of
  `RunLedger` or a stutter, under the mapping status ↦ `row`, saved ↦ the stages
  with a checkpoint. `CompleteRunsArePublished`, `TypeCorrect` follow.
  The second half is what a result is worth. Between the two renames the writer is
  alone at work, so the first file is its own until it renames the second
  (`FilesArePaired`). The sink of an invocation only grows, and the notice is made
  from all of it (`OwnLossIsTold`: artifacts of an invocation's own making; those it
  restores are finding 1). Memory mirrors the saved checkpoints up to the stage at
  hand, and a chain without gaps stays one (`InMemory`, `Chain`, `ChainsKept`), which
  needs the first half for the order of the stages (`ResultsAreCoherent`).
  Who works on a run whose start was recorded finds it in the ledger (`KnownAtWork`),
  so the hint that a failed run prints can be followed (`TheHintIsGood`).
* **`GraphStageProofs`** — the permits by a cardinality argument; the stamps from who
  may set them and from when the engine looks (`Stamps`, `Ordered`); the verdict from
  its not being touched between veto and gap-fill (`Verdict`); the panel from the order
  of the lookup and its cap (`WholePanelAsked`). Ids are not unique: a patch may use one
  again, the heuristic of each step numbers from 0. What holds whatever the ids are
  (`OneNodePerId`) is that the first node of an id, which is the one stages 2 and 3
  resolve it to, is one and the same until a regeneration, and an expert's own for each
  id an expert gave. `IdIInv` says that each id has one first node, that every id heard
  is one of the extraction's nodes, and that nodes are added in the order of the steps,
  so an id used again comes later; prefixes may meet as they like, the merge sees to
  that.
* **`TtdStageProofs`** — `IInv` joins the permits, the phases, the two-sided
  account of truncation and an account of the calls of finished steps (`Spent`):
  at most J + 2 per step, which makes S·(J+2)+J a sufficient limit
  (`BudgetIsEnough`). Permits need a cardinality argument over the holders.
  `BestWins` is a second invariant over these: the merge picks a first of an order
  that is total on the pairs (validity, score).
* **`LiteratureProofs`** — of the store: `IInv` joins its properties, each with its
  hypothesis, to who writes what: a chunk that a promotion has inserted is there when it
  comes to fill it (`WritersHold`), one in flight has written a prefix of the chunks
  (`PromotionWrites`), lanes come before flights where the fault set says so, the last
  writer of a blank chunk is the task about to fill it. `IndexedMeansWhole` follows with
  lanes, seeds and promotions side by side: a chunk `Stands` if it is text, or if it is
  chunk 0 with a late abstract over it. Its hypothesis, `Accountable`, leaves out only
  papers without any rendering (a 404 ends as "indexed", section 5) and a status that can
  neither be written nor read. Of a lane of the
  gateway (`GatewayIInv`): the slots granted never run ahead of the reservations
  (`SlotsAhead`), grants are held by one task each, a grant's first call comes after its
  slot (`OpenedInTime`), and every sleeper has paid.
  From these: `CallsKeepTheirDistance`, `EveryCallIsPaid`,
  `CapIsHardWhenCharged`.
* **`PostProcessProofs`** — the properties and the types are inductive together.
  The first half is about one claim: what normalisation, filtering, levels,
  stamping and the two attachments do to it. The key facts: a true stamp is on an
  id that has text, hence on a normalised one, so normalising again after a
  rejected revision takes nothing away; of the nodes with one quote the first is
  attached (the least-element argument); a node whose tag a mis-copied quote carries is
  passed over, the claim's others are not; a second verification cannot change a
  quote of the panel. The second half lifts them to the set of claims, an action
  at a time.
* **`SynthesisStageProofs`** — the evidence is one of the choices that `Merge` may make
  (`EvidenceIsChosen`), and every such choice keeps one quote of each source that offers
  any, whatever the bound (`EvidenceReachesTheMerger`); the verdict heard and the one
  computed stay those of the draft from its evaluation to the end of the ladder
  (`VetoIInv`, `VetoReachesTheGapPrompt`). How answers are read back: a document is an
  answer laid out as `quick_xml` events, and the reader is a recursive function over
  them. `Reads(s, doc, t, n)` says that the events of `doc` take the reader from state
  `s` to `t` and close `n` claims; readings compose (`ReadBoth`), so each element of the
  format is read by a lemma of its own, and the loops over quotes, sources and claims by
  induction over how many have been read (`QuotesInTurn`, `SourcesInTurn`,
  `ClaimsInTurn`). What follows is that an answer in any of the forms of the model, or
  broken off in its last claim, is read as those of the claims it closed whose text can
  be unescaped (`TheReaderReadsWhatWasWritten`), and that what a resolution falls back
  on keeps every claim of the draft, whichever call failed (`NoFallbackLosesAClaim`).
* **`NarrativeStageProofs`** — the order of (veto, total) is one of integers, for which
  totals must be integers: sums over dimensions are folds, and that a fold over a finite
  set of integers exists and is one needs an induction over the size of the set, done
  with the least-number principle (`SumOverSteps`, `SumOverType`). Then `BestIInv`: the
  winner is not behind anything judged, and the selection looks at every entrant
  (`BestPlanWins`, which also says when a vetoed plan can win: if all that was judged
  has the one key of a vetoed plan without scores). `CallIInv` counts what a round may
  still spend (`EveryCallIsBooked`). `FormIInv` says of every form asked for so far that
  its plan and shape are those the configuration and the winner of the tournament give
  (`PromptsShareOneTarget`). The citations (`CitedClaimsSurvive`) go through three
  scanners of any text. Sanitising only drops places, and keeps the order of the others,
  so it is enough to know what it drops: a bracket that opens in what is left opened in
  the text and closes at the same place (`OpensAlike`, `CloseAlike`), which needs that
  no marker is cut in two (`BracketsApart`, `DropsOfMarker`). Hence the markers left are
  those that name an existing claim, with these names only (`MarkersAreLeft`,
  `CitedIsLeft`); each lies within one sentence (`MarkerOfSentence`), whose statement
  has its claims (`RefsOfMarker`), and is printed with their sources (`RenderedCites`).
  `TextIInv` carries the text from the merge to print.
* **`ReviewPanelProofs`** — four invariants over one model. `CallIInv`: before an
  attempt the waits made are at most those between the attempts made, and a chat that
  lost an answer has ended (`CallsStayInTheirEnvelope`). `HitsIInv`: each lane returns
  only sources it has found, fusion, floor, reranker and gates pass on rows of the
  lanes, and the cap is applied to what is handed on; with lemmas about lists taken at
  places (`AtPlaces`), since `build_panel` keeps the first row of each source and the
  refresh those experts whose text the store has (`PanelStandsOnItsHits`). `LossIInv`:
  each of the variables that carries reasons has those of the failures it stands for
  until `Compose` joins them (`EveryLossReachesTheNotice`). `WalkIInv` follows Stage 0:
  the level gathered lies fewer edges from a seed than its depth, and every key in the
  store is justified by a level that was walked. It rests on lemmas about a stable sort
  written by ranks (`Sorted`): whichever way the rows of each request come back, sorting
  by index puts every vector at its paper's place, so the cut drops the papers it should
  (`StageZeroStaysNear`).

Sequences that these modules shorten or reorder are written by positions (`AtPlaces`: of
module `Places`, what stands at these places, in order; `Sorted`: each item at the place
of its rank), for which the provers can reason by index; they know nothing of
`SelectSeq` and `SortSeq`. The proofs also corrected the models: a `CASE` with
overlapping guards leaves the choice open, where the code takes the first branch that
applies, so those are `IF … ELSE` now (`Fusion`, `LitChunking`, `LitClients`).

Some invariants are proved and no longer run, because what they say follows from the
inductive invariant for every instance: conservation of permits (of the judges and of
the extractions), "complete means published", single flight, the hard cap of charged
callers.

**Only model-checked:** liveness (`ResumeCompletes`, `StageReturns`, `FlightsEnd`,
`RequestsEnd`, `StageEnds`, `StageThreeStarts`), which needs fairness and `ENABLED`.
Every safety property of a passing run is stated by a theorem. The library's induction
theorems cannot be used (they take an operator), but the least-number principle can, on
one set at a time: that is how the recursion of `SynthesisXml`, the sums of
`PlanTournament` and the text of a section are proved about. The assumptions that TLC
evaluates on `LitChunking`, `LitClients`, `Explore` and the like (an operator against a
reference on bounded inputs) are not proved: these fold over sequences with operators
the provers know nothing of.

## 5. Disagreements between the code and what it says

Checked by runs that end in a violation:

1. **A loss can be forgotten by a crash** (`RunLifecycle_silent_loss`,
   `CleanMeansNoLoss`). `ttd/config.rs:24-25` has the sink so that "callers can
   surface the loss instead of reporting silent success". It is in memory, the
   truncated stage in a checkpoint: after a crash the resume reports it clean.
2. **A regeneration loses fields it was to keep** (`SynthesisStage_survival`,
   `FieldsSurviveRegeneration`). The comment of the lit prompt of a regeneration
   promises that support levels and lineage survive the replacement
   (`ttd/prompts/lit_review.rs`), but the draft is shown to it as its narrative
   alone (`ttd/stages/synthesis.rs:525`): a model that keeps all it is shown still
   changes the support level of a claim and drops its papers.

Met while modelling, and stated openly in the property next to it, which says what the
code does do:

* **Pacing of Stage 0.** `lit_gateway.rs:17` calls the caps hard and `:48` has the
  spacing keep the throughput provably under the limit; `lit_explore.rs:193` acquires
  before `with_backoff`, so its retries go out on one grant, unpaced and uncharged.
  `GrantsOnTime` is about first calls, and about all calls only under `Charging`.
* **A mis-copied quote keeps its node's quote out.** The comment of the floor
  (`post_process.rs:725-736`) has the graph's quote stand in where the model "omitted or
  mis-copied" it; `post_process.rs:777-783` takes a node as attached once any quote
  carries its tag. `NodesAreUsed` excepts such nodes (`Miscopied`), and them alone; without
  the exception TLC refutes it in four states (prepare, verify, attach).
* **A vetoed plan can win.** `plan.rs:1057-1059` has one sort "last regardless"; where no
  judge answers, a readable plan has the same key (veto, 0), and `plan.rs:1184` gives the
  tie to the earlier of the two. `WinnerIsBestPlan` allows this one case, and the
  assumption `SilenceTies` in `MCNarrativeStage` shows that it arises.
* **A malformed entity empties its text.** `synthesis.rs:1460` (and `:1736` for gaps) reads
  it with `unescape().unwrap_or_default()` and goes on: a closed claim with a bare `&` in
  its text is dropped, sources and quotes with it. `ReadsWhatWasWritten` is about the
  claims whose text can be unescaped. `graph.rs:389`, `:976` and `:1055` read nodes the
  same way; there the garbled quote or source is one that no text or paper has.
* **An indexed paper may have an abstract for its first chunk.** A lane that probed before
  the promotion replaces chunk 0 afterwards (`Stands`).
* **Ids of nodes repeat** (`graph.rs:937-1012`, `1100-1115`). The later node of an id can
  be named by no reference (`IdsNameOneNode`).

Noticed while reading, not checked by a run:

*Lifecycle and configuration.* A checkpoint of another code version is restored
without complaint (`checkpoint_store.rs:70`, `P:2202`); the resume hint is printed
although `record_run_start` failed (`P:1653`, `1960`, `2168`; `HintWorks` excepts
it); two processes share the name of the temporary output file (`main.rs:512-527`).
`with_profile` does not stamp the profile on the stage configuration for v2, so v2
runs use v1's personas, as a comment there says; `TtdConfig::with_v3_profile`
overwrites a configured time limit, `EngineConfig::with_profile` does not; nothing
in espigue sets `resolve_without_retrieval`, so the rewriting of narratives cannot
be reached in the shipped program.

*Stage loop.* The budget guard skips the final evaluation that
`run.rs:75-76` promises for every trajectory and reports nothing, so an unjudged
draft can win (269-276). `max_llm_calls` is said to be per stage (`config.rs:93`)
and is counted per trajectory; the plateau rule in `config.rs:103-104` is not the
one of `run.rs:667-676`, which stops before it takes the refined draft it paid for.

*Store and clients.* A promotion that fails after its first write takes the abstract
along, contrary to `lit_intake.rs:547-548`. An ar5iv 404 ends as "indexed" without
full text (`arxiv.rs:248-266`, `lit_intake.rs:225`). An arXiv paper without an
abstract has an empty chunk as its section "Abstract", so the fallback for papers
without one does not fire. A database made with another embedding dimension opens
without complaint; every insert and search then fails, lane by lane.
`get_papers_batch` indexes past its list when an answer has more entries than were
asked for. `live_lane_error_is_transient` searches the whole message with the quoted
body: a 4xx whose body contains "http 5" is retried. Documents named `local:` are
valid sources only while they are members of the panel (`term_sheet.rs:499-515`).

*Gateway and OpenRouter.* `seed.rs:110-131` calls arXiv without the gateway; late
wake-ups can bring two calls closer than the interval (only the rate on the whole is
bounded). `Retry-After` is called a floor and is capped
(`retry.rs:194-209`). `embed_inner` does not compare the number of rows with the
number of texts.

*Retrieval and panel.* Traversal caches thin records of candidates (no authors,
venue or PDF address) under the key that the batch lookup reads, so with a working
cache the batch call is never made and thin records are never replaced, contrary to
`lit_explore.rs:754` and `s2_enrichment.rs:337-339`. `papers_discovered` counts a
seed visited twice; `ExploreStats.notes` is only logged; a winner from the cache is
not ingested when the budget ends at the batch call. The conversions of arXiv ids
disagree on version suffixes; rows of type arXiv and S2 with one id are not merged,
while two internal hits of one paper are, contrary to the comment in
`lit_fusion.rs`; a duplicate index of the reranker emits a hit twice. The first
panel may contain an expert with empty prose. Seeds use the web in a corpus-only
review. Notices of fusion and topicality are lost when `build_panel` or the engine
fails, and those of the first attempt on a resume; degradations of gap retrieval are
discarded. `P` (near 1440) slices texts by bytes.

*Graph stage.* The lit prompt of the relations shows `source=` and `target=`, its reader
knows `from` and `to` (`stages/graph.rs:423-490`): in the default dialect every edge is
dropped. Extractions and regenerated graphs carry no edges; merges in a `<resolution>`
are not applied. The lit patch prompt asks for a whole graph, so the first tier never
succeeds; of a patch only added nodes are applied (937-1012). The refresh drops a member
of the panel whose only text was that of its hit. v1's prompts show ids and claims
alone, though judges are asked about grounding and relations and a regeneration for
verbatim quotes. Parts that the lit extraction asks for have no reader.

*Synthesis stage.* `<patch/>` is documented as a no-op and fails; a claim that a
patch adds loses its sources and is called "divided" in the lit dialect too; the lit
patch prompt shows the narrative alone, its first tier always fails, and each
resolution costs two calls where `run.rs` books one. The heuristic adds every
retrieved id as a source, its comment says notes. v1 quotes inside a source without
an attribute of their own are dropped. The veto is not told when all judges fail.

*Post-processing.* The provenance guard (`post_process.rs:1099-1117`) looks at the
revision before ids are filtered and lets a revision without claims pass, so a synthesis
with sources can be replaced by one without. A second verification reads outside text
again and stamps "absent" when that read fails or is capped, so honest statuses flip,
contrary to 164-165. In v1, ids outside the panel count as experts. The revision's
prompts do not show all the fields that its comment says survive.

*Plan and narrative.* `plan.rs:1137` lists when the tournament errs; a winner that
cannot be parsed is missing there. A winner replaced by a redraft is neither winner nor
runner-up. "C1", "C01" and "C+1" evade the cap per id and count
once for coverage; an id listed three times in one section is vetoed as three
sections. The coverage stated in the prompt is computed in f32 (16 of 25 where the
lint accepts 15). The redraft prompt says "best of 5" for the single planner too.
The sectioned merge shows no preamble, no unplanned or repeated section and possibly
no part of the best candidate, which its prompt names as the anchor; another heading
in an answer replaces the plan's. Headings are compared exactly by the merge gate
and without case by the lints. Nested and mixed brackets survive sanitising; papers
with one author-year label collapse into one citation; a claim without sources
leaves its marker in print. Judges' prose "on a scale of 1 to 5 I give 4" reads as 1.

## 6. What is not modelled

*Wording.* A prompt is the form it has (section 2); what it says beside, the
personas, sampling temperatures and the layout of the outputs are text. The contents
of model answers are nondeterministic choices over what the code does next.
*Numbers and similarity.* Embeddings, distances, snapping of quotes and token
overlap are constant relations or orders. f32 sums are whole hundredths.
*I/O.* HTTP and SQLite are a status, a body that is whole, cut, garbled or too long,
or the success or failure of a statement. The code version of checkpoints is left
out of `RunLifecycle` since the code does not act on it. A file is written and
renamed in one step, so two processes inside that step do not meet (the one hazard
in `PROJECT.json` without a property).
*Parts of stages.* `render_synthesis_quote_resolve`, `build_graph_evidence` and the
form of the revision's prompt; node references inside stage 2, where they pass
through (they are `PostProcess`'s); the lints after the narrative's merge, which only
log; `enrich_citations` and `resolve_quotes`, which are stubs.
*Whole components.* Bibliography (`bib_store.rs`: insert-or-ignore, of which a run
reads back a count), the embedding cache and Jina's embeddings (not opened by
espigue), credibility tiers, the adapters of `retrieval.rs`, `base`'s types,
examples and backfill tools. `PROJECT.json` gives each one's reason.

## 7. Plan

Done, in this order: `RunLifecycle` with `RunLedger`, `TtdStage`, `LitIntake`,
`LitGateway`, `PostProcess`, each with its runs and proofs; then `GraphForms` and
`GraphStage`, `SynthesisXml` and `SynthesisStage`, `PlanTournament` and
`NarrativeStage` with `EngineConfig`, `Fitness` and `CitationText`, and
`ReviewPanel` with its five modules of operators. Next:

1. Proofs about the operators of `LitChunking` and `LitClients`, written by positions.
2. Renaming files as two steps, with the name of the temporary file shared by two
   processes: the hazard that no property covers.
3. The graph, synthesis and narrative stages as instances behind `TtdStage`, with
   trajectories that interleave, and shown to implement its abstract operations.
4. The bibliography, and the embedding cache once espigue opens one.
