----------------------------- MODULE GraphStage -----------------------------
(***************************************************************************)
(* Stage 1, inside one trajectory (ttd/stages/graph.rs) and behind it      *)
(* (ttd/engine.rs): one extraction per expert runs under a semaphore, the  *)
(* graphs are merged in the order in which they come back, one call        *)
(* relates claims of different experts, quotes are checked; every denoise  *)
(* step then weaves retrieved papers in, by a patch, else by regenerating  *)
(* the graph, else by a heuristic that cannot fail.  When the machine is   *)
(* done the engine checks the quotes again, against the store, and         *)
(* refreshes the panel for stage 2.                                        *)
(*                                                                         *)
(* The model's answers are drawn from constant sets: which nodes an        *)
(* extraction lists (after a truncated answer, those that were closed),    *)
(* which of the nodes a regeneration keeps.  The order of the nodes is     *)
(* left out, but not the order in which the experts answer: it decides     *)
(* which of two nodes of one id is kept.  What survives a restatement is   *)
(* what the form of the prompt shows and the reader knows (GraphForms).    *)
(***************************************************************************)
EXTENDS GraphForms

CONSTANTS
  Expert,     \* the panel's papers, the inputs of generate
  Paper,      \* every paper a node may cite
  Permits,    \* EXTRACT_CONCURRENCY
  Passage,    \* what may be quoted
  SameLetters,\* pairs of passages that differ in case only
  Prose,      \* [Paper -> SUBSET Passage]: the panel's text of a paper
  Stored,     \* [Paper -> SUBSET Passage]: what the store holds of it
  Id,         \* node ids
  Scope,      \* [Expert -> [Id -> Id]]: the expert's prefix put before an id
  HeuristicId,\* Seq(Id): heuristic_n0, heuristic_n1, ...
  NewId,      \* the id a model gives to a node it adds, new or in use
  Guesses,    \* what it writes of a node's parts that it is not shown, or of a new
              \* node's quote: [known, quote]
  Answers,    \* [Expert -> SUBSET of the sets of [id, quote]]
  Related,    \* the edges a model may state between claims
  Rounds,     \* denoise steps
  Cap,        \* REFRESH_PANEL_CAP
  Profiles,   \* subset of {"v1", "lit"}
  Faults,     \* what may go wrong
  None

FaultKind == {"extract", "resolution", "judge", "identify", "patch", "regen", "reverify", "refresh"}
Status == {"none", "unverified", "verified", "paraphrased", "absent"}

ASSUME GraphAssumption ==
  /\ IsFiniteSet(Paper) /\ Expert # {} /\ Expert \subseteq Paper
  /\ Permits \in Nat \ {0} /\ Rounds \in Nat /\ Cap \in Nat \ {0}
  /\ SameLetters \subseteq Passage \X Passage
  /\ Prose \in [Paper -> SUBSET Passage] /\ Stored \in [Paper -> SUBSET Passage]
  /\ Scope \in [Expert -> [Id -> Id]] /\ HeuristicId \in [1 .. Cardinality(Paper) -> Id] /\ NewId \in Id
  /\ \A k, l \in DOMAIN HeuristicId : HeuristicId[k] = HeuristicId[l] => k = l
  /\ \A e \in Expert : Answers[e] \subseteq SUBSET [id : Id, quote : Passage \cup {None}]
  /\ Related \subseteq Id \X Id
  /\ Guesses \subseteq [known : BOOLEAN, quote : Passage \cup {None}] /\ Guesses # {}
  /\ Profiles \subseteq {"v1", "lit"} /\ Faults \subseteq FaultKind
  /\ None \notin Passage /\ None \notin Paper

Node == [id : Id, source : Paper \cup {None}, quote : Passage \cup {None},
         status : Status, round : 0 .. Rounds]

VARIABLES
  profile,    \* the prompt dialect
  phase,      \* where the trajectory, then the engine, stands
  task,       \* [Expert -> state of its extraction]
  nodes,      \* the graph's nodes
  edges,      \* the graph's edges
  heard,      \* history: the ids the experts' answers listed
  round,      \* denoise steps taken
  told,       \* what the step's gap prompt carries of the judges' and the veto's verdict
  regenerated,\* history: some step replaced the graph
  retrieved,  \* the papers the gap-fill brought for the step at hand
  looked,     \* history: the engine has checked the quotes against the store
  panel       \* the panel of stage 2

vars == <<profile, phase, task, nodes, edges, heard, round, told, regenerated, retrieved, looked, panel>>

Phase == {"extract", "relate", "ready", "judged", "patch", "regen", "machine_done", "reverified",
          "done", "failed", "aborted"}

TypeOK ==
  /\ profile \in {"v1", "lit"} /\ phase \in Phase
  /\ task \in [Expert -> {"waiting", "running", "answered", "failed"}]
  /\ nodes \subseteq Node /\ edges \subseteq Id \X Id
  /\ heard \subseteq Id /\ round \in 0 .. Rounds
  /\ told \in {"none", "nothing", "feedback", "hard fail"} /\ regenerated \in BOOLEAN /\ looked \in BOOLEAN
  /\ retrieved \subseteq Paper /\ panel \subseteq Paper

Ids(ns)     == {n.id : n \in ns}
In(state)   == {e \in Expert : task[e] = state}
MayFail(f)  == f \in Faults

-----------------------------------------------------------------------------
(* What the dialect's prompts ask for, and what the readers take.          *)

lit            == profile = "lit"
ExtractionForm == IF lit THEN ExtractionLit ELSE ExtractionV1
ResolutionForm == IF lit THEN ResolutionLit ELSE ResolutionV1
GapsForm       == IF lit THEN GapsLit ELSE GapsV1
PatchForm      == IF lit THEN PatchLit ELSE PatchV1
FullForm       == IF lit THEN FullLit ELSE FullV1

\* apply_resolution_xml: an edge without from, to and type is passed over.
EdgesRead(stated) == IF CarriesEdges(ResolutionForm, ReadsResolution) THEN stated ELSE {}
\* try_apply_patch: without a <patch> in the answer nothing is applied.
PatchAsked == HasRoot(PatchForm, ReadsPatch)

\* verify_quote_status
QuoteStatus(quote, text) ==
  IF text = {} THEN "unverified"
  ELSE IF quote \in text THEN "verified"
  ELSE IF \E p \in text : <<p, quote>> \in SameLetters THEN "paraphrased"
  ELSE "absent"

\* parse_extraction_xml: every id gets the expert's prefix, unless it has it.
Extracted(e, answer) ==
  {[id |-> Scope[e][a.id], source |-> e, status |-> "none", round |-> 0,
    quote |-> IF Carries(ExtractionForm, ReadsExtraction, "quote") THEN a.quote ELSE None] :
     a \in answer}

\* merge_graphs, one graph at a time in the order they were pushed: of the nodes
\* of one id the first is kept (within an answer, whichever the model wrote first).
MergesAll(ns, more) == {ns \cup more}  \* Mutant of Merges: no deduplication.
Merges(ns, more) ==
  LET new == {n \in more : n.id \notin Ids(ns)}
  IN  {ns \cup pick : pick \in {p \in SUBSET new :
        /\ Ids(p) = Ids(new)
        /\ \A m, n \in p : m.id = n.id => m = n}}

\* verify_graph_quotes: against the panel's text; a source outside it has none.
Verified(ns) ==
  {[n EXCEPT !.status =
      IF n.quote = None THEN "unverified"
      ELSE QuoteStatus(n.quote, IF n.source \in Expert THEN Prose[n.source] ELSE {})] : n \in ns}

-----------------------------------------------------------------------------
Init ==
  /\ profile \in Profiles
  /\ phase = "extract"
  /\ task = [e \in Expert |-> "waiting"]
  /\ nodes = {} /\ edges = {} /\ heard = {}
  /\ round = 0 /\ told = "none" /\ regenerated = FALSE /\ retrieved = {} /\ looked = FALSE /\ panel = {}

\* The spawned task gets one of the semaphore's permits.
Acquire(e) ==
  /\ phase = "extract" /\ task[e] = "waiting"
  /\ Cardinality(In("running")) < Permits
  /\ task' = [task EXCEPT ![e] = "running"]
  /\ UNCHANGED <<profile, phase, nodes, edges, heard, round, told, regenerated, retrieved, looked, panel>>

\* extract_single answered: join_next pushes its graph, the permit is dropped.
Extract(e) ==
  /\ phase = "extract" /\ task[e] = "running"
  /\ \E answer \in Answers[e] :
       LET new == Extracted(e, answer) IN
       /\ nodes' \in Merges(nodes, new)
       /\ heard' = heard \cup Ids(new)
  /\ task' = [task EXCEPT ![e] = "answered"]
  /\ UNCHANGED <<profile, phase, edges, round, told, regenerated, retrieved, looked, panel>>

\* The spawn failed or panicked; its siblings go on.
ExtractFail(e) ==
  /\ MayFail("extract")
  /\ phase = "extract" /\ task[e] = "running"
  /\ task' = [task EXCEPT ![e] = "failed"]
  /\ UNCHANGED <<profile, phase, nodes, edges, heard, round, told, regenerated, retrieved, looked, panel>>

\* All tasks are joined: an error if no expert was heard; the only expert's graph is
\* verified at once, several experts' claims are related first.
Joined ==
  /\ phase = "extract" /\ In("waiting") \cup In("running") = {}
  /\ IF In("answered") = {} THEN phase' = "failed" /\ nodes' = nodes
     ELSE IF Cardinality(Expert) > 1 THEN phase' = "relate" /\ nodes' = nodes
     ELSE phase' = "ready" /\ nodes' = Verified(nodes)
  /\ UNCHANGED <<profile, task, edges, heard, round, told, regenerated, retrieved, looked, panel>>

\* resolve_relationships: the answer's edges are added (what was closed before a
\* truncation); when the call fails the merged graph stands.  The quotes are checked.
RelateDropping ==  \* Mutant of Relate: a failed call leaves an empty graph.
  /\ phase = "relate"
  /\ phase' = "ready"
  /\ \/ \E stated \in SUBSET {r \in Related : {r[1], r[2]} \subseteq Ids(nodes)} :
          /\ edges' = edges \cup EdgesRead(stated)
          /\ nodes' = Verified(nodes)
     \/ MayFail("resolution") /\ nodes' = {} /\ UNCHANGED edges
  /\ UNCHANGED <<profile, task, heard, round, told, regenerated, retrieved, looked, panel>>
Relate ==
  /\ phase = "relate"
  /\ phase' = "ready"
  /\ nodes' = Verified(nodes)
  /\ \/ \E stated \in SUBSET {r \in Related : {r[1], r[2]} \subseteq Ids(nodes)} :
          /\ edges' = edges \cup EdgesRead(stated)
     \/ MayFail("resolution") /\ UNCHANGED edges
  /\ UNCHANGED <<profile, task, heard, round, told, regenerated, retrieved, looked, panel>>

-----------------------------------------------------------------------------
(* A denoise step: the draft is judged, the gap prompt is told so, and     *)
(* what was retrieved for its gaps is woven in; with nothing retrieved the *)
(* draft stays.  The patch is tried only when the configuration says       *)
(* incremental_resolve.                                                    *)

\* traceability_veto_graph: every node must have a source that is a paper's id.
Vetoed(ns) == ns = {} \/ \E n \in ns : n.source = None

\* What the gap prompt is told: nothing unless a judge answered.
Feedback(scored, vetoed) ==
  IF ~scored \/ "feedback" \notin GapsForm.shows THEN "nothing"
  ELSE IF vetoed THEN "hard fail" ELSE "feedback"

\* One judge per weighted dimension.
Judges == IF lit THEN {JudgeLit(d) : d \in V2Dims}
          ELSE {JudgeV1(RubricV1(d)) : d \in DOMAIN GraphWeights}

\* evaluate: a judge that fails has no score (here all of them do or none); the veto of
\* the lit dialect looks at the graph itself.
Evaluate ==
  /\ phase = "ready" /\ round < Rounds
  /\ phase' = "judged"
  /\ \E answered \in {Judges} \cup (IF MayFail("judge") THEN {{}} ELSE {}) :
       told' = Feedback(answered # {}, lit /\ Vetoed(nodes))
  /\ UNCHANGED <<profile, task, nodes, edges, heard, round, regenerated, retrieved, looked, panel>>

\* identify, and the gap-fill of the run.
Identify ==
  /\ phase = "judged"
  /\ retrieved' \in SUBSET Paper
  /\ round' = round + 1
  /\ phase' \in IF retrieved' = {} THEN {"ready"} ELSE {"patch", "regen"}
  /\ told' = IF retrieved' = {} THEN "none" ELSE told
  /\ UNCHANGED <<profile, task, nodes, edges, heard, regenerated, looked, panel>>

\* The call failed: the error ends the stage.
IdentifyFail ==
  /\ phase = "judged" /\ MayFail("identify")
  /\ phase' = "aborted"
  /\ UNCHANGED <<profile, task, nodes, edges, heard, round, told, regenerated, retrieved, looked, panel>>

\* No steps, time or budget left: the trajectory's draft is final, and merge returns the
\* best one as it is.
Settle ==
  /\ phase = "ready"
  /\ phase' = "machine_done"
  /\ UNCHANGED <<profile, task, nodes, edges, heard, round, told, regenerated, retrieved, looked, panel>>

\* try_apply_patch: the nodes of <add> are appended, without their quotes and without
\* looking at their ids; <modify>, <remove> and the patch's edges are passed over.
Added ==
  {{}} \cup {{n} : n \in [id : {NewId}, source : retrieved \cup {None}, quote : {None},
                         status : {"none"}, round : {round}]}

Patch ==
  /\ phase = "patch" /\ PatchAsked
  /\ \E more \in Added : nodes' = nodes \cup more
  /\ phase' = "ready" /\ told' = "none" /\ retrieved' = {}
  /\ UNCHANGED <<profile, task, edges, heard, round, regenerated, looked, panel>>

\* The call failed, or its answer holds no well-formed <patch>: the graph is
\* regenerated.
PatchRetry ==  \* Mutant of PatchFail: the patch is asked for again.
  /\ phase = "patch" /\ (MayFail("patch") \/ ~PatchAsked)
  /\ UNCHANGED vars
PatchFail ==
  /\ phase = "patch" /\ (MayFail("patch") \/ ~PatchAsked)
  /\ phase' = "regen"
  /\ UNCHANGED <<profile, task, nodes, edges, heard, round, told, regenerated, retrieved, looked, panel>>

\* parse_full_graph_xml: the answer's nodes replace the graph's, their statuses
\* forgotten; no edge is read.  Of a node that the model keeps it copies what it is
\* shown; it guesses a source that it is not shown (or leaves it out), and a quote.
Restated(n, guess) ==
  [n EXCEPT !.status = "none",
            !.source = IF Restates(FullForm, ReadsFull, "source") \/ guess.known THEN @ ELSE None,
            !.quote  = IF Restates(FullForm, ReadsFull, "quote") THEN @ ELSE guess.quote]

Regenerate ==
  /\ phase = "regen" /\ HasRoot(FullForm, ReadsFull)
  /\ phase' = "ready" /\ told' = "none" /\ retrieved' = {} /\ regenerated' = TRUE
  /\ \E kept \in SUBSET nodes, guess \in Guesses, source \in retrieved \cup {None} :
       nodes' = {Restated(n, guess) : n \in kept}
                \cup {[id |-> NewId, source |-> source, quote |-> guess.quote, status |-> "none",
                       round |-> round]}
  /\ edges' = {}
  /\ UNCHANGED <<profile, task, heard, round, looked, panel>>

\* The orders in which the gap-fill may list the papers.
Orders(ps) == {f \in [ps -> 1 .. Cardinality(ps)] : \A p, q \in ps : f[p] = f[q] => p = q}

\* apply_heuristic_resolve, when that call failed or cannot be parsed: a node for
\* every retrieved paper, numbered from 0.
HeuristicVerified ==  \* Mutant of Heuristic: the nodes count as verified.
  /\ phase = "regen" /\ MayFail("regen")
  /\ \E place \in Orders(retrieved) :
       nodes' = nodes \cup {[id |-> HeuristicId[place[p]], source |-> p, quote |-> None,
                            status |-> "verified", round |-> round] : p \in retrieved}
  /\ phase' = "ready" /\ told' = "none" /\ retrieved' = {}
  /\ UNCHANGED <<profile, task, edges, heard, round, regenerated, looked, panel>>
Heuristic ==
  /\ phase = "regen" /\ MayFail("regen")
  /\ \E place \in Orders(retrieved) :
       nodes' = nodes \cup {[id |-> HeuristicId[place[p]], source |-> p, quote |-> None,
                            status |-> "unverified", round |-> round] : p \in retrieved}
  /\ phase' = "ready" /\ told' = "none" /\ retrieved' = {}
  /\ UNCHANGED <<profile, task, edges, heard, round, regenerated, looked, panel>>

-----------------------------------------------------------------------------
(* The engine, behind the machine.                                         *)

\* What the refresher finds for the ids it is asked for: blank ids are passed over,
\* at most Cap of the others looked up, those without text dropped.
Looked(ids) == {s \in SUBSET (ids \ {None}) :
                  Cardinality(s) = IF Cardinality(ids \ {None}) > Cap
                                   THEN Cap ELSE Cardinality(ids \ {None})}
WithText(ids) == {p \in ids : Stored[p] # {}}

\* Every quoted node is checked against the stored text of its source; a source that
\* is not returned makes its quotes absent.
Recheck(ns, found) ==
  {IF n.quote = None THEN n
   ELSE [n EXCEPT !.status = IF n.source \in found THEN QuoteStatus(n.quote, Stored[n.source])
                             ELSE "absent"] : n \in ns}

Reverify ==
  /\ phase = "machine_done"
  /\ LET quoted == {n.source : n \in {m \in nodes : m.quote # None}} IN
       \E asked \in Looked(quoted) : nodes' = Recheck(nodes, WithText(asked))
  /\ phase' = "reverified" /\ looked' = TRUE
  /\ UNCHANGED <<profile, task, edges, heard, round, told, regenerated, retrieved, panel>>

\* No refresher, or the lookup failed: the statuses stay.
ReverifyFail ==
  /\ phase = "machine_done" /\ MayFail("reverify")
  /\ phase' = "reverified"
  /\ UNCHANGED <<profile, task, nodes, edges, heard, round, told, regenerated, retrieved, looked, panel>>

\* The panel of stage 2: the first panel's papers, then the graph's sources, up to the
\* cap, those with text in the store; the first panel when none has.
RefreshUnordered ==  \* Mutant of Refresh: the cap may fall on the first panel's papers.
  /\ phase = "reverified"
  /\ \E asked \in Looked(Expert \cup {n.source : n \in nodes}) :
       panel' = IF WithText(asked) = {} THEN Expert ELSE WithText(asked)
  /\ phase' = "done"
  /\ UNCHANGED <<profile, task, nodes, edges, heard, round, told, regenerated, retrieved, looked>>
Refresh ==
  /\ phase = "reverified"
  /\ \E asked \in Looked(Expert \cup {n.source : n \in nodes}) :
       /\ asked \subseteq Expert \/ Expert \subseteq asked
       /\ panel' = IF WithText(asked) = {} THEN Expert ELSE WithText(asked)
  /\ phase' = "done"
  /\ UNCHANGED <<profile, task, nodes, edges, heard, round, told, regenerated, retrieved, looked>>

RefreshFail ==
  /\ phase = "reverified" /\ MayFail("refresh")
  /\ panel' = Expert
  /\ phase' = "done"
  /\ UNCHANGED <<profile, task, nodes, edges, heard, round, told, regenerated, retrieved, looked>>

Terminated == phase \in {"failed", "aborted", "done"} /\ UNCHANGED vars

Step ==
  \/ \E e \in Expert : Acquire(e) \/ Extract(e) \/ ExtractFail(e)
  \/ Joined \/ Relate \/ Evaluate \/ Identify \/ IdentifyFail \/ Settle
  \/ Patch \/ PatchFail \/ Regenerate \/ Heuristic
  \/ Reverify \/ ReverifyFail \/ Refresh \/ RefreshFail

Next == Step \/ Terminated

Spec == Init /\ [][Next]_vars

\* The runtime polls every task that is ready, and every call to the model returns
\* within its client's timeout and retries.
FairSpec == Spec /\ WF_vars(Step)

-----------------------------------------------------------------------------
\* At most Permits extractions are out at any time (EXTRACT_CONCURRENCY), whatever the
\* order in which the spawned tasks come to run.
PermitsHold == Cardinality(In("running")) <= Permits

\* Sibling survival: whatever an expert's answer listed is in the merged graph under
\* its id, whichever of its siblings failed, came first or named the same id, until a
\* regeneration replaces the graph; and a draft fails only when no expert answered.
NothingHeardIsLost ==
  /\ ~regenerated => heard \subseteq Ids(nodes)
  /\ phase = "failed" => In("answered") = {}

\* Stages 2 and 3 resolve a node's id to the first node of the list that has it
\* (post_process.rs:768).  A step that does not replace the graph adds at its end: a
\* node's place in the list is the step that brought it.
ResolvedTo(i) == {n \in nodes : n.id = i /\ \A m \in nodes : m.id = i => n.round <= m.round}

\* Until a regeneration replaces the graph, every id is resolved to one node, and one
\* that an expert's answer listed to a node that the extraction brought: the merge
\* removes what two experts' prefixes make equal, a step gives no id twice, and neither
\* a patch that uses an id again nor the heuristic of a later step, which numbers from
\* 0 again, can capture it.  The later node of a repeated id is one nobody can name.
IdsNameOneNode ==
  ~regenerated =>
    \A i \in heard \cup Ids(nodes) : \E n \in nodes :
      ResolvedTo(i) = {n} /\ (i \in heard => n.round = 0)

\* "verified" is never a stale stamp.  Until the engine has looked, a verified quote is
\* in the panel's text of its source, so patched, regenerated and heuristic nodes are
\* not verified; afterwards it is in the stored text, whatever the panel's said before.
\* Nor is a verdict stale: while a step's papers are woven in, a hard fail that the gap
\* prompt was told of is one of the graph at hand.
StatusIsEarned ==
  /\ \A n \in nodes : n.status = "verified" =>
       /\ n.quote # None
       /\ IF looked THEN n.source \in Paper /\ n.quote \in Stored[n.source]
          ELSE n.source \in Expert /\ n.quote \in Prose[n.source]
  /\ phase \in {"patch", "regen"} /\ told # "nothing" =>
       (told = "hard fail" <=> lit /\ ~(nodes # {} /\ \A n \in nodes : n.source \in Paper))

\* The refresh only adds to the first panel what has text, and takes from it only what
\* the store holds no text of, or what exceeds the cap.
PanelSurvives ==
  phase = "done" =>
    /\ panel # {}
    /\ Cardinality(Expert) <= Cap => WithText(Expert) \subseteq panel
    /\ panel \ Expert \subseteq {n.source : n \in nodes}

\* Stage 1 ends: with a graph and a panel, or with an error.
StageEnds == <>(phase \in {"failed", "aborted", "done"})
=============================================================================
