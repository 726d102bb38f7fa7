--------------------------- MODULE SynthesisStage ---------------------------
(***************************************************************************)
(* Stage 2, inside its trajectories (ttd/stages/synthesis.rs).  A draft is *)
(* written and read; every denoise step has it judged, asks for gaps, and  *)
(* with what was retrieved for them resolves them: by a patch, else by a   *)
(* full regeneration, else by a heuristic.  The merger is given the        *)
(* candidates and the evidence for what they cite: the quotes of the       *)
(* graph's verified nodes, and the candidates' own quotes of other papers. *)
(* Trajectories share nothing (TtdStage interleaves them), so they follow  *)
(* one another here.                                                       *)
(***************************************************************************)
EXTENDS SynthesisXml

CONSTANTS
  Panel,      \* the source ids of stage 2's panel
  Papers,     \* other ids of the shape of a paper's id (arxiv:, s2:)
  Answers,    \* what a model may have in mind: sequences of claims
  Drafts,     \* trajectories
  Rounds,     \* denoise steps
  QuoteCap,   \* MAX_QUOTES_PER_SOURCE
  Graphs,     \* the graphs of stage 1: sets of [source, quoted, verified]
  Profiles,   \* subset of {"v1", "lit"}
  Copies,     \* whether a model keeps, of a claim it restates, all that it is shown
  GapAnswers, \* what it answers to the gap prompt: sequences of [description, query]
  Faults

FaultKind == {"draft", "judge", "identify", "patch", "full", "merge", "malformed", "noBlock"}

ASSUME SynthesisAssumption ==
  /\ Panel \subseteq Source /\ Papers \subseteq Source \ Panel
  /\ Answers \subseteq Seq(Raw)
  /\ None \notin Topic \cup Source \cup Vocabulary \cup {Dissent} \cup Range(TextTags)
  /\ Garbled \subseteq Topic \cup Passage \cup {Dissent}
  /\ Garbled \cap (Vocabulary \cup SupportLevels \cup {"odd", "prose", "open question"}) = {}
  /\ \A raws \in Answers : \A raw \in Range(raws) : IsFiniteSet(raw.sources) /\ IsFiniteSet(raw.quoted)
  /\ \A gaps \in GapAnswers : gaps \in Seq([description : Topic \cup {None}, query : Topic \cup {None}])
  /\ Drafts \in Nat \ {0} /\ Rounds \in Nat /\ QuoteCap \in Nat \ {0}
  /\ Graphs \subseteq SUBSET [source : Panel, quoted : BOOLEAN, verified : BOOLEAN]
  /\ Profiles \subseteq {"v1", "lit"} /\ Copies \in BOOLEAN /\ Faults \subseteq FaultKind

VARIABLES
  profile,    \* the prompt dialect
  graph,      \* stage 1's
  phase,      \* what the stage does next
  doc,        \* the trajectory's artifact
  answer,     \* history: <<what the last answer that was read into doc said>>, <<>> after a step of the code's own
  round,      \* denoise steps taken
  eval,       \* the last evaluation of the trajectory: None, or what the judges said
  heard,      \* history: what the gap prompt was told of it
  retrieved,  \* the papers found for the step's gaps
  candidates, \* the trajectories' final artifacts
  evidence    \* the quotes of papers outside the graph that the merger is shown

vars == <<profile, graph, phase, doc, answer, round, eval, heard, retrieved, candidates, evidence>>

lit == profile = "lit"
MayFail(f) == f \in Faults
ValidId(s) == s \in Panel \cup Papers  \* is_valid_source_id

Phase  == {"draft", "evaluate", "identify", "patch", "full", "merge", "done", "failed"}
Quote == [source : Source, text : {<<p>> : p \in Passage}]

TypeOK ==
  /\ profile \in {"v1", "lit"} /\ graph \in Graphs /\ phase \in Phase
  /\ doc.claims \subseteq [topic : {<<t>> : t \in Topic}, level : Vocabulary \cup {None},
                           support : SupportLevels \cup {None}, sources : SUBSET Source, quotes : SUBSET Quote,
                           counter : SUBSET {<<Dissent>>}]
  /\ round \in 0 .. Rounds /\ heard \in {"nothing", "feedback", "hard fail"}
  /\ eval \in [scored : BOOLEAN, vetoed : BOOLEAN] \cup {None}
  /\ retrieved \subseteq Source /\ evidence \subseteq Quote

Texts(d)   == {c.topic : c \in d.claims}
Named(d,t) == CHOOSE c \in d.claims : c.topic = t

-----------------------------------------------------------------------------
(* Answering and reading.                                                  *)

\* A model that copies restates a claim with what the form shows of it.
Obeys(form, raw) ==
  Copies /\ <<raw.topic>> \in Texts(doc) =>
    /\ "sources" \in form.shows => Named(doc, <<raw.topic>>).sources \subseteq raw.sources
    /\ "support" \in form.shows => Named(doc, <<raw.topic>>).support = raw.support
    /\ "agreement" \in form.shows => Named(doc, <<raw.topic>>).level = raw.agreement

\* How far an answer can be read: to its end, or to a malformed place.
ReadableTo(events) == IF MayFail("malformed") THEN 1 .. Len(events) ELSE {Len(events)}

\* parse_synthesis_xml of an answer that has the block, with what the answer told.
Forms == {DraftGraphLit, DraftPlainLit, ResolveLit, MergerLit, DraftPlainV1, DraftGraphV1, FullV1, MergerV1}
Readings ==
  [l \in BOOLEAN |-> [form \in Forms |-> [raws \in Answers |->
     LET events == Written(form, raws)
     IN  {<<Parsed(l, events, n), Told(l, form, raws, n)>> : n \in ReadableTo(events)}]]]

\* The artifact is replaced by what was read.
Read(form) ==
  \E raws \in Answers : \E reading \in Readings[lit][form][raws] :
    /\ \A i \in DOMAIN raws : Obeys(form, raws[i])
    /\ doc' = reading[1] /\ answer' = <<reading[2]>>

Init ==
  /\ profile \in Profiles /\ graph \in Graphs
  /\ phase = "draft" /\ doc = NoDoc /\ answer = <<>>
  /\ round = 0 /\ eval = None /\ heard = "nothing" /\ retrieved = {}
  /\ candidates = <<>> /\ evidence = {}

\* generate: with the graph its prompt, else the plain one.
DraftForm(withGraph) ==
  IF lit THEN IF withGraph THEN DraftGraphLit ELSE DraftPlainLit
  ELSE IF withGraph THEN DraftGraphV1 ELSE DraftPlainV1

Generate ==
  /\ phase = "draft" /\ phase' = "evaluate"
  /\ \E withGraph \in BOOLEAN : Read(DraftForm(withGraph))
  /\ UNCHANGED <<profile, graph, round, eval, heard, retrieved, candidates, evidence>>

\* The call failed or its answer has no <synthesis> block.
GenerateFail ==
  /\ MayFail("draft") \/ MayFail("noBlock")
  /\ phase = "draft" /\ phase' = "failed"
  /\ UNCHANGED <<profile, graph, doc, answer, round, eval, heard, retrieved, candidates, evidence>>

-----------------------------------------------------------------------------
(* A denoise step.                                                         *)

\* traceability_veto_synthesis
Vetoed(d) == d.claims = {} \/ \E c \in d.claims : ~\E s \in c.sources : ValidId(s)

\* One judge per weighted dimension.
Judges == IF lit THEN {JudgeLit(d) : d \in V2Dims} ELSE JudgesV1

\* evaluate: a judge that fails has no score (here all of them do or none); the veto
\* looks at the draft itself.
EvaluateFirst ==  \* Mutant of Evaluate: a trajectory is judged once.
  /\ phase = "evaluate" /\ round < Rounds
  /\ phase' = "identify" /\ answer' = <<>>
  /\ \E answered \in {Judges} \cup (IF MayFail("judge") THEN {{}} ELSE {}) :
       eval' = IF eval = None THEN [scored |-> answered # {}, vetoed |-> lit /\ Vetoed(doc)] ELSE eval
  /\ UNCHANGED <<profile, graph, doc, round, heard, retrieved, candidates, evidence>>
Evaluate ==
  /\ phase = "evaluate" /\ round < Rounds
  /\ phase' = "identify" /\ answer' = <<>>
  /\ \E answered \in {Judges} \cup (IF MayFail("judge") THEN {{}} ELSE {}) :
       eval' = [scored |-> answered # {}, vetoed |-> lit /\ Vetoed(doc)]
  /\ UNCHANGED <<profile, graph, doc, round, heard, retrieved, candidates, evidence>>

\* identify: the prompt carries the judges' feedback, unless none of them answered.
GapsForm == IF lit THEN GapsLit ELSE GapsV1
Feedback == IF ~eval.scored \/ "feedback" \notin GapsForm.shows THEN "nothing" ELSE IF eval.vetoed THEN "hard fail" ELSE "feedback"

\* heuristic_identify, when no gap was named or read.  That the areas of agreement
\* outnumber those of disagreement is left to chance.
HeuristicGaps(d, lopsided) ==
  \/ \E c \in d.claims : Cardinality(c.sources) = 1
  \/ \E c \in d.claims : c.level = "consensus" /\ c.counter = {}
  \/ lopsided
  \/ d.uncertainties = {}

\* What may be read of the gap prompt's answer; nothing when it has no <gaps> block.
GapReadings ==
  UNION {{GapsParsed(GapsWritten(gaps), n) : n \in ReadableTo(GapsWritten(gaps))} : gaps \in GapAnswers}
  \cup (IF MayFail("noBlock") THEN {<<>>} ELSE {})

\* With gaps and something found for them the draft is resolved.
Identify ==
  /\ phase = "identify"
  /\ heard' = Feedback
  /\ \E named \in {gaps # <<>> : gaps \in GapReadings}, lopsided \in BOOLEAN :
       retrieved' \in IF named \/ HeuristicGaps(doc, lopsided) THEN SUBSET (Panel \cup Papers) ELSE {{}}
  /\ IF retrieved' = {} THEN round' = round + 1 /\ phase' = "evaluate"
     ELSE round' = round /\ phase' = "patch"
  /\ UNCHANGED <<profile, graph, doc, answer, eval, candidates, evidence>>

IdentifyFail ==
  /\ MayFail("identify") /\ phase = "identify"
  /\ phase' = "failed"
  /\ UNCHANGED <<profile, graph, doc, answer, round, eval, heard, retrieved, candidates, evidence>>

\* apply_synthesis_patch: the claims of <add> whose text is read are appended with it alone;
\* modify and remove are passed over.
Patched(d, texts) ==
  [d EXCEPT !.claims = @ \cup {[NoClaim EXCEPT !.topic = <<t>>, !.level = "divided"] :
                                  t \in {u \in texts : Legible(u) /\ <<u>> \notin Texts(d)}}]

\* The first tier.  The lit dialect's prompt asks for a whole <synthesis> here too.
PatchForm == IF lit THEN ResolveLit ELSE PatchV1
PatchAnswered ==
  /\ phase = "patch" /\ PatchForm.root = "patch"
  /\ \E texts \in SUBSET Topic : doc' = Patched(doc, texts)
  /\ phase' = "evaluate" /\ round' = round + 1
  /\ UNCHANGED <<profile, graph, answer, eval, heard, retrieved, candidates, evidence>>

\* No <patch> block in the answer.
PatchUnread ==
  /\ PatchForm.root # "patch" \/ MayFail("noBlock")
  /\ phase = "patch" /\ phase' = "full"
  /\ UNCHANGED <<profile, graph, doc, answer, round, eval, heard, retrieved, candidates, evidence>>

\* The second tier: the regenerated artifact replaces the draft.
Regenerate ==
  /\ phase = "full"
  /\ Read(IF lit THEN FullLit ELSE FullV1)
  /\ phase' = "evaluate" /\ round' = round + 1
  /\ UNCHANGED <<profile, graph, eval, heard, retrieved, candidates, evidence>>

\* The third: what was retrieved becomes a source of every claim that had one.
SupportedMeanwhile(d, more) ==  \* Mutant of Supported: the rest of the claims are left out.
  [d EXCEPT !.claims = {[c EXCEPT !.sources = @ \cup more] : c \in {k \in @ : Cardinality(k.sources) = 1}}]
Supported(d, more) ==
  [d EXCEPT !.claims = {IF Cardinality(c.sources) = 1 THEN [c EXCEPT !.sources = @ \cup more] ELSE c : c \in @}]
Heuristic ==
  /\ MayFail("noBlock") /\ phase = "full"
  /\ doc' = Supported(doc, retrieved) /\ answer' = <<>>
  /\ phase' = "evaluate" /\ round' = round + 1
  /\ UNCHANGED <<profile, graph, eval, heard, retrieved, candidates, evidence>>

\* A call of either tier failed: the error ends the stage.
ResolveFail ==
  /\ phase \in {"patch", "full"} /\ MayFail(phase)
  /\ phase' = "failed"
  /\ UNCHANGED <<profile, graph, doc, answer, round, eval, heard, retrieved, candidates, evidence>>
-----------------------------------------------------------------------------
\* The trajectory's last draft is a candidate; the next trajectory begins.
Finish ==
  /\ phase = "evaluate" /\ round = Rounds
  /\ candidates' = Append(candidates, doc)
  /\ phase' = IF Len(candidates) + 1 = Drafts THEN "merge" ELSE "draft"
  /\ round' = 0 /\ doc' = NoDoc /\ answer' = <<>> /\ eval' = None /\ heard' = "nothing" /\ retrieved' = {}
  /\ UNCHANGED <<profile, graph, evidence>>

\* build_graph_evidence_with_sections: the sources whose nodes are verified and quoted.
anchored == {n.source : n \in {m \in graph : m.verified /\ m.quoted}}

\* build_retrieved_evidence: which of a source's quotes are kept depends on the order
\* of the candidates, which is left out.
Offered == {q \in UNION {c.quotes : c \in UNION {candidates[i].claims : i \in DOMAIN candidates}} :
              q.source \notin anchored /\ ValidId(q.source)}
CarriedInAll ==  \* Mutant of Carried: the bound counts the quotes of all sources.
  {kept \in SUBSET Offered : IF Cardinality(Offered) <= QuoteCap THEN kept = Offered
                             ELSE Cardinality(kept) = QuoteCap}
Carried ==
  {kept \in SUBSET Offered : \A s \in Source :
     LET all == {q \in Offered : q.source = s}
         its == {q \in kept : q.source = s}
     IN  IF Cardinality(all) <= QuoteCap THEN its = all ELSE Cardinality(its) = QuoteCap}

\* merge: v1's merger sees no evidence.
Merge ==
  /\ phase = "merge" /\ phase' = "done"
  /\ evidence' \in IF lit THEN Carried ELSE {{}}
  /\ Read(IF lit THEN MergerLit ELSE MergerV1)
  /\ UNCHANGED <<profile, graph, round, eval, heard, retrieved, candidates>>

MergeFail ==
  /\ MayFail("merge") \/ MayFail("noBlock")
  /\ phase = "merge" /\ phase' = "failed"
  /\ UNCHANGED <<profile, graph, doc, answer, round, eval, heard, retrieved, candidates, evidence>>

Returned == phase \in {"done", "failed"} /\ UNCHANGED vars

Next ==
  \/ Generate \/ GenerateFail \/ Evaluate \/ Identify \/ IdentifyFail \/ PatchAnswered \/ PatchUnread
  \/ Regenerate \/ Heuristic \/ ResolveFail \/ Finish \/ Merge \/ MergeFail \/ Returned

Spec == Init /\ [][Next]_vars

\* Every call returns or fails, and the code goes on.
FairSpec == Spec /\ WF_vars(Next)

-----------------------------------------------------------------------------
\* What the parser makes of an answer is what there was to read in it, up to the place
\* where it breaks off: no field of a claim reaches the next one, a claim that was closed
\* is not lost to what comes after it, and a text with a malformed entity costs itself
\* alone.  That text is lost without a word (synthesis.rs:1460): of a claim it is the
\* whole claim, sources and quotes with it.
ReadsWhatWasWritten == answer # <<>> => doc.claims = answer[1]

\* The merger drops what it has no evidence for (the comment on build_retrieved_evidence):
\* so every paper a candidate quotes is in the evidence, from the graph or by the
\* candidate's own quotes, never both, and no id that is no paper's.
EvidenceIsComplete ==
  phase = "done" /\ lit =>
    LET quoted == {q.source : q \in UNION {c.quotes : c \in UNION {candidates[i].claims : i \in DOMAIN candidates}}}
        shown  == {q.source : q \in evidence}
    IN  /\ quoted \cap (Panel \cup Papers) \subseteq anchored \cup shown
        /\ shown \cap anchored = {} /\ shown \subseteq Panel \cup Papers
        /\ \A s \in shown : Cardinality({q \in evidence : q.source = s}) <= QuoteCap

\* A claim of the draft, with its sources, its quotes and its levels, is lost only to a
\* regeneration that was read: no failure on the ladder, and neither patch nor
\* heuristic, takes one away.
Keeps(k, c) ==
  /\ k.topic = c.topic /\ c.sources \subseteq k.sources
  /\ k.quotes = c.quotes /\ k.level = c.level /\ k.support = c.support
FallbackKeepsClaims ==
  phase \in {"identify", "patch", "full"} /\ answer' = <<>> =>
    \A c \in doc.claims : \E k \in doc'.claims : Keeps(k, c)
ClaimsOutliveFallbacks == [][FallbackKeepsClaims]_vars

\* A draft whose claims cannot be traced to papers is resolved only after the gap
\* prompt was told so, whenever a judge answered: the veto is of this draft, not of an
\* earlier one.
VetoIsHeard ==
  phase \in {"patch", "full"} /\ lit /\ eval.scored =>
    (heard = "hard fail" <=>
       ~(doc.claims # {} /\ \A c \in doc.claims : c.sources \cap (Panel \cup Papers) # {}))

\* "Field survival guarantee: instructs the full v2 claim schema so
\* support_level/lineage/gaps survive the wholesale replacement" (lit_review.rs): a
\* claim that a regeneration restates keeps its support level and the papers it cites.
RegenerationKeepsFields ==
  phase = "full" /\ lit =>
    \A c \in doc.claims, k \in doc'.claims :
      k.topic = c.topic => k.support = c.support /\ c.sources \subseteq k.sources
FieldsSurviveRegeneration == [][RegenerationKeepsFields]_vars
=============================================================================
