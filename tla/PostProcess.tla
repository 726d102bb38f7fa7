----------------------------- MODULE PostProcess -----------------------------
(***************************************************************************)
(* The post-processing of a merged synthesis, run once between the         *)
(* synthesis stage and its checkpoint.  Claims, sources and quotes come    *)
(* from a model and are believed only after mechanical checks: source ids  *)
(* are normalised and filtered, agreement levels recomputed, quotes        *)
(* compared with the stored text of the source they cite, quotes of graph  *)
(* nodes attached where a claim has none.  If a member of the panel is     *)
(* cited nowhere, a revision is asked for; it replaces the synthesis, and  *)
(* the same checks run over it.                                            *)
(*                                                                         *)
(* Text is abstracted to the set of passages a source contains, and the    *)
(* similarity of passages and claims to two constant relations.            *)
(***************************************************************************)
EXTENDS Integers, FiniteSets

CONSTANTS Id,        \* source ids a model may write
          Shaped,    \* those of the form arxiv:... or s2:...
          System,    \* the synthetic ids that are no experts
          Panel,     \* the panel of the stage
          Home,      \* the panel member an id extends, if any; else the id
          Passage,   \* passages a quote may consist of
          Near,      \* the passage a quote snaps to when it is not verbatim
          Abstract,  \* the passages of a source before its promotion ...
          Full,      \* ... and after it
          M,         \* graph nodes are 1..M; lower numbers match better
          Topic,     \* what claims say
          Like,      \* the nodes whose claim is close to a topic
          Draft,     \* the syntheses the merger and the revision may write
          Reports,   \* the sets of panel members they may write reports of
          Graphs,    \* the graphs considered
          RefreshCap,\* REFRESH_PANEL_CAP
          Profiles,  \* prompt profiles: "v1" or "lit" (v2 and v3)
          Faults,
          None

FaultKind == {"resolver", "revision", "promotion"}

ASSUME SourcesAssumption ==
  /\ IsFiniteSet(Id)
  /\ Shaped \subseteq Id
  /\ System \subseteq Id
  /\ Panel \subseteq Id
  /\ Home \in [Id -> Id]
  /\ \A id \in Id : Home[id] = id \/ Home[id] \in Panel
  /\ \A id \in Panel : Home[id] = id
  /\ Panel # {}

ASSUME TextAssumption ==
  /\ None \notin Passage \cup {"verified", "absent"}
  /\ Near \in [Passage -> Passage \cup {None}]
  /\ Abstract \in [Id -> SUBSET Passage]
  /\ Full \in [Id -> SUBSET Passage]
  /\ \A id \in Id : Home[id] # id => Abstract[id] = {} /\ Full[id] = {}
  /\ M \in Nat
  /\ Like \in [Topic -> SUBSET (1..M)]
  /\ RefreshCap \in Nat
  /\ Profiles \subseteq {"v1", "lit"}
  /\ Faults \subseteq FaultKind

Node == 1..M

\* A quote: where it is said to come from, its text, what the check found and
\* the graph node it is tagged with.
Status == {"verified", "absent", None}
Quote == [source : Id, text : Passage, status : Status, node : Node \cup {None}]

\* A claim.  Its level is agreement_level, which only the first profile uses.
Level == {"consensus", "majority", "divided", "minority", None}
Claim == [topic : Topic, sources : SUBSET Id, quotes : SUBSET Quote,
          refs : SUBSET Node, level : Level]

\* A node as the synthesis sees it: whose claim, its quote, and whether the
\* re-verification after the graph stage found the quote in the stored text.
GraphNode == [paper : Id, quote : Passage, verified : BOOLEAN]
Said(id) == Abstract[id] \cup Full[id]
Grounded(g) == \A n \in Node : g[n].verified => g[n].quote \in Said(g[n].paper)

ASSUME InputAssumption ==
  /\ \A draft \in Draft :
       /\ draft \subseteq Claim
       /\ \A c \in draft : \A q \in c.quotes : q.status = None
  /\ Reports \subseteq SUBSET Panel
  /\ \A g \in Graphs : g \in [Node -> GraphNode] /\ Grounded(g)

VARIABLES
  profile, \* of the run
  graph,   \* from the graph stage
  prose,   \* the text of the panel, read before the stage
  full,    \* the sources promoted to full text by now
  claims,  \* the synthesis ...
  reports, \* ... and the panel members it has a minority report of
  pc,      \* the step to take next
  round    \* 1, and 2 after the revision pass

vars == <<profile, graph, prose, full, claims, reports, pc, round>>
given == <<profile, graph, prose>>

Step == {"prepare", "verify", "attach", "reverify", "coverage", "minority", "done", "failed"}

TypeOK ==
  /\ profile \in Profiles
  /\ graph \in [Node -> GraphNode]
  /\ prose \in [Panel -> SUBSET Passage]
  /\ full \subseteq Shaped
  /\ claims \subseteq Claim
  /\ reports \subseteq Panel
  /\ pc \in Step
  /\ round \in {1, 2}

Init ==
  /\ profile \in Profiles
  /\ graph \in Graphs
  /\ full \in SUBSET Shaped
  /\ prose = [id \in Panel |-> IF id \in full THEN Full[id] ELSE Abstract[id]]
  /\ claims \in Draft
  /\ reports \in Reports
  /\ pc = "prepare"
  /\ round = 1
-----------------------------------------------------------------------------
At(here) == pc = here
Goto(there) == pc' = there

\* After the checks a revision is asked for once, then the end follows.
AfterChecks == IF round = 1 THEN "coverage" ELSE "minority"

Valid(id) == id \in Shaped \/ id \in Panel

\* Step 1, normalise_source_ids: an id that extends a panel member's becomes it.
Normalised(c) ==
  [c EXCEPT !.sources = {Home[id] : id \in c.sources},
            !.quotes = {[q EXCEPT !.source = Home[q.source]] : q \in c.quotes}]

\* strip_invalid_sources: only known sources stay, and only their quotes.
Stripped(c) ==
  [c EXCEPT !.sources = {id \in c.sources : Valid(id)},
            !.quotes = {q \in c.quotes : Valid(q.source)}]

\* Step 3, compute_agreement_levels, by the number of distinct experts; a
\* claim without any keeps the level the model gave it.
Experts(c) == c.sources \ System
LevelFor(n, size) ==
  IF 4 * n >= 3 * size THEN "consensus"
  ELSE IF 2 * n >= size THEN "majority"
  ELSE IF 20 * n >= 3 * size THEN "divided" ELSE "minority"
Levelled(c) ==
  IF Experts(c) = {} THEN c
  ELSE [c EXCEPT !.level = LevelFor(Cardinality(Experts(c)), Cardinality(Panel))]

\* Mutant of Prepared: levels are computed before the revision only.
Prepared_LevelledOnce(c) ==
  IF profile = "lit" THEN Stripped(Normalised(c))
  ELSE IF round = 1 THEN Levelled(Normalised(c)) ELSE Normalised(c)

Prepared(c) ==
  IF profile = "v1" THEN Levelled(Normalised(c)) ELSE Stripped(Normalised(c))

Prepare ==
  /\ At("prepare")
  /\ claims' = {Prepared(c) : c \in claims}
  /\ Goto("verify")
  /\ UNCHANGED <<given, full, reports, round>>
-----------------------------------------------------------------------------
\* Step 5, verify_synthesis_quotes.  Texts of the panel are at hand; other
\* cited sources are read from the store, at most RefreshCap of them, in no
\* particular order, and none if the read fails.
Outside == {q.source : q \in UNION {c.quotes : c \in claims}} \ Panel
Stored(id) == IF id \in full THEN Full[id] ELSE Abstract[id]

Answers ==
  (IF Cardinality(Outside) <= RefreshCap THEN {Outside}
   ELSE {got \in SUBSET Outside : Cardinality(got) = RefreshCap})
  \cup (IF "resolver" \in Faults THEN {{}} ELSE {})

TextOf(id, got) ==
  IF id \in Panel THEN prose[id] ELSE IF id \in got THEN Stored(id) ELSE {}

\* A quote that is not verbatim is replaced by the passage it paraphrases.
Stamped(q, text) ==
  IF q.text \in text THEN [q EXCEPT !.status = "verified"]
  ELSE IF Near[q.text] \in text THEN [q EXCEPT !.status = "verified", !.text = Near[q.text]]
  ELSE [q EXCEPT !.status = "absent"]

Verified(c, got) ==
  [c EXCEPT !.quotes = {Stamped(q, TextOf(q.source, got)) : q \in c.quotes}]

VerifyQuotes == \E got \in Answers : claims' = {Verified(c, got) : c \in claims}

\* Mutant of Verify: nothing is attached to what the revision wrote.
Verify_AttachOnce ==
  /\ At("verify")
  /\ VerifyQuotes
  /\ Goto(IF profile = "v1" \/ round = 2 THEN AfterChecks ELSE "attach")
  /\ UNCHANGED <<given, full, reports, round>>

Verify ==
  /\ At("verify")
  /\ VerifyQuotes
  /\ Goto(IF profile = "v1" THEN AfterChecks ELSE "attach")
  /\ UNCHANGED <<given, full, reports, round>>
-----------------------------------------------------------------------------
HasVerified(c) == \E q \in c.quotes : q.status = "verified"
FromNode(n, tag) == [source |-> graph[n].paper, text |-> graph[n].quote,
                     status |-> None, node |-> tag]
SameQuote(q, n) == q.source = graph[n].paper /\ q.text = graph[n].quote

\* attach_node_ref_quotes: a claim that refers to nodes and has no verified
\* quote takes over theirs, each quote once.
Missing(c) ==
  {n \in c.refs : /\ graph[n].verified
                  /\ \A q \in c.quotes : q.node # n /\ ~SameQuote(q, n)}
Floored(c) ==
  IF HasVerified(c) THEN c
  ELSE [c EXCEPT !.quotes = c.quotes \cup
         {FromNode(n, n) : n \in {m \in Missing(c) :
            \A k \in Missing(c) : k < m => graph[k] # graph[m]}}]

\* inherit_graph_quotes: a claim that refers to no node takes, for each of
\* its sources without a verified quote, the quote of the closest node.
Candidates(c, id) == {n \in Like[c.topic] : graph[n].paper = id /\ graph[n].verified}
Closest(c, id) == {n \in Candidates(c, id) : \A k \in Candidates(c, id) : n <= k}
Bare(c) == {id \in c.sources :
              \A q \in c.quotes : ~(q.source = id /\ q.status = "verified")}
Inherited(c) ==
  IF c.refs # {} THEN c
  ELSE [c EXCEPT !.quotes = c.quotes \cup
         {FromNode(n, None) : n \in {m \in UNION {Closest(c, id) : id \in Bare(c)} :
            \A q \in c.quotes : ~SameQuote(q, m)}}]

\* Mutant of Attach: the stamp of the graph is trusted.
Attach_Trusting ==
  /\ At("attach")
  /\ claims' = {Inherited(Floored(c)) : c \in claims}
  /\ Goto(AfterChecks)
  /\ UNCHANGED <<given, full, reports, round>>

\* Nothing is trusted transitively: what was attached is verified again.
Attach ==
  /\ At("attach")
  /\ claims' = {Inherited(Floored(c)) : c \in claims}
  /\ Goto(IF claims' # claims THEN "reverify" ELSE AfterChecks)
  /\ UNCHANGED <<given, full, reports, round>>

Reverify ==
  /\ At("reverify")
  /\ VerifyQuotes
  /\ Goto(AfterChecks)
  /\ UNCHANGED <<given, full, reports, round>>
-----------------------------------------------------------------------------
\* Step 6, check_expert_coverage and run_revision.  The revision replaces the
\* synthesis, unless it lost all sources; an answer without a synthesis leaves
\* the original in place.  Either way the checks run once more.
Uncited == Panel \ UNION {c.sources : c \in claims}

LosesSources(revised) ==
  /\ \E c \in claims : c.sources # {}
  /\ revised # {}
  /\ \A c \in revised : c.sources = {}

\* Mutant of Revise: the revised claims are verified, but not normalised.
Revise_Unprepared ==
  /\ At("coverage") /\ Uncited # {}
  /\ \/ UNCHANGED <<claims, reports>>
     \/ /\ claims' \in {revised \in Draft : ~LosesSources(revised)}
        /\ reports' \in Reports
  /\ Goto("verify")
  /\ round' = 2
  /\ UNCHANGED <<given, full>>

Revise ==
  /\ At("coverage") /\ Uncited # {}
  /\ \/ UNCHANGED <<claims, reports>>
     \/ /\ claims' \in {revised \in Draft : ~LosesSources(revised)}
        /\ reports' \in Reports
  /\ Goto("prepare")
  /\ round' = 2
  /\ UNCHANGED <<given, full>>

RevisionFails ==
  /\ At("coverage") /\ Uncited # {}
  /\ "revision" \in Faults
  /\ Goto("failed")
  /\ UNCHANGED <<given, full, claims, reports, round>>

Covered ==
  /\ At("coverage") /\ Uncited = {}
  /\ Goto("minority")
  /\ UNCHANGED <<given, full, claims, reports, round>>

\* Step 7, compute_minority_reports: members of the panel that only minority
\* claims cite get a report.
CitedBy(levels) == UNION {c.sources : c \in {d \in claims : d.level \in levels}}
Overlooked == (Panel \cap CitedBy({"minority"})) \ CitedBy(Level \ {"minority"})

Minority ==
  /\ At("minority")
  /\ reports' = IF profile = "v1" THEN reports \cup Overlooked ELSE reports
  /\ Goto("done")
  /\ UNCHANGED <<given, full, claims, round>>
-----------------------------------------------------------------------------
\* A promotion of the intake, detached from the run, ends: see LitIntake.
Promote(id) ==
  /\ "promotion" \in Faults
  /\ ~At("done") /\ ~At("failed")
  /\ full' = full \cup {id}
  /\ UNCHANGED <<given, claims, reports, pc, round>>

Returned ==
  /\ At("done") \/ At("failed")
  /\ UNCHANGED vars

Next ==
  \/ Prepare \/ Verify \/ Attach \/ Reverify
  \/ Revise \/ RevisionFails \/ Covered \/ Minority
  \/ \E id \in Shaped : Promote(id)
  \/ Returned

Spec == Init /\ [][Next]_vars
-----------------------------------------------------------------------------
\* The checks are over for now.
Checked == pc \in {"coverage", "minority", "done", "failed"}

\* What the sources a run could have read say: the panel's text is read once,
\* the rest of the store changes under the run.
Truth(id) == IF id \in Panel THEN prose[id] ELSE Said(id)

\* A quote that is stamped verified stands in the text of the source it is
\* attributed to, at every moment: neither the repeated normalisation, nor the
\* revision, nor quotes of graph nodes, nor a promotion in between bring in a
\* stamp that is not earned.  And when the checks end no quote is left that was
\* not looked up, though a revision and the graph bring in new ones.
StampsAreTrue ==
  \A c \in claims : \A q \in c.quotes :
    /\ q.status = "verified" => q.text \in Truth(q.source)
    /\ At("attach") \/ Checked => q.status # None

\* In the literature profiles no claim rests on an id that is neither a stored
\* document nor a member of the panel, nor on an extended id of a member, and
\* the only quotes of other ids are those of graph nodes.
SourcesAreKnown ==
  profile = "lit" /\ pc # "prepare" =>
    \A c \in claims :
      /\ \A id \in c.sources : Valid(id) /\ Home[id] = id
      /\ \A q \in c.quotes : Valid(q.source) \/ \E n \in Node : graph[n].paper = q.source

\* The node's quote, under whichever id normalisation leaves its source.
Copied(q, n) == Home[q.source] = Home[graph[n].paper] /\ q.text = graph[n].quote

\* Another quote stands under the node's tag: the model mis-copied it.
\* attach_node_ref_quotes takes the node as attached and goes on
\* (post_process.rs:777-783), although its comment (725-736) promises the node's quote
\* where the model "omitted or mis-copied" it.
Miscopied(c, n) == \E q \in c.quotes : q.node = n /\ ~Copied(q, n)

\* In the literature profiles no claim is left without a verified quote while
\* the graph has one to offer: the quote of every verified node it refers to
\* was tried, whatever else failed, and a claim that refers to none was given
\* that of the closest node for each bare source.  Not so, against the code's own
\* comment, for a node whose tag a mis-copied quote carries: that node's quote stays
\* out, the claim's other nodes are tried nevertheless.  This is for claims whose
\* quotes come from the panel: the text of other sources may differ between the two
\* verifications.
Used(c) ==
  (\A q \in c.quotes : q.source \in Panel) =>
    /\ HasVerified(c) \/ \A n \in c.refs : graph[n].verified /\ ~Miscopied(c, n) =>
         \E q \in c.quotes : Copied(q, n)
    /\ c.refs = {} => \A id \in c.sources : \A n \in Closest(c, id) :
         \E q \in c.quotes : q.source = id /\ (q.status = "verified" \/ SameQuote(q, n))

NodesAreUsed ==
  profile = "lit" /\ (At("reverify") \/ Checked) => \A c \in claims : Used(c)

\* In the first profile the level of a claim with experts is the one their
\* number gives, whatever label the merger or the revision wrote, and whoever
\* is cited by minority claims only is heard in a report of the result.
VotesAreCounted ==
  profile = "v1" =>
    /\ pc # "prepare" => \A c \in claims : Experts(c) # {} =>
         c.level = LevelFor(Cardinality(Experts(c)), Cardinality(Panel))
    /\ At("done") => \A id \in Panel :
         (\E c \in claims : id \in c.sources) =>
           id \in reports \/ \E c \in claims : id \in c.sources /\ c.level # "minority"

IInv == TypeOK /\ StampsAreTrue /\ SourcesAreKnown /\ NodesAreUsed /\ VotesAreCounted
=============================================================================
