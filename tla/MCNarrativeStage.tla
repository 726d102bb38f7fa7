--------------------------- MODULE MCNarrativeStage ---------------------------
(* Three claims, the last without a source; two papers share a label.      *)
EXTENDS NarrativeStage

CONSTANTS intro, body, s1, s2, s3, smith, jones

MCClaims == <<{s1, s2}, {s3}, {}>>
MCLabel  == [s \in {s1, s2, s3} |-> IF s = s3 THEN jones ELSE smith]

C(n)     == PlanId("C", n, "plain")
Section(h, ids) == [heading |-> h, ids |-> ids]
Plan(terms, sections) == [archetype |-> "mece-taxonomy", focal |-> TRUE, terms |-> terms, threads |-> TRUE, sections |-> sections]

Skeleton  == Plan(TRUE, <<Section(intro, <<C(1)>>), Section(body, <<C(2), PlanId("T", 1, "plain")>>)>>)
Flat      == Plan(TRUE, <<>>)
Crowded   == Plan(TRUE, <<Section(intro, <<C(1), C(1), C(1), C(2)>>)>>)
Thin      == Plan(TRUE, <<Section(intro, <<C(3)>>), Section(None, <<C(1), C(2)>>)>>)
Termless  == Plan(FALSE, <<>>)
Garbage   == [Flat EXCEPT !.archetype = "hybrid"]
MCPlans   == {Skeleton, Flat, Crowded, Thin, Termless, Garbage}

\* A draft that gives what its prompt asks for and keeps the rules it states passes
\* the lints, if it lists no id twice in one section (plan.rs:781: the contract
\* cannot drift from the check); and one that breaks a rule does not.
Keeps(p, rules) ==
  LET Spread(id) == {i \in DOMAIN p.sections : id \in Range(p.sections[i].ids)}
      All        == UNION {Range(p.sections[i].ids) : i \in DOMAIN p.sections}
  IN /\ All \subseteq rules.ids /\ \A id \in All : Cardinality(Spread(id)) <= rules.most
     /\ Cardinality({id \in All : id.kind = "C"}) >= rules.least
OnceEach == {<<>>} \cup {<<c>> : c \in {C(1), C(4), PlanId("T", 1, "plain"), PlanId("T", 2, "plain")}}
             \cup {<<C(1), C(2)>>, <<C(2), C(3)>>}
Drawn    == {Plan(TRUE, <<Section(intro, x), Section(body, y), Section(intro, z)>>) : x, y, z \in OnceEach}
ASSUME RulesAreTheLints ==
  /\ \A p \in Drawn, r \in RulesStated("sectioned") : Keeps(p, r) <=> LintsPass(Parsed(p))
  /\ "sections" \notin Elements("concise") /\ RulesStated("concise") = {} /\ LintsPass(Parsed(Flat))

\* With all its judges silent a plan that passed the lints ties with a vetoed one that
\* was drafted before it, and loses (against plan.rs:1057-1059); with one score it wins.
ASSUME SilenceTies ==
  /\ Key(FALSE, NoScores) = Key(TRUE, NoScores)
  /\ BestPlace(<<Key(TRUE, NoScores), Key(FALSE, NoScores)>>) = 1
  /\ \A d \in DOMAIN PlanWeights :
       BestPlace(<<Key(TRUE, NoScores), Key(FALSE, [NoScores EXCEPT ![d] = <<1>>])>>) = 2

MCJudges == {Tagged(9), Worded(<<3, 5>>)}

Mark(ids) == <<Open>> \o ids \o <<Close>>
Long     == <<Title(intro)>> \o Mark(<<Id(1), Id(9)>>) \o <<Stop, Title(body)>> \o Mark(<<Id(2)>>) \o <<Stop>>
Nested   == <<Title(intro), Open>> \o Mark(<<Id(9)>>) \o <<Stop, Title(body)>> \o Mark(<<Odd(1), Id(3)>>)
Broken   == <<Title(intro), Open, Id(1), Stop, Close>> \o Mark(<<Id(8)>>) \o Mark(<<Id(2), Id(1)>>)
MCTexts  == {Long, Nested, Broken}
MCSectionTexts == {Mark(<<Id(1), Id(7)>>) \o <<Stop>> \o Mark(<<Id(2)>>), <<Title(body), Open, Id(1)>>, <<>>}
\* The program's runs, with and without the tournament and resumed after the last
\* stage; and what the library offers beside: rewriting without retrieval, and one
\* planner in place of five.
Asked(p, on, done) == [scope |-> "web", profile |-> p, merger |-> "chosen", tournament |-> on, restored |-> done]
MCRuns    == {PipelineConfig(Asked(p, TRUE, {})) : p \in PromptProfiles}
               \cup {PipelineConfig(Asked("v3", FALSE, {})), PipelineConfig(Asked("v3", TRUE, StageNames))}
MCConfigs == MCRuns \cup {[r EXCEPT !.ttd.resolving = TRUE] : r \in MCRuns}
                    \cup {[r EXCEPT !.ttd.planMode = "single"] : r \in {PipelineConfig(Asked("v3", TRUE, {}))}}

\* The builder calls may be made in any order: two of them that follow one another
\* may be swapped, whichever came before.
ASSUME CallsCommute ==
  \A w \in {w \in Options : w.restored \in {{}, {"graph"}}} :
    LET all == Range(PipelineCalls(w))
    IN \A before \in SUBSET all : \A c, b \in all \ before :
         LET at == FoldLeft(Apply, New, SelectSeq(PipelineCalls(w), LAMBDA z : z \in before))
         IN Apply(Apply(at, c), b) = Apply(Apply(at, b), c)

\* Only the first stage asks the web, and not when the corpus is all that is wanted;
\* all stages speak one dialect (config.rs:122, retrieval.rs:33-46); the first two
\* stop where they find nothing.
ASSUME MachinesAgree ==
  \A w \in Options :
    LET c == PipelineConfig(w) IN
    /\ \A r \in MachinesRun(c) :
         /\ r.retriever = "live" => r.label = "graph" /\ w.scope = "web"
         /\ r.profile = w.profile /\ r.prompts[1] = w.profile
         /\ r.config.resolving = FALSE /\ r.config.question
    /\ {r.label : r \in MachinesRun(c)} = StageNames \ w.restored
    /\ w.profile = "v3" => c.ttd = [WithV3Profile(c.ttd) EXCEPT !.question = TRUE]
    /\ Personas(c.ttd) = (IF w.profile = "v3" THEN "reviewers" ELSE "delphi")

AllPlanFaults == {"draft", "judge", "redraft"}
AllFaults     == {"draft", "critique", "refine", "merge"}
=============================================================================
