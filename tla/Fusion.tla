-------------------------------- MODULE Fusion --------------------------------
(***************************************************************************)
(* From what the three retrieval lanes found to the panel of a review:     *)
(* reciprocal rank fusion with the quality gate (search/src/lit_fusion.rs, *)
(* quality.rs), the cut of the reranker, the topicality gate (pipeline.rs) *)
(* and build_panel (orchestration/src/adapter).  A reason is a member of   *)
(* a set; no reason is {}.                                                 *)
(***************************************************************************)
EXTENDS Explore

CONSTANTS RrfK   \* the rank constant, 60 in the code

\* A hit: under which type the lane found it, the source, has it text of its own?
Hit(type, source, content) == [type |-> type, source |-> source, content |-> content]
Sources(hits) == {hits[i].source : i \in DOMAIN hits}

\* Hits are one row when type and source agree.  All shares 1 / (RrfK + rank)
\* are brought to one denominator.
SameRow(h, g) == h.type = g.type /\ h.source = g.source
MaxRank  == 6
Unit     == FoldSet(LAMBDA r, n : n * (RrfK + r), 1, 1 .. MaxRank)
Share(h, lane) == SumSet({Unit \div (RrfK + i) : i \in {j \in DOMAIN lane : SameRow(lane[j], h)}})
Score(h, lanes) == FoldSeq(LAMBDA lane, n : n + Share(h, lane), 0, lanes)

\* The first hit of a row gives it its text.
FirstRows(hits) == AtPlaces(hits, FirstPlaces(hits, SameRow))
\* fuse_rrf_three_lane: by score, ties in the order of internal, arXiv, S2.
FuseRrf(lanes) ==
  LET rows == FirstRows(lanes[1] \o lanes[2] \o lanes[3])
  IN ByScore(rows, [i \in DOMAIN rows |-> Score(rows[i], lanes)])

\* gate_fused: the floor of 0.30 of the best score, then the report on the rest.
\* The floor leaves the reason to the report: hits it removes are only logged.
AboveFloor(fused, lanes) ==
  AtPlaces(fused, {i \in DOMAIN fused : 10 * Score(fused[i], lanes) >= 3 * Score(fused[1], lanes)})
\* assess_quality and quality_degradation_reason; the two gates on diversity
\* apply from three hits on.
Mean48(hits, lanes) ==
  100 * FoldSeq(LAMBDA h, n : n + Score(h, lanes), 0, hits) >= 48 * Len(hits) * Score(hits[1], lanes)
Most(hits) == Max({Cardinality({i \in DOMAIN hits : hits[i].source = k}) : k \in Sources(hits)})
QualityReasons(hits, lanes) ==
  IF hits = <<>> THEN {"no hits"}
  ELSE {r \in {"mean", "concentration", "unique"} :
          \/ r = "mean" /\ ~Mean48(hits, lanes)
          \/ r = "concentration" /\ Len(hits) >= 3 /\ 10 * Most(hits) > 6 * Len(hits)
          \/ r = "unique" /\ Len(hits) >= 3 /\ Cardinality(Sources(hits)) < 3}
\* Nothing found and no lane at fault is a healthy answer.
GateReasons(fused, lanes, laneReasons) ==
  laneReasons \cup (IF fused = <<>> /\ laneReasons = {} THEN {}
                    ELSE QualityReasons(AboveFloor(fused, lanes), lanes))

\* rerank: one request without a retry; rows [index, low] outside of the documents
\* are dropped, the rest is in the order of the scores.  apply_rerank: the rows above
\* the floor in that order, then the hits without a row; nothing for an empty answer.
InRange(rows, hits) == AtPlaces(rows, {i \in DOMAIN rows : rows[i].index \in DOMAIN hits})
HitsAt(rows, hits) == [i \in DOMAIN rows |-> hits[rows[i].index]]
ApplyRerank(hits, rows) ==
  HitsAt(AtPlaces(rows, {i \in DOMAIN rows : ~rows[i].low}), hits)
    \o AtPlaces(hits, DOMAIN hits \ {rows[i].index : i \in DOMAIN rows})
RerankReasons(rows) == IF \E i \in DOMAIN rows : rows[i].low THEN {"rerank dropped"} ELSE {}

\* topicality_gate: the hits the reply names; all of them when it names none.
NamedBy(reply, hits) == reply \cap DOMAIN hits
OnTopic(hits, reply) == IF NamedBy(reply, hits) = {} THEN hits ELSE AtPlaces(hits, NamedBy(reply, hits))
TopicalityReasons(hits, reply) ==
  IF NamedBy(reply, hits) = {} THEN {"topicality kept all"}
  ELSE IF NamedBy(reply, hits) = DOMAIN hits THEN {} ELSE {"topicality dropped"}

-----------------------------------------------------------------------------
(* build_panel: one expert per source, in the order the hits came; its      *)
(* prose is what the store holds, else the text of the first hit.           *)

SameSource(h, g) == h.source = g.source
OnePerSource(hits) == AtPlaces(hits, FirstPlaces(hits, SameSource))
\* A chunk without text still has its heading: it is not taken for empty.
Prose(hit, store) ==
  IF store[hit.source] \in {"heading", "text", "full"} THEN store[hit.source]
  ELSE IF hit.content THEN "hit" ELSE "empty"
Expert(hit, store) == [id |-> hit.source, prose |-> Prose(hit, store)]
BuildPanel(hits, store) ==
  LET grouped == OnePerSource(hits) IN [i \in DOMAIN grouped |-> Expert(grouped[i], store)]
\* conservation_assert: no source is lost, none has two experts.
Conserved(hits, panel) ==
  LET ids == {panel[i].id : i \in DOMAIN panel}
  IN Cardinality(ids) = Cardinality(Sources(hits)) /\ Len(panel) = Cardinality(ids)

\* synthetic_hits_for_ids and panel_from_source_ids: experts from ids alone, those
\* without any text left out.  The refresh of stage 2 does the same up to its cap.
SyntheticHits(ids) == [i \in DOMAIN ids |-> Hit(ids[i].type, ids[i], FALSE)]
WithProse(experts) == AtPlaces(experts, {i \in DOMAIN experts : experts[i].prose # "empty"})
\* Mutant of PanelFromIds: the cap of the refresh holds for a resume, too.
PanelFromIds_Capped(ids, store) == WithProse(BuildPanel(SyntheticHits(Take(ids, 1)), store))
PanelFromIds(ids, store) == WithProse(BuildPanel(SyntheticHits(ids), store))
=============================================================================
