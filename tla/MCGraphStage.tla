----------------------------- MODULE MCGraphStage -----------------------------
(* Two experts and one paper from outside the panel, two denoise steps.  The   *)
(* prefix of e1 makes an id that e2's own prefix makes too, and its answer has *)
(* that id twice; e2's text is not in the store; the store has passage b of    *)
(* e1, the panel has not.  A model that adds a node uses an expert's id again, *)
(* and the heuristic of the second step numbers from h0 again.                 *)
EXTENDS GraphStage

CONSTANTS e1, e2, x1, a, b, A, n, e1_n, e2_n, h0, h1, h2

MCPassage == {a, b, A}
MCLetters == {<<a, A>>, <<A, a>>}
MCProse == [p \in Paper |-> IF p = x1 THEN {} ELSE {a}]
MCStored == [p \in Paper |-> CASE p = e1 -> {a, b} [] p = x1 -> {a} [] OTHER -> {}]
MCId == {n, e1_n, e2_n, h0, h1, h2}
MCScope == [e \in Expert |-> [i \in MCId |-> IF e = e1 /\ i # e2_n THEN e1_n ELSE e2_n]]
MCHeuristicId == SubSeq(<<h0, h1, h2>>, 1, Cardinality(Paper))

Says(i, quote) == [id |-> i, quote |-> quote]
MCAnswers == [e \in Expert |-> IF e = e1 THEN {{Says(n, A), Says(e2_n, a), Says(e2_n, b)}}
                                         ELSE {{Says(n, a)}}]
MCGuesses == {[known |-> TRUE, quote |-> a], [known |-> FALSE, quote |-> None]}
MCRelated == {<<e1_n, e2_n>>}
AllFaults == FaultKind

\* Every weighted dimension has its judge and its own rubric; the weights sum to one.
ASSUME
  /\ {JudgeV1(RubricV1(d)).root : d \in DOMAIN GraphWeights} = DOMAIN GraphWeights
  /\ {JudgeLit(d).root : d \in V2Dims} = DOMAIN V2GraphWeights
  /\ SumsToOne(GraphWeights) /\ SumsToOne(V2GraphWeights)
=============================================================================
