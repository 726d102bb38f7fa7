---------------------------- MODULE MCPostProcess ----------------------------
(* A panel of seven, all but the first local documents; two documents outside*)
(* it; an id that extends a member's; an invented and a system id.           *)
EXTENDS PostProcess

CONSTANTS p1, p2, Others, x1, x2, p1_c1, made_up, sys, a, b, near_a, t1, t2

MCId == {p1, p2, x1, x2, p1_c1, made_up, sys} \cup Others
MCHome == [id \in MCId |-> IF id = p1_c1 THEN p1 ELSE id]
MCNear == [p \in {a, b, near_a} |-> IF p = near_a THEN a ELSE None]
MCAbstract == [id \in MCId |-> CASE id \in {p1, x1} -> {a} [] id \in {p2, x2} -> {b}
                                 [] OTHER -> {}]
MCFull == [id \in MCId |-> CASE id = p1 -> {a, b} [] id \in {p2, x1, x2} -> {b}
                             [] OTHER -> {}]
MCLike == [t \in {t1, t2} |-> IF t = t1 THEN {1, 2} ELSE {}]

From(paper, quote, verified) == [paper |-> paper, quote |-> quote, verified |-> verified]
MCGraphs == {<<From(p1, a, TRUE), From(x1, a, TRUE)>>,
             <<From(p2, b, TRUE), From(p2, a, FALSE)>>,
             <<From(p2, b, TRUE), From(p2, b, TRUE)>>}

Says(source, text, node) == [source |-> source, text |-> text, status |-> None, node |-> node]
Wrote(topic, sources, quotes, refs, level) ==
  [topic |-> topic, sources |-> sources, quotes |-> quotes, refs |-> refs, level |-> level]

\* The rest of the panel: enough for one expert to be a minority.
Everyone == {p1, p2} \cup Others

MCDraft == {
  {},
  {Wrote(t1, Everyone \ {p2}, {}, {}, "minority"), Wrote(t2, {p2}, {}, {}, "consensus")},
  {Wrote(t1, {p1, p1_c1}, {Says(p1_c1, near_a, None)}, {}, "majority")},
  {Wrote(t1, Everyone \cup {x1}, {Says(x1, near_a, None), Says(x2, b, None)}, {}, None)},
  {Wrote(t1, {made_up}, {Says(made_up, a, None)}, {}, "consensus")},
  {Wrote(t2, Everyone, {Says(p1, b, 1)}, {1, 2}, "divided"), Wrote(t1, {p2}, {}, {}, None)},
  {Wrote(t1, {p1}, {Says(x1, a, None)}, {}, None), Wrote(t1, {p2}, {}, {2}, None)},
  {Wrote(t2, {}, {Says(p2, near_a, None)}, {2}, "majority"),
   Wrote(t1, {sys, p1_c1, made_up}, {Says(p2, b, None)}, {}, "consensus")}}
=============================================================================
