-------------------------- MODULE MCSynthesisStage --------------------------
(* One panel paper, one paper from outside, one working label that is no    *)
(* paper's id; three texts of claims, one of them with a bare &; two        *)
(* passages a source may be quoted by, one of them garbled too.             *)
EXTENDS SynthesisStage

CONSTANTS t1, t2, t3, p1, x1, label, qa, qb

Claim(topic, sources, quoted, agreement, support, counter) ==
  [topic |-> topic, sources |-> sources, quoted |-> quoted, agreement |-> agreement,
   support |-> support, counter |-> counter]

One   == Claim(t1, {p1}, {<<p1, qa>>, <<p1, qb>>}, "consensus", "established", TRUE)
Both  == Claim(t2, {p1, x1}, {<<x1, qa>>, <<x1, qb>>, <<p1, qb>>}, None, None, FALSE)
Label == Claim(t2, {label}, {<<label, qa>>}, "odd", "odd", FALSE)
Blank == Claim(None, {x1}, {<<x1, qa>>}, None, "emerging", TRUE)

Amp   == Claim(t3, {p1}, {<<p1, qa>>}, "divided", "contested", TRUE)

MCGarbled == {t3, qb}
MCAnswers == {<<One, Both>>, <<Amp, Label>>, <<Blank, One>>}
Loose == {Claim(t1, s, {}, None, v, FALSE) : s \in {{p1}, {x1}}, v \in {"established", "emerging"}}
LooseAnswers == {<<c>> : c \in Loose}
MCGraphs == {{[source |-> p1, quoted |-> TRUE, verified |-> v]} : v \in BOOLEAN}
AllFaults == FaultKind

Gap(description, query) == [description |-> description, query |-> query]
MCGapAnswers == {<<>>, <<Gap(None, t1)>>, <<Gap(t1, t3), Gap(t3, t2), Gap(t2, None)>>}

\* Every weighted dimension has its judge; the weights sum to one.
ASSUME
  /\ {form.root : form \in JudgesV1} = DOMAIN SynthesisWeights
  /\ V2Dims = DOMAIN V2SynthesisWeights
  /\ SumsToOne(SynthesisWeights) /\ SumsToOne(V2SynthesisWeights)

\* The reader knows one vocabulary of support levels: who is asked for one is shown it.
ASSUME \A form \in Forms : "support" \in form.asks => "vocabulary" \in form.shows

\* What is read of a gap answer is what was closed of it: every gap that has a legible
\* description, in order, each with a query; nothing of one gap reaches the next.
ASSUME
  \A gaps \in UNION {[1 .. k -> {Gap(d, q) : d, q \in {t1, t3, None}}] : k \in 0 .. 3} :
    LET events == GapsWritten(gaps)
        Words(w) == IF w = None THEN <<>> ELSE Unescaped(w)
        Kept(k) == SelectSeq(SubSeq(gaps, 1, k), LAMBDA gap : Words(gap.description) # <<>>)
    IN  \A end \in DOMAIN events :
          LET kept == Kept(Cardinality({i \in 1 .. end : events[i] = Close("gap")}))
          IN  GapsParsed(events, end) =
                [i \in DOMAIN kept |-> [description |-> Words(kept[i].description),
                                       query |-> Words(IF Words(kept[i].query) = <<>> THEN kept[i].description
                                                       ELSE kept[i].query)]]
=============================================================================
