---------------------------- MODULE MCReviewPanel ----------------------------
(* Five papers and a local document: a and b have an arXiv id, b and lone no   *)
(* abstract, f is far from the question.                                    *)
EXTENDS ReviewPanel

CONSTANTS a, b, sem, lone, f, doc, scan, quick, question

MCOnArxiv   == {a, b}
MCAbstracts == {a, sem, f}
MCCount     == (a :> 9) @@ (b :> 2) @@ (sem :> 5) @@ (lone :> 3) @@ (f :> 1)
MCSimilar   == (a :> 90) @@ (b :> 70) @@ (sem :> 60) @@ (lone :> 50) @@ (doc :> 40) @@ (scan :> 20) @@ (f :> 10)
MCSimilarRest == (a :> 65) @@ (b :> 30) @@ (sem :> 55) @@ (lone :> 5) @@ (doc :> 45) @@ (scan :> 5) @@ (f :> 5)
MCSearch    == (quick :> <<sem, a>>) @@ (question :> <<a>>)
MCReferences == (a :> <<f>>) @@ (b :> <<sem>>) @@ (sem :> <<None, b>>) @@ (lone :> <<>>) @@ (f :> <<>>)
MCCitations  == (a :> <<b, lone>>) @@ (b :> <<>>) @@ (sem :> <<>>) @@ (lone :> <<>>) @@ (f :> <<>>)
MCDecompositions == {<<quick>>, <<>>}

Asked == [blank |-> FALSE, topk |-> 2, files |-> <<>>, table |-> 0, dim |-> 2, scope |-> "corpus+web", profile |-> "V3LitReviewLong",
          seeds |-> <<>>, s2 |-> TRUE, warm |-> TRUE, rerank |-> TRUE, topicality |-> TRUE]
Seed(prefix, shape, p) == [blank |-> FALSE, prefix |-> prefix, shape |-> shape, of |-> p]
Seeds == <<Seed("arxiv", "arxiv", a), Seed("", "doi", a), [Seed("", "hash", lone) EXCEPT !.blank = TRUE],
           Seed("corpusid", "hash", lone)>>
MCOptions ==
  {Asked,
   [Asked EXCEPT !.blank = TRUE],
   [Asked EXCEPT !.files = <<doc, scan>>, !.scope = "corpus-only", !.topk = 9, !.profile = "V1Delphi"],
   [Asked EXCEPT !.table = 3, !.topk = 0, !.topicality = FALSE],
   [Asked EXCEPT !.s2 = FALSE, !.warm = FALSE, !.rerank = FALSE, !.topk = 9, !.profile = "V2LitReview"],
   [Asked EXCEPT !.seeds = Seeds],
   [Asked EXCEPT !.seeds = Seeds, !.scope = "corpus-only", !.topk = 0, !.s2 = FALSE]}

Word == <<"word">>
MCFileKind == (doc :> "text") @@ (scan :> "pdf")
MCFileText == (doc :> <<<<Word, <<>>, Word \o Word \o Word>>>>) @@ (scan :> <<<<<<"7", "references">>, Word>>>>)
MCHtml == (a :> [Unmarked EXCEPT !.sections = <<[heading |-> "1", paragraphs |-> <<Word, <<>>, Word>>]>>])
          @@ (b :> [Unmarked EXCEPT !.loose = <<Word \o Word \o Word>>])
MCPdfUrl   == (sem :> "https") @@ (lone :> "ftp") @@ (f :> "none")
MCPdfPages == (sem :> <<<<Word>>, <<<<"bibliography">>>>, <<Word>>>>)
\* Every short text keeps its words up to the references, in chunks of the right size.
Lines == {<<>>, Word, Word \o Word \o Word, <<"7", "references">>, <<"references">>, <<"word", "references">>}
SomeLines(n) == UNION {[1 .. k -> Lines] : k \in 0 .. n}
Documents == {<<l>> : l \in SomeLines(4)} \cup {<<l, k>> : l, k \in SomeLines(2)}
ASSUME ChunksKeepTheText ==
  \A pages \in Documents : WellCut(ChunkPlain(pages)) /\ Words(ChunkPlain(pages)) = Kept(pages)

MCArxivHits == <<a, None, b>>
MCS2Hits    == <<a, lone>>
MCHttp == {Reply(0, "whole", {}), Reply(200, "whole", {}), Reply(200, "garbled", {}), Reply(200, "cut", {}),
           Reply(404, "whole", {}), Reply(400, "whole", {"http 5"}), Reply(403, "long", {"http 5"}),
           Reply(429, "whole", {}), Reply(503, "declared", {})}
MCChat  == {Plain("ok"), Plain("bare"), Plain("lost"), Plain("refused"), Plain("garbled"), Limited(90),
            Answer("server", 0)}
MCEmbed == {Plain("ok"), Plain("lost"), Plain("refused")}
Row(i, low) == [index |-> i, low |-> low]
MCRerank == {<<>>, <<Row(2, FALSE), Row(1, FALSE)>>, <<Row(9, FALSE), Row(1, TRUE)>>,
             <<Row(1, TRUE), Row(2, TRUE), Row(3, TRUE), Row(4, TRUE), Row(5, TRUE)>>}
MCReplies == {{}, {1}, {2, 9}, 1 .. 9}
MCEnds == {[failed |-> TRUE, reasons |-> <<>>], [failed |-> FALSE, reasons |-> <<>>],
           [failed |-> FALSE, reasons |-> <<"guard", "guard", "bib", "call", "time">>]}
=============================================================================
