----------------------------- MODULE CitationText -----------------------------
(***************************************************************************)
(* The narrative's text, as far as the code reads it: headings, brackets,  *)
(* the claim ids in them, ends of sentences.  Three scanners read the      *)
(* markers [C1, C2]: sanitise_cx_citations before the text is saved, the   *)
(* reader of statements in the engine, and the renderer of author-year     *)
(* citations in the pipeline.                                              *)
(***************************************************************************)
EXTENDS Integers, Sequences, FiniteSets, SequencesExt, Places

CONSTANTS
  Claims,    \* the final synthesis: the set of source ids of each claim
  Label      \* the author-year label of each source id, or the id itself

\* Tokens.  Items between brackets are separated by commas, but what follows
\* an inner bracket belongs to the item in which that bracket stands.
Open == <<"[">>
Close == <<"]">>
Stop == <<".">>
Id(n)  == <<"id", n>>     \* C1: an id as the synthesis numbers it
Odd(n) == <<"odd", n>>    \* C01, C+1: read as a number, but no id
Title(h)  == <<"##", h>>  \* the line of a heading
Cite(labels) == <<"cite", labels>>

IsNumber(t) == t[1] \in {"id", "odd"}
IsTitle(t)  == t[1] = "##"
Known(t)    == t[1] = "id" /\ t[2] \in DOMAIN Claims

-----------------------------------------------------------------------------
(* Brackets as both readers of the engine find them: one that opens runs   *)
(* to the next "]", whatever it meets on the way.                          *)

CloseAfter(text, i) ==
  LET ends == {j \in i + 1 .. Len(text) : text[j] = Close}
  IN IF ends = {} THEN 0 ELSE CHOOSE j \in ends : \A k \in ends : j <= k
Opens(text, i) ==
  text[i] = Open /\ \A j \in 1 .. i - 1 : text[j] = Open => \E k \in j + 1 .. i - 1 : text[k] = Close
Brackets(text)  == {i \in DOMAIN text : Opens(text, i) /\ CloseAfter(text, i) > 0}
Within(text, i) == i + 1 .. CloseAfter(text, i) - 1
Markers(text) ==
  {i \in Brackets(text) : Within(text, i) # {} /\ \A k \in Within(text, i) : IsNumber(text[k])}

\* sanitise_cx_citations: a marker keeps the ids that exist, or goes.  A mutant
\* drops a marker as soon as one of its ids does not exist.
StaysStrict(text, i) == \A k \in Within(text, i) : Known(text[k])  \* Mutant of Stays
Stays(text, i) == \E k \in Within(text, i) : Known(text[k])
Dropped(text) ==
  UNION {IF Stays(text, i) THEN {k \in Within(text, i) : ~Known(text[k])} ELSE i .. CloseAfter(text, i)
         : i \in Markers(text)}
Sanitised(text) == AtPlaces(text, DOMAIN text \ Dropped(text))

-----------------------------------------------------------------------------
(* The engine's reader of statements.                                      *)

\* split_inclusive at the ends of sentences: where they begin, and how far they run.
Beginnings(text) == {i \in DOMAIN text : i = 1 \/ text[i - 1] = Stop}
EndOf(text, i) ==
  LET stops == {j \in i .. Len(text) : text[j] = Stop}
  IN IF stops = {} THEN Len(text) ELSE CHOOSE j \in stops : \A k \in stops : j <= k
SentenceAt(text, i) == SubSeq(text, i, EndOf(text, i))

ItemsRead(text, i) ==
  {text[k][2] : k \in {k \in Within(text, i) : Known(text[k]) /\ (text[k - 1] = Open => k - 1 = i)}}
ClaimRefs(sentence) == UNION {ItemsRead(sentence, i) : i \in Brackets(sentence)}

\* parse_narrative_statements: the sentences that refer to a claim.
Statements(text) ==
  LET read == [i \in DOMAIN text |-> [text |-> SentenceAt(text, i), refs |-> ClaimRefs(SentenceAt(text, i))]]
  IN AtPlaces(read, {i \in Beginnings(text) : read[i].refs # {}})

-----------------------------------------------------------------------------
(* The renderer of the pipeline: it tries every "[" up to the next "]".    *)

Union(seq) == UNION {seq[i] : i \in DOMAIN seq}
\* The sources a marker at place i stands for, {} if none stands there.
MarkedAt(text, i) ==
  IF text[i] = Open /\ \A k \in Within(text, i) : IsNumber(text[k]) /\ text[k][2] \in DOMAIN Claims
  THEN UNION {Claims[text[k][2]] : k \in Within(text, i)} ELSE {}
Labels(sources) == {Label[s] : s \in sources}
\* replace_markers.
Hidden(text) == UNION {i + 1 .. CloseAfter(text, i) : i \in {i \in DOMAIN text : MarkedAt(text, i) # {}}}
Rendered(text) ==
  LET marks == {i \in DOMAIN text : MarkedAt(text, i) # {}}
  IN AtPlaces([i \in DOMAIN text |-> IF i \in marks THEN Cite(Labels(MarkedAt(text, i))) ELSE text[i]],
              marks \cup (DOMAIN text \ Hidden(text)))

\* apply_author_year_citations appends what the claims, cited or not, rest on.
References == Labels(Union(Claims))
WithReferences(text) ==
  IF References = {} THEN text ELSE text \o <<Title("References"), Cite(References)>>

-----------------------------------------------------------------------------
\* split_sections: a line that is a heading begins a section.
Headings(text) == {text[i][2] : i \in {i \in DOMAIN text : IsTitle(text[i])}}
HasSection(text, h) == h \in Headings(text)
=============================================================================
