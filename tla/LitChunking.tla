------------------------------ MODULE LitChunking ------------------------------
(***************************************************************************)
(* How a text is cut into the chunks that are embedded                     *)
(* (search/src/lit_chunking.rs): a rendering of ar5iv along its sections,  *)
(* the text of a PDF or of a local file along its pages, up to the list of *)
(* references.                                                             *)
(*                                                                         *)
(* A text is a sequence of words, its length their number; what joins two  *)
(* paragraphs counts for one word.                                         *)
(***************************************************************************)
EXTENDS Integers, Sequences, SequencesExt, FiniteSetsExt

CONSTANTS MaxChars,  \* LitChunkConfig
          Joint,     \* the empty line between two paragraphs of a chunk
          Numerals   \* the words a numbered heading may start with

\* split_oversized
SplitOversized(text) ==
  [i \in 1 .. Max({1, (Len(text) + MaxChars - 1) \div MaxChars}) |->
     SubSeq(text, (i - 1) * MaxChars + 1, Min({i * MaxChars, Len(text)}))]

\* pack_paragraphs: as many paragraphs to a chunk as fit; one that fits into none is
\* cut up and stands alone.
Pushed(packed) == IF packed.current = <<>> THEN packed.out ELSE Append(packed.out, packed.current)
Joined(current, part) == IF current = <<>> THEN part ELSE current \o <<Joint>> \o part
Pack(packed, part) ==
  IF Len(part) > MaxChars THEN [out |-> Pushed(packed) \o SplitOversized(part), current |-> <<>>]
  ELSE IF Len(Joined(packed.current, part)) > MaxChars THEN [out |-> Pushed(packed), current |-> part]
  ELSE [packed EXCEPT !.current = Joined(@, part)]
PackParagraphs(parts) == Pushed(FoldLeft(Pack, [out |-> <<>>, current |-> <<>>], parts))

\* The pieces of a section become chunks, numbered on from those before.
WithText(parts) == SelectSeq(parts, LAMBDA p : p # <<>>)
Numbered(chunks, section, pieces) ==
  chunks \o [i \in DOMAIN pieces |->
               [section |-> section, content |-> pieces[i], index |-> Len(chunks) + i - 1]]

\* chunk_ar5iv_html.  A document: its title, its sections with their paragraphs, and
\* the paragraphs outside of all sections, which count only when there are no sections;
\* those are cut up, never packed.  A body without markup has neither.
Unmarked == [title |-> "document", sections |-> <<>>, loose |-> <<>>]
ChunkHtml(doc) ==
  IF doc.sections = <<>>
  THEN Numbered(<<>>, doc.title, FlattenSeq([i \in DOMAIN WithText(doc.loose) |-> SplitOversized(WithText(doc.loose)[i])]))
  ELSE FoldLeft(LAMBDA chunks, s : Numbered(chunks, s.heading, PackParagraphs(WithText(s.paragraphs))),
                <<>>, doc.sections)

\* is_references_heading: alone on its line, but for a number.
IsReferencesHeading(line) ==
  LET bare == IF line # <<>> /\ Head(line) \in Numerals THEN Tail(line) ELSE line
  IN bare \in {<<"references">>, <<"bibliography">>}

\* split_paragraphs: lines, cut at blank ones; a paragraph is the sequence of its lines.
SplitParagraphs(lines) ==
  LET Line(s, line) ==
        IF line = <<>> THEN [s EXCEPT !.blank = TRUE]
        ELSE IF s.blank /\ s.open # <<>>
        THEN [done |-> Append(s.done, s.open), open |-> <<line>>, blank |-> FALSE]
        ELSE [s EXCEPT !.open = Append(@, line), !.blank = FALSE]
      end == FoldLeft(Line, [done |-> <<>>, open |-> <<>>, blank |-> FALSE], lines)
  IN IF end.open = <<>> THEN end.done ELSE Append(end.done, end.open)

\* chunk_plain_text: a section per page; the first paragraph that begins with the
\* heading of the references ends the document.
PageChunks(state, lines) ==
  LET paragraphs == SplitParagraphs(lines)
      heading    == {i \in DOMAIN paragraphs : IsReferencesHeading(paragraphs[i][1])}
      kept       == SubSeq(paragraphs, 1, IF heading = {} THEN Len(paragraphs) ELSE Min(heading) - 1)
      parts      == [i \in DOMAIN kept |-> FlattenSeq(kept[i])]
  IN IF state.over THEN state
     ELSE [over   |-> heading # {}, page |-> state.page + 1,
           chunks |-> Numbered(state.chunks, state.page, PackParagraphs(parts))]
ChunkPlain(pages) == FoldLeft(PageChunks, [over |-> FALSE, page |-> 1, chunks |-> <<>>], pages).chunks

-----------------------------------------------------------------------------
(* Reference: what the chunks of a plain text are to contain.               *)

\* Line j of page i begins a paragraph.
Begins(lines, j) == lines[j] # <<>> /\ (j = 1 \/ lines[j - 1] = <<>>)
\* It comes before the references.
Before(pages, i, j) ==
  \A k \in 1 .. i : \A m \in DOMAIN pages[k] :
    (k < i \/ m <= j) => ~(Begins(pages[k], m) /\ IsReferencesHeading(pages[k][m]))
Kept(pages) ==
  FlattenSeq([i \in DOMAIN pages |->
    FlattenSeq([j \in DOMAIN pages[i] |-> IF Before(pages, i, j) THEN pages[i][j] ELSE <<>>])])
Words(chunks) ==
  SelectSeq(FlattenSeq([i \in DOMAIN chunks |-> chunks[i].content]), LAMBDA w : w # Joint)
WellCut(chunks) ==
  \A i \in DOMAIN chunks : chunks[i].index = i - 1 /\ Len(chunks[i].content) \in 1 .. MaxChars
=============================================================================
