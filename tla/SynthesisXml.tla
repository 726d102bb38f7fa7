---------------------------- MODULE SynthesisXml ----------------------------
(***************************************************************************)
(* What the prompts of stage 2 ask for (ttd/prompts) and how the answers   *)
(* are read (ttd/stages/synthesis.rs).  A prompt is its form: what of the  *)
(* current draft it shows and which parts of a claim it asks for.  An      *)
(* answer is the sequence of XML events that a model following the form    *)
(* writes; the reader folds over them with one set of open elements and    *)
(* one buffer per element, as the parser does with its flags.  One         *)
(* support_level stands for the five free fields of a claim, the           *)
(* uncertainties for them and the two lists of areas.                      *)
(***************************************************************************)
EXTENDS Fitness, SequencesExt

CONSTANTS
  Topic,   \* the texts of claims
  Source,  \* what may stand as a source id
  Passage, \* what may be quoted of a source
  Garbled, \* the texts that a model writes with a bare & or another malformed entity
  None

Vocabulary == {"consensus", "divided"}  \* agreement levels; "odd" is none of them
Dissent    == "dissent"  \* the text of a counterargument
\* SUPPORT_LEVELS, the vocabulary that the prompts of the lit dialect show; any other
\* word is read as none (normalise_support_level).
SupportLevels  == {"established", "converging", "contested", "emerging", "single-source"}
SupportRead(v) == IF v \in SupportLevels THEN v ELSE None

\* What a model has in mind when it writes a claim, before any form.
Raw == [topic : Topic \cup {None}, sources : SUBSET Source, quoted : SUBSET (Source \X Passage),
        agreement : Vocabulary \cup {"odd", None}, support : SupportLevels \cup {"odd", None},
        counter : BOOLEAN]

-----------------------------------------------------------------------------
(* The forms: the root asked for, what of the draft is shown, what of a    *)
(* claim is asked for, and whether quotes stand inside the source, without *)
(* naming it.                                                              *)

Form(root, shows, asks, nested) == [root |-> root, shows |-> shows, asks |-> asks, nested |-> nested]

\* V2_OUTPUT_SCHEMA
OutputSchema == {"narrative", "support", "quotes", "counter", "uncertainties", "gaps"}
\* V2_DRAFT_SCHEMA: node ids instead of quotes.
DraftSchema  == OutputSchema \ {"quotes"}
\* V2_MERGER_SCHEMA: quotes are tagged with their node.
MergerSchema == OutputSchema

\* What stands for the panel: its papers with their texts, or a line for each of them.
PapersShown     == {"papers", "texts"}
HeadersShown    == {"papers", "tiers"}
VocabularyShown == {"vocabulary"}
\* The merger's candidates: a claim's text, its sources with their tiers, its fields.
CandidatesShown == {"sources", "tiers", "support"}

DraftGraphLit == Form("synthesis", {"graph"} \cup HeadersShown \cup VocabularyShown, DraftSchema, FALSE)
DraftPlainLit == Form("synthesis", PapersShown \cup VocabularyShown, OutputSchema, FALSE)
\* resolve renders the draft as its narrative alone; the full prompt is the patch prompt.
ResolveLit    == Form("synthesis", {"narrative", "retrieved"} \cup VocabularyShown, OutputSchema, FALSE)
FullLit       == ResolveLit
MergerLit     == Form("synthesis", CandidatesShown \cup {"evidence"} \cup VocabularyShown, MergerSchema, FALSE)

SchemaV1     == {"narrative", "agreement", "quotes", "counter", "uncertainties"}
DraftPlainV1 == Form("synthesis", {"papers"}, SchemaV1, TRUE)
DraftGraphV1 == Form("synthesis", {"graph"}, SchemaV1, TRUE)
ClaimsShown  == {"sources", "agreement", "counter"}
PatchV1      == Form("patch", ClaimsShown \cup {"uncertainties", "retrieved"}, {"sources", "counter"}, TRUE)
FullV1       == Form("synthesis", ClaimsShown \cup {"uncertainties", "retrieved"},
                     {"agreement", "quotes", "uncertainties"}, TRUE)
MergerV1     == Form("synthesis", ClaimsShown, SchemaV1, TRUE)

\* A gap asks for what is missing and for a query that finds it.
GapSchema == {"description", "query"}
GapsV1  == Form("gaps", ClaimsShown \cup {"uncertainties", "feedback"}, GapSchema, FALSE)
GapsLit == Form("gaps", {"question", "narrative", "support", "sources", "feedback"}, GapSchema, FALSE)

\* The judges, one form per dimension.
ClaimsJudged == {"agreement", "sources"}
JudgeSchema  == {"score", "rationale"}
JudgeV1(dim) == Form(dim, ClaimsJudged, JudgeSchema, FALSE)
Faithfulness      == JudgeV1("faithfulness")
Completeness      == JudgeV1("completeness")
Traceability      == JudgeV1("traceability")
Neutrality        == JudgeV1("neutrality")
DissentVisibility == JudgeV1("dissent_visibility")
StructuralClarity == JudgeV1("structural_clarity")
JudgesV1 == {Faithfulness, Completeness, Traceability, Neutrality, DissentVisibility, StructuralClarity}
JudgeLit(dim) == Form(dim, {"sources", "support"}, JudgeSchema, FALSE)

-----------------------------------------------------------------------------
(* The answer: what a model that follows the form writes.                  *)

Open(tag, at) == [ev |-> "open", tag |-> tag, at |-> at]
Empty(tag, at) == [ev |-> "empty", tag |-> tag, at |-> at]
Close(tag)    == [ev |-> "close", tag |-> tag, at |-> None]
Chars(v)      == [ev |-> "text", tag |-> None, at |-> v]

Element(tag, at, inner) == <<Open(tag, at)>> \o inner \o <<Close(tag)>>
Field(tag, v) == IF v = None THEN <<>> ELSE Element(tag, None, <<Chars(v)>>)
If(c, written) == IF c THEN written ELSE <<>>
Each(S, Write(_)) == LET s == SetToSeq(S) IN FlattenSeq([i \in 1 .. Len(s) |-> Write(s[i])])

QuotesOf(raw, s) == {q \in raw.quoted : q[1] = s}

WrittenSource(form, raw, s) ==
  IF form.nested /\ "quotes" \in form.asks /\ QuotesOf(raw, s) # {}
  THEN Element("source", s, Each(QuotesOf(raw, s), LAMBDA q : Element("quote", None, <<Chars(q[2])>>)))
  ELSE <<Empty("source", s)>>

WrittenClaim(form, raw) ==
  Element("claim", None,
    Field("text", raw.topic)
    \o If("agreement" \in form.asks, Field("agreement_level", raw.agreement))
    \o If("support" \in form.asks, Field("support_level", raw.support))
    \o Element("sources", None, Each(raw.sources, LAMBDA s : WrittenSource(form, raw, s)))
    \o If("quotes" \in form.asks /\ ~form.nested,
          Each(raw.quoted, LAMBDA q : Element("quote", q[1], <<Chars(q[2])>>)))
    \o If("counter" \in form.asks /\ raw.counter, Field("counterargument", Dissent)))

Written(form, raws) ==
  Element("synthesis", None,
    If("narrative" \in form.asks, Field("narrative", "prose"))
    \o FlattenSeq([i \in 1 .. Len(raws) |-> WrittenClaim(form, raws[i])])
    \o If("uncertainties" \in form.asks, Element("uncertainties", None, Field("uncertainty", "open question")))
    \o If("gaps" \in form.asks, Element("gaps", None, Element("gap", "epistemic", <<Chars("unknown")>>))))

-----------------------------------------------------------------------------
(* The reader.                                                             *)

NoClaim == [topic |-> <<>>, level |-> None, support |-> None, sources |-> {}, quotes |-> {},
            counter |-> {}]
NoDoc   == [claims |-> {}, narrative |-> <<>>, uncertainties |-> {}, gaps |-> {}]

Buffer  == {"current", "text", "quote", "support_level", "counterargument", "gap"}
Start0  == [doc |-> NoDoc, claim |-> NoClaim, open |-> {}, section |-> None, quoteOf |-> None,
            buf |-> [b \in Buffer |-> <<>>]]

Enter(r, tag, b) == [r EXCEPT !.open = @ \cup {tag}, !.buf[b] = <<>>]
Leave(r, tags)   == [r EXCEPT !.open = @ \ tags]
InClaim(r)       == "claim" \in r.open

\* <claim>: what the last claim had is cleared; v1 begins at "divided".
NewClaimKeeping(lit, last, at) ==  \* Mutant of NewClaim: the sources are not cleared.
  [NoClaim EXCEPT !.level = IF at # None THEN at ELSE IF lit THEN None ELSE "divided",
                  !.sources = last.sources]
NewClaim(lit, last, at) ==
  [NoClaim EXCEPT !.level = IF at # None THEN at ELSE IF lit THEN None ELSE "divided"]

\* Event::Start
OnOpen(lit, r, t) ==
  CASE t.tag = "narrative" -> Enter(r, "narrative", "current")
    [] t.tag = "claim" ->
         [Enter(r, "claim", "text") EXCEPT !.claim = NewClaim(lit, r.claim, t.at)]
    [] t.tag = "source" /\ InClaim(r) -> [r EXCEPT !.claim.sources = @ \cup {t.at}]
    [] t.tag = "agreement_level" /\ InClaim(r) -> [r EXCEPT !.open = @ \cup {t.tag}]
    [] t.tag = "quote" /\ InClaim(r) -> [Enter(r, "quote", "quote") EXCEPT !.quoteOf = t.at]
    [] t.tag \in {"text", "support_level", "counterargument"} /\ InClaim(r) -> Enter(r, t.tag, t.tag)
    [] t.tag = "gaps" -> [r EXCEPT !.open = @ \cup {"gaps"}]
    [] t.tag = "gap" /\ "gaps" \in r.open -> Enter(r, "gap", "gap")
    [] t.tag = "uncertainties" -> [r EXCEPT !.section = t.tag]
    [] t.tag = "uncertainty" -> [r EXCEPT !.buf["current"] = <<>>]
    [] OTHER -> r

\* Event::Empty: a source may be self-closing; a self-closing gap says nothing.
OnEmpty(r, t) ==
  IF t.tag = "source" /\ InClaim(r) THEN [r EXCEPT !.claim.sources = @ \cup {t.at}] ELSE r

\* e.unescape().unwrap_or_default(): of a text with a malformed entity nothing is read,
\* and the reading goes on.
Unescaped(v) == IF v \in Garbled THEN <<>> ELSE <<v>>

\* Event::Text: the first of these elements that is open takes it.
TextTags == <<"narrative", "gap", "text", "agreement_level", "quote", "support_level", "counterargument">>
Taker(r) ==
  LET first == SelectInSeq(TextTags, LAMBDA tag : tag \in r.open)
  IN  IF first # 0 THEN TextTags[first] ELSE IF r.section # None THEN "current" ELSE None

OnText(r, t) ==
  CASE Taker(r) = None -> r
    [] Taker(r) = "agreement_level" -> [r EXCEPT !.claim.level = IF t.at \in Garbled THEN "odd" ELSE t.at]
    [] Taker(r) = "narrative" -> [r EXCEPT !.buf["current"] = @ \o Unescaped(t.at)]
    [] OTHER -> [r EXCEPT !.buf[Taker(r)] = @ \o Unescaped(t.at)]

\* A level outside the vocabulary becomes "divided" in v1, none in the lit dialect.
Level(lit, level) == IF level \in Vocabulary THEN level ELSE IF lit THEN None ELSE "divided"

\* </claim>: a claim without text is dropped, a support level outside the vocabulary too.
ClaimRead(lit, r) ==
  IF r.buf["text"] = <<>> THEN r.doc.claims
  ELSE r.doc.claims \cup {[r.claim EXCEPT !.topic = r.buf["text"], !.level = Level(lit, @),
                                          !.support = SupportRead(@)]}

\* </quote>: dropped when it names no source.
QuotesRead(r) ==
  IF r.buf["quote"] = <<>> \/ r.quoteOf = None THEN r.claim.quotes
  ELSE r.claim.quotes \cup {[source |-> r.quoteOf, text |-> r.buf["quote"]]}

Shown(b) == IF b = <<>> THEN {} ELSE {b}

\* Event::End
OnClose(lit, r, t) ==
  CASE t.tag = "narrative" ->
         [Leave(r, {"narrative"}) EXCEPT !.doc.narrative = r.buf["current"], !.buf["current"] = <<>>]
    [] t.tag = "gap" /\ "gaps" \in r.open ->
         [Leave(r, {"gap"}) EXCEPT !.doc.gaps = @ \cup Shown(r.buf["gap"]), !.buf["gap"] = <<>>]
    [] t.tag = "gaps" -> Leave(r, {"gaps"})
    [] t.tag = "claim" ->
         [Leave(r, {"claim", "text", "agreement_level", "support_level"}) EXCEPT
            !.doc.claims = ClaimRead(lit, r), !.claim.support = None]
    [] t.tag \in {"text", "agreement_level"} /\ InClaim(r) -> Leave(r, {t.tag})
    [] t.tag = "quote" /\ InClaim(r) ->
         [Leave(r, {"quote"}) EXCEPT !.claim.quotes = QuotesRead(r), !.quoteOf = None]
    [] t.tag = "support_level" /\ InClaim(r) ->
         [Leave(r, {t.tag}) EXCEPT !.claim.support = IF r.buf[t.tag] = <<>> THEN None ELSE r.buf[t.tag][1],
                                  !.buf[t.tag] = <<>>]
    [] t.tag = "counterargument" ->
         [Leave(r, {t.tag}) EXCEPT !.claim.counter = @ \cup Shown(r.buf[t.tag]), !.buf[t.tag] = <<>>]
    [] t.tag = "uncertainty" ->
         [r EXCEPT !.doc.uncertainties = IF r.section # None THEN @ \cup Shown(r.buf["current"]) ELSE @,
                   !.buf["current"] = <<>>]
    [] t.tag = "uncertainties" -> [r EXCEPT !.section = None]
    [] OTHER -> r

OnEvent(lit, r, t) ==
  CASE t.ev = "open"  -> OnOpen(lit, r, t)
    [] t.ev = "empty" -> OnEmpty(r, t)
    [] t.ev = "text"  -> OnText(r, t)
    [] OTHER          -> OnClose(lit, r, t)

\* parse_synthesis_xml, of an answer that can be read up to event n: what was
\* read before the malformed place stands.
Parsed(lit, events, n) ==
  LET after[k \in 0 .. n] == IF k = 0 THEN Start0 ELSE OnEvent(lit, after[k - 1], events[k])
  IN  after[n].doc

-----------------------------------------------------------------------------
(* The gap prompt's answer, the same in all stages.                        *)

GapsWritten(gaps) ==
  Element("gaps", None, FlattenSeq([i \in 1 .. Len(gaps) |->
    Element("gap", None, Field("description", gaps[i].description) \o Field("query", gaps[i].query))]))

NoGap == [description |-> <<>>, query |-> <<>>]
GapStart == [gap |-> NoGap, open |-> {}, read |-> <<>>]

\* A gap needs a description; without a query it is searched for by its description.
GapClosed(r) ==
  IF r.gap.description = <<>> THEN r.read
  ELSE Append(r.read, IF r.gap.query = <<>> THEN [r.gap EXCEPT !.query = r.gap.description] ELSE r.gap)

GapTaker(r) == IF "description" \in r.open THEN "description" ELSE IF "query" \in r.open THEN "query" ELSE None

OnGapEvent(r, t) ==
  CASE t.ev = "open" /\ t.tag = "gap" -> [r EXCEPT !.gap = NoGap]
    [] t.ev = "open" /\ t.tag \in GapSchema -> [r EXCEPT !.open = @ \cup {t.tag}]
    [] t.ev = "close" /\ t.tag \in GapSchema -> [r EXCEPT !.open = @ \ {t.tag}]
    [] t.ev = "close" /\ t.tag = "gap" -> [r EXCEPT !.read = GapClosed(r)]
    [] t.ev = "text" /\ GapTaker(r) # None -> [r EXCEPT !.gap[GapTaker(r)] = @ \o Unescaped(t.at)]
    [] OTHER -> r

\* parse_gaps_xml, of a block that can be read up to event n.
GapsParsed(events, n) == FoldLeft(OnGapEvent, GapStart, SubSeq(events, 1, n)).read

-----------------------------------------------------------------------------
(* What of an answer there is to read: the claims that were closed and     *)
(* whose text can be unescaped, each with what the form asked of it that   *)
(* can.  v1's nested quotes name no source and do not count.               *)

Legible(v) == v \notin Garbled

Meant(lit, form, raw) ==
  [topic   |-> <<raw.topic>>,
   level   |-> Level(lit, IF "agreement" \in form.asks THEN raw.agreement ELSE None),
   support |-> IF "support" \in form.asks THEN SupportRead(raw.support) ELSE None,
   sources |-> raw.sources,
   quotes  |-> IF "quotes" \in form.asks /\ ~form.nested
               THEN {[source |-> q[1], text |-> <<q[2]>>] : q \in {p \in raw.quoted : Legible(p[2])}} ELSE {},
   counter |-> IF "counter" \in form.asks /\ raw.counter /\ Legible(Dissent) THEN {<<Dissent>>} ELSE {}]

ClosedClaims(events, n) == Cardinality({i \in 1 .. n : events[i] = Close("claim")})
Told(lit, form, raws, n) ==
  {Meant(lit, form, raws[i]) :
     i \in {j \in 1 .. ClosedClaims(Written(form, raws), n) : raws[j].topic # None /\ Legible(raws[j].topic)}}
=============================================================================
