------------------------------ MODULE LitClients ------------------------------
(***************************************************************************)
(* The clients of Semantic Scholar (search/src/s2_enrichment.rs), of arXiv *)
(* and ar5iv (arxiv.rs) and of the hosts of PDFs (pdf_fetch.rs): what each *)
(* makes of the answer to one request.  The slots, the budget and the      *)
(* repetition are the gateway's.                                           *)
(*                                                                         *)
(* A reply: its status, 0 when none came; its body ("whole", "garbled"     *)
(* when it does not decode, "cut" off, "declared" or "long": over the cap, *)
(* known before or while reading); and the phrases that the text of the    *)
(* body happens to hold.                                                   *)
(***************************************************************************)
EXTENDS Integers, Sequences, FiniteSets, SequencesExt, Places

CONSTANTS None   \* an entry without an id

Reply(status, body, says) == [status |-> status, body |-> body, says |-> says]
Success(reply)  == reply.status \in 200 .. 299
\* read_body_capped
Readable(reply) == reply.body \in {"whole", "garbled"}

-----------------------------------------------------------------------------
(* Semantic Scholar.  Entries of an answer are papers or None.              *)

\* into_full: an entry without an id is dropped.
Full(entries) == AtPlaces(entries, {i \in DOMAIN entries : entries[i] # None})

\* The endpoints of the graph (search_papers, get_citations, get_references and
\* get_papers_batch) fail alike; the status 0 stands for every failure without a
\* complete exchange, an answer that cannot be read or decoded among them.
Ok == 1
GraphStatus(reply) ==
  IF ~Success(reply) THEN reply.status
  ELSE IF reply.body # "whole" THEN 0 ELSE Ok
\* A client without a key is disabled: it answers with nothing and asks nobody.
Listing(on, reply, entries) ==
  [ok |-> on => GraphStatus(reply) = Ok,
   found |-> IF on /\ GraphStatus(reply) = Ok THEN Full(entries) ELSE <<>>]
SearchPapers(on, reply, entries)  == Listing(on, reply, entries)
GetCitations(on, reply, entries)  == Listing(on, reply, entries)
GetReferences(on, reply, entries) == Listing(on, reply, entries)
\* get_papers_batch: a paper it does not know is null.
GetPapersBatch(on, reply, asked, known) ==
  Listing(on, reply, [i \in DOMAIN asked |-> IF asked[i] \in known THEN asked[i] ELSE None])
\* get_paper: 404 is an answer.
PaperStatus(reply, entry) ==
  IF reply.status = 404 THEN "missing"
  ELSE IF GraphStatus(reply) # Ok THEN "error"
  ELSE IF entry = None THEN "missing" ELSE "found"

-----------------------------------------------------------------------------
(* The feed of arXiv: a sequence of events of the XML reader.               *)

Event(kind, value) == [kind |-> kind, value |-> value]
\* What arXiv sends for a sequence of papers, None standing for an entry without id.
EntryEvents(p) ==
  <<Event("start", "entry")>>
  \o (IF p = None THEN <<>> ELSE <<Event("start", "id"), Event("text", p), Event("end", "id")>>)
  \o <<Event("start", "title"), Event("text", "title"), Event("end", "title"), Event("end", "entry")>>
Feed(papers) ==
  <<Event("start", "feed"), Event("start", "id"), Event("text", "query"), Event("end", "id")>>
  \o FlattenSeq([i \in DOMAIN papers |-> EntryEvents(papers[i])]) \o <<Event("end", "feed")>>
\* One that is not well-formed after its first entry.
Broken(papers) == Feed(SubSeq(papers, 1, 1)) \o <<Event("error", "")>>

\* parse_atom_xml: of an entry the id counts, text outside of entries does not; one
\* error makes the whole feed an error, an end in the middle of an entry does not.
AtomStart == [open |-> FALSE, id |-> None, tag |-> "", found |-> <<>>, failed |-> FALSE]
AtomEvent(s, e) ==
  IF s.failed THEN s ELSE
  CASE e.kind = "error"   -> [s EXCEPT !.failed = TRUE]
    [] e.kind = "start" /\ e.value = "entry" -> [s EXCEPT !.open = TRUE, !.id = None, !.tag = "entry"]
    [] e.kind = "start" /\ e.value # "entry" -> [s EXCEPT !.tag = IF s.open THEN e.value ELSE @]
    [] e.kind = "end" /\ e.value = "entry" ->
         [s EXCEPT !.open = FALSE, !.tag = "", !.found = IF s.id = None THEN @ ELSE Append(@, s.id)]
    [] e.kind = "end" /\ e.value # "entry" -> [s EXCEPT !.tag = ""]
    [] OTHER              -> [s EXCEPT !.id = IF s.open /\ s.tag = "id" THEN e.value ELSE @]
ParseAtom(events) == FoldLeft(AtomEvent, AtomStart, events)

-----------------------------------------------------------------------------
(* The two searches of the lanes: S2Client::enrich and ArxivClient::search. *)
(* What they say of a failure decides whether it may pass.                  *)

Phrase(status) ==
  CASE status = 429 -> "http 429" [] status \in 500 .. 599 -> "http 5" [] OTHER -> "http"
\* The message of a failure quotes the body of the answer.
Says(reply, undecodable) ==
  IF reply.status = 0 THEN {"send failed"}
  ELSE IF ~Success(reply)
  THEN {Phrase(reply.status)} \cup (IF Readable(reply) THEN reply.says ELSE {})
  ELSE IF ~Readable(reply) THEN {"body read failed"}
  ELSE IF undecodable THEN {"undecodable"} ELSE {}
\* Entries without a paper id are kept by enrich, with an empty id.
Enrich(reply, entries) ==
  LET says == Says(reply, reply.body = "garbled")
  IN [says |-> IF "undecodable" \in says THEN {"decode failed"} ELSE says,
      found |-> IF says = {} THEN entries ELSE <<>>]
\* search and fetch_by_ids
ArxivAnswer(reply, papers) ==
  LET atom == ParseAtom(IF reply.body = "garbled" THEN Broken(papers) ELSE Feed(papers))
      says == Says(reply, atom.failed)
  IN [says |-> IF "undecodable" \in says THEN {"parse error"} ELSE says,
      found |-> IF says = {} THEN atom.found ELSE <<>>]

\* live_lane_error_is_transient: any of these phrases anywhere in the message.
LaneMayPass(says) ==
  says \cap {"send failed", "body read failed", "response unreadable", "decode failed",
             "http 429", "http 5"} # {}

-----------------------------------------------------------------------------
(* Full text.                                                               *)

\* fetch_fulltext: no rendering is no failure, the abstract takes its place.
Ar5ivText(reply) ==
  CASE reply.status = 404 -> "abstract"
    [] Success(reply) /\ Readable(reply) -> "html"
    [] OTHER -> "error"
\* fetch_pdf_bytes: only http and https; status and size.
PdfFetched(url, reply) == url \in {"http", "https"} /\ Success(reply) /\ Readable(reply)
\* pdftotext_extract: the tool may be missing, fail or take too long.
PdfText(url, reply, tool) == PdfFetched(url, reply) /\ tool = "text"
=============================================================================
