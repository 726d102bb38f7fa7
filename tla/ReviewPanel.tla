------------------------------ MODULE ReviewPanel ------------------------------
(***************************************************************************)
(* A review from its question to the panel the engine starts with, and the *)
(* notice it ends with (run_review and run_engine_and_finish of            *)
(* espigue/src/pipeline.rs).  Two ways lead to the panel: seed papers, or  *)
(* Stage 0, three lanes that search at the same time, fusion, reranker and *)
(* topicality gate.  The engine is one step here.                          *)
(***************************************************************************)
EXTENDS Fusion, LitChunking

CONSTANTS
  Options,          \* the reviews that are asked for
  LocalDocs, FileKind, FileText,   \* files of the user: the extension, the text
  TopKCap, LaneHits,          \* TOP_K_HARD_CAP, hits of the store search of a lane
  SimilarRest,      \* how similar to the question a full text is after its first chunk
  MaxTries, ArxivBudget, S2Budget,   \* the gateway
  MaxSeedQueries,   \* seed queries taken from an answer
  Decompositions,   \* what the model answers: queries, <<>> when nothing is usable
  RawQuestion,      \* the question as a query
  ArxivHits, S2Hits,          \* what the two searches answer
  ChatAnswers, EmbedAnswers, Jitters,
  Replies,          \* what the literature services answer
  PdfUrl, Html, PdfPages, PdfTools,  \* full texts by paper: where a PDF is, what ar5iv renders,
                    \* what the PDF says; what pdftotext may do
  RerankAnswers, TopicalityReplies, EngineEnds, ShownReasons

LocalKey(d) == [type |-> "local", of |-> d]
Keys == {Key(p) : p \in Papers} \cup {LocalKey(d) : d \in LocalDocs}
Lanes == {"internal", "arxiv", "s2"}
Profiles == {"V1Delphi", "V2LitReview", "V3LitReviewLong"}
\* Reasons that inform and do not degrade; those of the engine are others.
Notes == {"topicality failed", "topicality kept all", "topicality dropped", "seeds unresolved"}

ASSUME PanelAssumption ==
  /\ IsFiniteSet(Papers) /\ IsFiniteSet(LocalDocs)
  /\ TopKCap \in Nat \ {0} /\ LaneHits \in Nat /\ ShownReasons \in Nat
  /\ \A o \in Options : o.topk \in Int /\ o.profile \in Profiles
  /\ (\A a \in ChatAnswers \cup EmbedAnswers : a.hint \in Nat \cup {NoHint}) /\ Jitters \subseteq {0, 1}
  /\ S2Hits \in Seq(Papers) /\ S2Budget \in Nat
  /\ MaxSeedQueries \in Nat /\ {<<RawQuestion>>} \cup Decompositions \subseteq Seq(DOMAIN SearchHits)
  /\ RerankAnswers \subseteq Seq([index : Nat, low : BOOLEAN])
  /\ \A end \in EngineEnds : end.reasons \in Seq(STRING \ Notes)

VARIABLES
  opts,     \* ReviewOptions with the question and the switches of the environment
  at,       \* the step that is next
  store,    \* what the literature store holds of each source
  indexed,  \* the sources whose fulltext_status is indexed
  left,     \* calls left to arXiv and Semantic Scholar
  post,     \* the call to the model provider
  x,        \* the exploration of Stage 0
  lane,     \* the three lanes
  todo,     \* files to ingest, then seeds to resolve
  hits,     \* the hits the panel will be built from
  notices,  \* PreNotices: fusion, topicality, seed
  panel, record,
  result,   \* ReviewResult
  heard     \* history: the sources that were retrieved, those that a reranker or the
            \* topicality gate cut, and what has failed

vars == <<opts, at, store, indexed, left, post, x, lane, todo, hits, notices, panel, record, result, heard>>

Clamped(k) == Min({Max({k, 1}), TopKCap})
TopK == Clamped(opts.topk)
Live == opts.scope = "corpus+web"
LaneIdle == [at |-> "end", tries |-> 0, todo |-> <<>>, hits |-> <<>>, reasons |-> {}]
NoRecord == [ids |-> <<>>]
NoResult == [degraded |-> FALSE, told |-> {}]

Init ==
  /\ opts \in Options
  /\ at = "files" /\ todo = opts.files
  /\ store = [k \in Keys |-> "absent"] /\ indexed = {}
  /\ left = [arxiv |-> ArxivBudget, s2 |-> S2Budget]
  /\ post = Idle /\ x = Start(<<>>)
  /\ lane = [l \in Lanes |-> LaneIdle]
  /\ hits = <<>> /\ panel = <<>>
  /\ notices = [fusion |-> {}, topicality |-> {}, seed |-> {}]
  /\ record = NoRecord /\ result = NoResult
  /\ heard = [found |-> {}, cut |-> {}, faults |-> {}]

\* A review that ends before the engine: empty, degraded, with its reasons.
Bail(reasons) == at' = "done" /\ result' = [degraded |-> TRUE, told |-> reasons]
Fault(reasons) == heard' = [heard EXCEPT !.faults = @ \cup reasons]
ToEmbed == at' = "embed" /\ post' = Post("embeddings")

-----------------------------------------------------------------------------
(* The database, and the files of the user.                                 *)

\* LitContext::open makes the table of vectors for the size of the embeddings, unless
\* there is one: a vector of another size is neither stored nor searched for.
Fits == opts.table \in {0, opts.dim}
\* Of these papers any may get their chunk.
Wholes(papers) == SUBSET {p \in papers : Fits \/ Persisted(p) = "row"}

\* ingest_dir, a process of its own: one bad file is skipped, not the others.  A file
\* that fails while its chunks are stored keeps those it has.
IngestFile ==
  /\ at = "files" /\ todo # <<>> /\ todo' = Tail(todo)
  /\ LET k == LocalKey(Head(todo))
         chunks == ChunkPlain(FileText[k.of])
     IN \/ UNCHANGED <<store, indexed>>   \* not read, not converted, no row
        \/ /\ FileKind[k.of] = "text" \/ (FileKind[k.of] = "pdf" /\ "text" \in PdfTools)
           /\ chunks # <<>>
           /\ \/ store' = [store EXCEPT ![k] = "row"] /\ UNCHANGED indexed
              \/ Fits /\ Len(chunks) > 1 /\ store' = [store EXCEPT ![k] = "text"] /\ UNCHANGED indexed
              \/ Fits /\ store' = [store EXCEPT ![k] = "full"] /\ indexed' \in {indexed, indexed \cup {k}}
  /\ UNCHANGED <<opts, at, left, post, x, lane, hits, notices, panel, record, result, heard>>

Submit ==
  /\ at = "files" /\ todo = <<>>
  /\ \/ opts.blank /\ at' = "refused" /\ UNCHANGED <<post, todo>>
     \/ ~opts.blank /\ opts.seeds # <<>> /\ at' = "seeds" /\ todo' = opts.seeds /\ UNCHANGED post
     \/ /\ ~opts.blank /\ opts.seeds = <<>> /\ UNCHANGED todo
        /\ IF Live THEN at' = "decompose" /\ post' = Post("chat") ELSE ToEmbed
  /\ UNCHANGED <<opts, store, indexed, left, x, lane, hits, notices, panel, record, result, heard>>

\* One attempt of the call that is under way.
Send ==
  /\ post.at = "send"
  /\ \E answer \in IF post.what = "chat" THEN ChatAnswers ELSE EmbedAnswers, jitter \in Jitters :
       post' = Attempt(post, answer, jitter)
  /\ UNCHANGED <<opts, at, store, indexed, left, x, lane, todo, hits, notices, panel, record, result, heard>>
Answered(step) == at = step /\ Done(post)

-----------------------------------------------------------------------------
(* Seed papers.                                                             *)

\* classify_seed: the prefix decides, without one the shape of the id.
SeedKind(raw) ==
  CASE raw.prefix \in {"arxiv", "doi", "s2"} -> raw.prefix
    [] raw.prefix = "corpusid"               -> "s2"
    [] OTHER -> IF raw.shape \in {"arxiv", "doi"} THEN raw.shape ELSE "s2"
\* resolve_one: Semantic Scholar by any id; its miss or error on an arXiv id is
\* made good by arXiv, which alone is asked without an S2 key.
SeedFound(kind, p, s2, arxiv) ==
  \/ opts.s2 /\ left.s2 > 0 /\ PaperStatus(s2, p) = "found"
  \/ /\ kind = "arxiv" /\ (opts.s2 => left.s2 > 0 /\ PaperStatus(s2, p) # "found")
     /\ ArxivAnswer(arxiv, IF p \in OnArxiv THEN <<p>> ELSE <<>>).found # <<>>
ResolveSeed ==
  /\ at = "seeds" /\ todo # <<>> /\ todo' = Tail(todo)
  /\ LET raw == Head(todo) IN
     IF raw.blank THEN UNCHANGED <<store, left, hits, notices, heard>>
     ELSE \E s2, arxiv \in Replies, whole \in Wholes({raw.of}) :
            LET found == SeedFound(SeedKind(raw), raw.of, s2, arxiv)
                kept  == whole # {}
                hit   == Hit(Key(raw.of).type, Key(raw.of), raw.of \in HasAbstract)
            IN /\ left' = [left EXCEPT !.s2 = IF opts.s2 /\ @ > 0 THEN @ - 1 ELSE @]
               /\ store' = IF found THEN Persist(store, {raw.of}, whole) ELSE store
               /\ IF found /\ kept
                  THEN /\ hits' = OnePerSource(Append(hits, hit))
                       /\ heard' = [heard EXCEPT !.found = @ \cup {Key(raw.of)}]
                       /\ UNCHANGED notices
                  ELSE /\ notices' = [notices EXCEPT !.seed = {"seeds unresolved"}]
                       /\ Fault({"seeds unresolved"}) /\ UNCHANGED hits
  /\ UNCHANGED <<opts, at, indexed, post, x, lane, panel, record, result>>
SeedsResolved ==
  /\ at = "seeds" /\ todo = <<>>
  /\ IF hits = <<>> THEN Bail({"no seeds"} \cup notices.seed)
     ELSE at' = (IF Live THEN "promote" ELSE "build") /\ UNCHANGED result
  /\ UNCHANGED <<opts, store, indexed, left, post, x, lane, todo, hits, notices, panel, record, heard>>

-----------------------------------------------------------------------------
(* Stage 0.                                                                 *)

\* decompose_seed_queries: the first usable queries, else the raw question.
SeedQueries(reply) == IF reply = <<>> THEN <<RawQuestion>> ELSE Take(reply, MaxSeedQueries)
Decompose ==
  /\ Answered("decompose")
  /\ \E reply \in IF Result(post) THEN Decompositions ELSE {<<>>} : x' = Start(SeedQueries(reply))
  /\ at' = "explore" /\ post' = Idle
  /\ UNCHANGED <<opts, store, indexed, left, lane, todo, hits, notices, panel, record, result, heard>>

Exploring(step) == at = "explore" /\ x.at = step
ExploreFrame == UNCHANGED <<opts, at, indexed, post, lane, todo, hits, notices, panel, record, result, heard>>
\* One slot for a call, whatever its retries.
Granted == left.s2 > 0 /\ left' = [left EXCEPT !.s2 = @ - 1] /\ ~x.exhausted
Refused == left.s2 = 0 /\ UNCHANGED left /\ ~x.exhausted
QueriesLeft == x.queries # <<>> /\ ~x.exhausted

SearchSeeds ==
  /\ Exploring("search") /\ QueriesLeft
  /\ \/ Refused /\ x' = Exhausted(x)
     \/ /\ Granted
        /\ \E reply \in Replies, written \in BOOLEAN :   \* of the replies to a call the last
             LET answer == SearchPapers(opts.s2, reply, SearchHits[Head(x.queries)])
             IN x' = IF answer.ok THEN Searched(x, answer.found, written) ELSE SearchFailed(x)
  /\ UNCHANGED store /\ ExploreFrame
PickSeeds ==
  /\ Exploring("search") /\ ~QueriesLeft
  /\ x' = Picked(x)
  /\ UNCHANGED <<store, left>> /\ ExploreFrame

MoreSeeds == x.seed <= Len(x.seeds) /\ ~x.exhausted
VisitSeed ==
  /\ Exploring("seed") /\ MoreSeeds
  /\ \/ x' = NextSeed(x) /\ UNCHANGED store
     \/ /\ x' = Seeded(x)
        /\ \E whole \in Wholes({x.seeds[x.seed]}) : store' = Ingest(store, {x.seeds[x.seed]}, whole)
  /\ UNCHANGED left /\ ExploreFrame

EdgesOpen == EdgesLeft(x) /\ ~x.exhausted
FollowEdge ==
  /\ Exploring("edge") /\ EdgesOpen
  /\ \/ EdgeCached(x) /\ x' = Gathered(x, Full(EdgeEntries(x))) /\ UNCHANGED left
     \/ ~EdgeCached(x) /\ Refused /\ x' = Exhausted(x)
     \/ /\ ~EdgeCached(x) /\ Granted
        /\ \E reply \in Replies, written \in BOOLEAN :
             LET answer == EdgeAnswer(x, opts.s2, reply)
             IN x' = IF answer.ok THEN Fetched(x, answer.found, written) ELSE FetchFailed(x)
  /\ UNCHANGED store /\ ExploreFrame
\* Rank what was gathered, look the winners up, ingest them, go one level down.
Descend ==
  /\ Exploring("edge") /\ ~EdgesOpen
  /\ \/ (x.gathered = <<>> \/ x.exhausted) /\ x' = NextSeed(x) /\ UNCHANGED <<left, store>>
     \/ /\ x.gathered # <<>> /\ ~x.exhausted
        /\ \/ x' = NextSeed(x) /\ UNCHANGED <<left, store>>   \* no embeddings
           \/ \E backwards \in BOOLEAN :
                LET won     == Winners(x, Scores(x, backwards))
                    missing == Missing(x, won)
                IN \/ /\ missing = {} /\ UNCHANGED left
                      /\ x' = Descended(x, won)
                      /\ \E whole \in Wholes(Range(won)) : store' = Ingest(store, Range(won), whole)
                   \/ missing # {} /\ Refused /\ x' = NextSeed(Exhausted(x)) /\ UNCHANGED store
                   \/ /\ missing # {} /\ Granted
                      /\ \E reply \in Replies, known \in SUBSET missing, written \in BOOLEAN :
                           LET got    == Range(GetPapersBatch(opts.s2, reply, SetToSeq(missing), known).found)
                               papers == Unseen(won, missing \ got)
                           IN
                           /\ x' = Descended(Called(x, {PaperKey(p) : p \in got}, written), papers)
                           /\ \E whole \in Wholes(Range(papers)) : store' = Ingest(store, Range(papers), whole)
  /\ ExploreFrame

\* Nothing of the exploration but the store and the budget goes any further.
Explored ==
  /\ at = "explore"
  /\ x.at = "end" \/ (x.at = "seed" /\ ~MoreSeeds)
  /\ ToEmbed /\ x' = Start(<<>>)
  /\ UNCHANGED <<opts, store, indexed, left, lane, todo, hits, notices, panel, record, result, heard>>
-----------------------------------------------------------------------------
(* The three lanes.                                                         *)

\* The query is embedded once; without its vector there is nothing to search with.
StartLanes ==
  /\ Answered("embed")
  /\ post' = Idle
  /\ IF Result(post)
     THEN /\ at' = "lanes" /\ UNCHANGED result
          /\ lane' = [l \in Lanes |->
                        IF l = "internal"
                        THEN [LaneIdle EXCEPT !.at = IF ~Live \/ opts.warm THEN "store" ELSE "end"]
                        ELSE [LaneIdle EXCEPT !.at = IF Live THEN "call" ELSE "end"]]
     ELSE Bail({"embedding"}) /\ UNCHANGED lane
  /\ UNCHANGED <<opts, store, indexed, left, x, todo, hits, notices, panel, record, heard>>

InLane(l, step) == at = "lanes" /\ lane[l].at = step
LaneFrame == UNCHANGED <<opts, at, indexed, post, x, todo, hits, notices, panel, record, result>>
Failed(l, reason) == [lane[l] EXCEPT !.at = "end", !.reasons = {reason}]

\* One attempt of a lane: each takes a slot of its own, and an empty budget is the
\* end of it.  What the failure says decides whether it may pass.
NothingAsked == [says |-> {}, found |-> <<>>]
Answers(l, reply) ==
  IF l = "arxiv" THEN ArxivAnswer(reply, ArxivHits)
  ELSE IF opts.s2 THEN Enrich(reply, S2Hits) ELSE NothingAsked
Heard(l, answer) ==
  IF answer.says = {} THEN [lane[l] EXCEPT !.at = IF answer.found = <<>> THEN "end" ELSE "persist",
                                           !.todo = answer.found]
  ELSE IF LaneMayPass(answer.says) /\ lane[l].tries + 1 < MaxTries THEN [lane[l] EXCEPT !.tries = @ + 1]
  ELSE Failed(l, l)
CallLane(l) ==
  /\ InLane(l, "call")
  /\ IF left[l] = 0 THEN lane' = [lane EXCEPT ![l] = Failed(l, l)] /\ UNCHANGED left
     ELSE /\ left' = [left EXCEPT ![l] = @ - 1]
          /\ \E reply \in Replies : lane' = [lane EXCEPT ![l] = Heard(l, Answers(l, reply))]
  /\ Fault(lane'[l].reasons)
  /\ UNCHANGED store /\ LaneFrame

\* The papers found are ingested one after the other; a failure is only logged.
S2Hit(p) == Hit("s2", Key(p), p \in HasAbstract)
PersistNext(l) ==
  /\ InLane(l, "persist") /\ lane[l].todo # <<>>
  /\ \E whole \in Wholes({Head(lane[l].todo)}) : store' = Ingest(store, {Head(lane[l].todo)}, whole)
  /\ lane' = [lane EXCEPT ![l].todo = Tail(@)]
  /\ UNCHANGED <<left, heard>> /\ LaneFrame
\* The lane of arXiv answers from the whole store, the one of Semantic Scholar from
\* what the service sent.
LeaveStore(l) ==
  /\ InLane(l, "persist") /\ lane[l].todo = <<>>
  /\ lane' = [lane EXCEPT ![l] =
       IF l = "arxiv" THEN [@ EXCEPT !.at = "store"]
       ELSE [@ EXCEPT !.at = "end", !.hits = [i \in DOMAIN S2Hits |-> S2Hit(S2Hits[i])]]]
  /\ UNCHANGED <<store, left, heard>> /\ LaneFrame

\* The nearest chunks, as the store has them at this moment: a source with several
\* takes several of the places, and fusion adds their shares up.  A full text
\* stands for two chunks.
Stored == {k \in Keys : store[k] \in {"heading", "text", "full"}}
ChunkRows == (Stored \X {1}) \cup ({k \in Stored : store[k] = "full"} \X {2})
Closeness(row) == IF row[2] = 1 THEN Similar[row[1].of] ELSE SimilarRest[row[1].of]
Nearest(n) ==
  LET rows == SetToSeq(ChunkRows)
  IN Take(ByScore(rows, [i \in DOMAIN rows |-> Closeness(rows[i])]), n)
StoreHits(l) ==
  LET near == Nearest(IF l = "internal" THEN TopK ELSE LaneHits)
  IN [i \in DOMAIN near |->
        LET k == near[i][1] IN Hit(IF l = "arxiv" THEN "arxiv" ELSE k.type, k, store[k] # "heading")]
SearchStore(l) ==
  /\ InLane(l, "store")
  /\ \/ lane' = [lane EXCEPT ![l] = Failed(l, l)]
     \/ Fits /\ lane' = [lane EXCEPT ![l].at = "end", ![l].hits = StoreHits(l)]
  /\ Fault(lane'[l].reasons)
  /\ UNCHANGED <<store, left>> /\ LaneFrame

-----------------------------------------------------------------------------
(* Fusion, reranker, topicality gate.                                       *)

\* What a step removed from the hits: history.
Cut(before, after) == heard' = [heard EXCEPT !.cut = @ \cup (Sources(before) \ Sources(after))]

LaneLists   == <<lane["internal"].hits, lane["arxiv"].hits, lane["s2"].hits>>
LaneReasons == UNION {lane[l].reasons : l \in Lanes}
Fuse ==
  /\ at = "lanes" /\ \A l \in Lanes : lane[l].at = "end"
  /\ LET fused == FuseRrf(LaneLists) IN
     /\ hits' = AboveFloor(fused, LaneLists)
     /\ notices' = [notices EXCEPT !.fusion = GateReasons(fused, LaneLists, LaneReasons)]
     /\ heard' = [heard EXCEPT !.found = Sources(fused)]
     /\ at' = IF opts.rerank /\ hits' # <<>> THEN "rerank" ELSE "trim"
  /\ lane' = [l \in Lanes |-> LaneIdle]
  /\ UNCHANGED <<opts, store, indexed, left, post, x, todo, panel, record, result>>

\* Mutant of FoldReason: the first reason is enough.
FoldReason_First(reasons, more) == IF reasons = {} THEN more ELSE reasons
FoldReason(reasons, more) == reasons \cup more
Rerank ==
  /\ at = "rerank" /\ at' = "trim"
  /\ \/ /\ notices' = [notices EXCEPT !.fusion = FoldReason(@, {"rerank failed"})]
        /\ Fault({"rerank failed"}) /\ UNCHANGED hits
     \/ \E answer \in RerankAnswers :
          LET rows == InRange(answer, hits) IN
          /\ hits' = ApplyRerank(hits, rows)
          /\ notices' = [notices EXCEPT !.fusion = FoldReason(@, RerankReasons(rows))]
          /\ Cut(hits, hits')
  /\ UNCHANGED <<opts, store, indexed, left, post, x, lane, todo, panel, record, result>>

\* The cap, and the end of a review that found nothing.
Trim ==
  /\ at = "trim"
  /\ hits' = Take(hits, TopK)
  /\ IF hits = <<>>
     THEN Bail(IF notices.fusion = {} THEN {"no sources"} ELSE notices.fusion)
     ELSE at' = (IF Live THEN "promote" ELSE "gate") /\ UNCHANGED result
  /\ UNCHANGED <<opts, store, indexed, left, post, x, lane, todo, notices, panel, record, heard>>

\* spawn_fulltext_promotion and await_promotions: what comes of a promotion in time;
\* LitIntake shows how.  The chunks that a source would get, <<>> when none: ar5iv may
\* have no rendering, and the abstract in its place has no markup to be cut along.
TextChunks(k, reply, tool) ==
  IF k.type = "arxiv" THEN ChunkHtml(IF Ar5ivText(reply) = "html" THEN Html[k.of] ELSE Unmarked)
  ELSE IF PdfText(PdfUrl[k.of], reply, tool) THEN ChunkPlain(PdfPages[k.of]) ELSE <<>>
\* A paper of arXiv without chunks counts as indexed, a PDF without them has failed.
\* A promotion that fails on the way may take the abstract with it.
NoText(k, reply, tool) == k.type = "arxiv" /\ Ar5ivText(reply) # "error" /\ TextChunks(k, reply, tool) = <<>>
HasText(k, reply, tool) ==
  /\ k.type # "local" /\ (k.type = "arxiv" => Ar5ivText(reply) # "error")
  /\ TextChunks(k, reply, tool) # <<>>
Now(level, isIndexed) == [level |-> level, indexed |-> isIndexed]
Promoted(k, reply, tool) ==
  {Now(store[k], k \in indexed)}
  \cup (IF NoText(k, reply, tool) THEN {Now(IF store[k] = "absent" THEN "row" ELSE store[k], TRUE)} ELSE {})
  \cup (IF HasText(k, reply, tool) /\ Fits
        THEN {Now("full", TRUE), Now("full", FALSE), Now("row", FALSE)} ELSE {})
Promotions(k) == UNION {Promoted(k, reply, tool) : reply \in Replies, tool \in PdfTools}
Promote ==
  /\ at = "promote"
  /\ \E became \in [Sources(hits) -> UNION {Promotions(k) : k \in Sources(hits)}] :
       /\ \A k \in Sources(hits) : became[k] \in Promotions(k)
       /\ store' = [k \in Keys |-> IF k \in Sources(hits) THEN became[k].level ELSE store[k]]
       /\ indexed' = (indexed \ Sources(hits)) \cup {k \in Sources(hits) : became[k].indexed}
  /\ at' = IF opts.seeds = <<>> THEN "gate" ELSE "build"
  /\ UNCHANGED <<opts, left, post, x, lane, todo, hits, notices, panel, record, result, heard>>

\* topicality_gate: one call, not for a single hit.
OpenGate ==
  /\ at = "gate"
  /\ IF opts.topicality /\ Len(hits) >= 2 THEN at' = "screen" /\ post' = Post("chat")
     ELSE at' = "build" /\ UNCHANGED post
  /\ UNCHANGED <<opts, store, indexed, left, x, lane, todo, hits, notices, panel, record, result, heard>>
Screen ==
  /\ Answered("screen")
  /\ at' = "build" /\ post' = Idle
  /\ \/ /\ ~Result(post)
        /\ notices' = [notices EXCEPT !.topicality = {"topicality failed"}]
        /\ Fault({"topicality failed"}) /\ UNCHANGED hits
     \/ /\ Result(post)
        /\ \E reply \in TopicalityReplies :
             /\ hits' = OnTopic(hits, reply)
             /\ notices' = [notices EXCEPT !.topicality = TopicalityReasons(hits, reply)]
             /\ Cut(hits, hits')
  /\ UNCHANGED <<opts, store, indexed, left, x, lane, todo, panel, record, result>>

-----------------------------------------------------------------------------
(* Panel, record, engine, notice.                                           *)

\* build_run_record and its inverse, review_options_from_record: the strings of
\* profile and scope are those the parsers accept.
ProfileStr(p) == CASE p = "V1Delphi" -> "v1/delphi" [] p = "V2LitReview" -> "v2/lit-review"
                   [] OTHER -> "v3/lit-review-long"
ParseProfile(s) == CHOOSE p \in Profiles : ProfileStr(p) = s
Recorded(ids) == [ids |-> ids, profile |-> ProfileStr(opts.profile), scope |-> opts.scope,
                  top_k |-> TopK, seeds |-> opts.seeds]
Restored(rec) == [profile |-> ParseProfile(rec.profile), scope |-> rec.scope,
                  topk |-> Clamped(rec.top_k), seeds |-> rec.seeds]
Ids(experts) == [i \in DOMAIN experts |-> experts[i].id]

\* A fault of the database ends the review; a record that cannot be written does not.
Build ==
  /\ at = "build"
  /\ \/ Bail({"build_panel"}) /\ UNCHANGED <<panel, record>>
     \/ LET built == BuildPanel(hits, store) IN
        IF ~Conserved(hits, built) \/ built = <<>> THEN Bail({"build_panel"}) /\ UNCHANGED <<panel, record>>
        ELSE /\ panel' = built /\ record' \in {Recorded(Ids(built)), NoRecord}
             /\ at' = "engine" /\ UNCHANGED result
  /\ UNCHANGED <<opts, store, indexed, left, post, x, lane, todo, hits, notices, heard>>

\* Of the reasons of the engine the first ones are shown, each once.
Shown(reasons) ==
  LET unique == AtPlaces(reasons, FirstPlaces(reasons, LAMBDA q, r : q = r))
  IN Range(Take(unique, ShownReasons)) \cup (IF Len(unique) > ShownReasons THEN {"and more"} ELSE {})
\* The panel stands on abstracts alone, going by the status.
Coverage == IF \E i \in DOMAIN panel : panel[i].id \in indexed THEN {} ELSE {"abstracts only"}
\* The final composition: notes inform, every other reason degrades; the notice of
\* the fusion is left out when the engine itself has failed.
Compose(end) ==
  LET degrading == (IF end.failed THEN {"engine"} ELSE notices.fusion) \cup Shown(end.reasons) \cup Coverage
  IN [degraded |-> degrading # {}, told |-> degrading \cup notices.topicality \cup notices.seed]
RunEngine ==
  /\ at = "engine"
  /\ \E end \in EngineEnds : result' = Compose(end) /\ at' = IF end.failed THEN "failed" ELSE "done"
  /\ UNCHANGED <<opts, store, indexed, left, post, x, lane, todo, hits, notices, panel, record, heard>>

Over == at \in {"refused", "done", "failed"} /\ UNCHANGED vars

Next ==
  \/ IngestFile \/ Submit \/ Send \/ ResolveSeed \/ SeedsResolved
  \/ Decompose \/ SearchSeeds \/ PickSeeds \/ VisitSeed \/ FollowEdge \/ Descend \/ Explored
  \/ StartLanes \/ (\E l \in {"arxiv", "s2"} : CallLane(l) \/ PersistNext(l) \/ LeaveStore(l))
  \/ (\E l \in {"arxiv", "internal"} : SearchStore(l))
  \/ Fuse \/ Rerank \/ Trim \/ Promote \/ OpenGate \/ Screen \/ Build \/ RunEngine \/ Over

Spec == Init /\ [][Next]_vars

-----------------------------------------------------------------------------
(* Properties.                                                              *)

\* The client of the provider waits at least as long as the server asked for, up
\* to the cap, never longer than the caps of all waits together, and a chat whose
\* answer was lost after it had been sent is over: it is not paid for again.
CallEnvelope ==
  /\ post.owed <= post.slept /\ post.slept <= (MaxAttempts - 1) * (MaxWait + 1)
  /\ post.lost <= IF RetryPostSend(post.what) THEN MaxAttempts ELSE 1
  /\ post.what = "chat" /\ post.lost > 0 => Done(post) /\ ~Result(post)

\* Stage 0 spends what the gateway grants, one slot a call, and puts nothing into
\* the store but seeds and papers that resemble the question, each within the depth
\* it was allowed and never one it did not visit.
ExploreStaysNear ==
  LET taken == {k \in Keys : k.type # "local" /\ store[k] # "absent"} IN
  at = "explore" =>
    /\ x.calls + left.s2 = S2Budget
    /\ \A k \in taken : /\ k.of \in x.visited
                        /\ k.of \in Range(x.seeds) \/ Similar[k.of] >= MinRelevance
                        /\ k.of \in Around(Range(x.seeds), EffectiveDepth(x))

\* The engine starts with a panel of retrieved sources, each once, within the cap;
\* what a resume makes of the record is the same review with the same panel, but
\* for the experts that have nothing but the text of a hit.
PanelIsSound ==
  LET resumed == PanelFromIds(record.ids, store) IN
  at = "engine" =>
    /\ panel # <<>> /\ IsInjective(Ids(panel))
    /\ Range(Ids(panel)) \subseteq heard.found /\ Range(Ids(panel)) = Sources(hits)
    /\ opts.seeds = <<>> => Len(panel) <= TopK
    /\ record # NoRecord =>
         /\ Restored(record) = [profile |-> opts.profile, scope |-> opts.scope, topk |-> TopK, seeds |-> opts.seeds]
         /\ resumed = AtPlaces(panel, {i \in DOMAIN panel : panel[i].prose \notin {"hit", "empty"}})

\* A review that reaches its end tells of every lane, reranker, gate and seed that
\* failed and of every cut by a judgement of a model; it is degraded when it tells
\* more than notes, and one without a panel is.
LossIsTold ==
  at = "done" =>
    /\ result.degraded <=> result.told \ Notes # {}
    /\ panel = <<>> => result.degraded
    /\ panel # <<>> =>
         /\ heard.faults \subseteq result.told
         /\ heard.cut # {} => result.told \cap {"rerank dropped", "topicality dropped"} # {}
=============================================================================
