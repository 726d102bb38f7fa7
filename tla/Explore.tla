-------------------------------- MODULE Explore --------------------------------
(***************************************************************************)
(* Stage 0 of a review (search/src/lit_explore.rs): search Semantic        *)
(* Scholar for seed papers, walk the citations and references of each seed *)
(* level by level, keep what resembles the question and ingest it.  Every  *)
(* answer is cached; every call that is not served from the cache takes    *)
(* one slot of the budget of the run, its retries none.                    *)
(*                                                                         *)
(* The operators move a record on; the module that uses them keeps it in a *)
(* variable together with what the exploration shares with the retrieval   *)
(* lanes: the budget that is left and the literature store.                 *)
(***************************************************************************)
EXTENDS Integers, Sequences, FiniteSets, SequencesExt, FiniteSetsExt, OpenRouterClient, LitClients

CONSTANTS
  Papers,        \* what Semantic Scholar and arXiv know
  OnArxiv,       \* the papers with an arXiv id
  HasAbstract,   \* the papers with an abstract
  Count,         \* citation counts
  Similar,       \* cosine similarity to the question, in hundredths
  SearchHits,    \* the answer of the search, by query
  References, Citations,
  NumSeeds, MaxDepth, PerLevel, MinRelevance,   \* ExploreConfig
  MaxBatch       \* inputs of one embeddings request

ASSUME ExploreAssumption ==
  /\ {NumSeeds, MaxDepth, PerLevel} \subseteq Nat /\ MaxBatch \in Nat \ {0}
  /\ \A p \in Papers : Count[p] \in Int /\ Similar[p] \in Int
  /\ \A q \in DOMAIN SearchHits : SearchHits[q] \in Seq(Papers \cup {None})
  /\ \A p \in Papers : {References[p], Citations[p]} \subseteq Seq(Papers \cup {None})

\* The canonical id: the arXiv id when there is one.
Key(p) == [type |-> IF p \in OnArxiv THEN "arxiv" ELSE "s2", of |-> p]

\* store[k]: what the literature store holds of k: nothing ("absent"), the row in
\* papers alone ("row"), a chunk without text below its heading ("heading"), the
\* abstract ("text") or the full text ("full").
\* Persisting writes the row first; the chunk is lost when its embedding fails.
\* persist_arxiv_abstract writes a chunk for an empty abstract, too,
\* persist_s2_abstract none.  A paper with a row is not ingested again.
Persisted(p) == IF p \in HasAbstract THEN "text" ELSE IF p \in OnArxiv THEN "heading" ELSE "row"
Persist(store, papers, whole) ==
  [k \in DOMAIN store |->
     IF k.of \notin papers \/ k # Key(k.of) THEN store[k]
     ELSE IF k.of \in whole THEN Persisted(k.of)
     ELSE IF store[k] = "absent" THEN "row" ELSE store[k]]
Ingest(store, papers, whole) == Persist(store, {p \in papers : store[Key(p)] = "absent"}, whole)

\* A stable sort, the greatest score first.
ByScore(s, score) == Sorted(s, [i \in DOMAIN s |-> -score[i]])
Take(s, n) == SubSeq(s, 1, Min({n, Len(s)}))
\* The places of the first of their kind.
FirstPlaces(s, Same(_, _)) == {i \in DOMAIN s : \A j \in 1 .. i - 1 : ~Same(s[j], s[i])}

-----------------------------------------------------------------------------
(* The record.  at: the step that is next.  cached: the keys of s2_cache.   *)

Start(queries) ==
  [at |-> "search", queries |-> queries, found |-> <<>>, seeds |-> <<>>, seed |-> 1,
   depth |-> 0, level |-> <<>>, edge |-> 1, gathered |-> <<>>, seen |-> {}, visited |-> {},
   exhausted |-> FALSE, calls |-> 0, cached |-> {}]
PaperKey(p)   == <<"paper", p>>
EdgeKey(e, p) == <<e, p>>
\* Every paper of a list that was answered is cached on its own (put_if_absent).
PaperKeys(list) == {PaperKey(p) : p \in Range(list)}

Exhausted(x)  == [x EXCEPT !.exhausted = TRUE]
Called(x, keys, written) == [x EXCEPT !.calls = @ + 1, !.cached = IF written THEN @ \cup keys ELSE @]
NextSeed(x)   == [x EXCEPT !.at = "seed", !.seed = @ + 1]

\* cached_search_papers for the next query: there is no cache for searches.  The
\* papers found are joined, the first query that found one decides.
Unseen(list, known) == AtPlaces(list, {i \in DOMAIN list : list[i] \notin known})
Searched(x, list, written) ==
  [Called(x, PaperKeys(list), written) EXCEPT
     !.queries = Tail(@), !.found = @ \o Unseen(list, Range(@))]
SearchFailed(x) == [Called(x, {}, FALSE) EXCEPT !.queries = Tail(@)]

\* The seeds: the most cited ones, no more than NumSeeds.
Picked(x) ==
  IF x.found = <<>> THEN [x EXCEPT !.at = "end"]
  ELSE [x EXCEPT !.at = "seed", !.seeds = Take(ByScore(x.found, [i \in DOMAIN x.found |-> Count[x.found[i]]]), NumSeeds)]

\* The seed is visited and ingested; the walk below it starts.
EffectiveDepth(x) == IF Len(x.seeds) > 1 THEN Min({MaxDepth, 1}) ELSE MaxDepth
Level(x, papers, depth) ==
  IF papers = <<>> \/ depth > EffectiveDepth(x) THEN NextSeed(x)
  ELSE [x EXCEPT !.at = "edge", !.level = papers, !.depth = depth, !.edge = 1, !.gathered = <<>>]
Seeded(x) ==
  LET s == x.seeds[x.seed]
  IN Level([x EXCEPT !.visited = @ \cup {s}, !.seen = {s}], <<s>>, 1)

\* The references, then the citations, of each paper of the level.
EdgeKind(x)  == IF x.edge % 2 = 1 THEN "references" ELSE "citations"
EdgeOf(x)    == x.level[(x.edge + 1) \div 2]
EdgesLeft(x) == x.edge <= 2 * Len(x.level)
EdgeEntries(x) == IF EdgeKind(x) = "references" THEN References[EdgeOf(x)] ELSE Citations[EdgeOf(x)]
EdgeAnswer(x, on, reply) ==
  IF EdgeKind(x) = "references" THEN GetReferences(on, reply, EdgeEntries(x))
  ELSE GetCitations(on, reply, EdgeEntries(x))
EdgeCached(x) == EdgeKey(EdgeKind(x), EdgeOf(x)) \in x.cached
Gathered(x, list) ==
  LET new == Unseen(list, x.seen \cup x.visited)
  IN [x EXCEPT !.edge = @ + 1, !.gathered = @ \o new, !.seen = @ \cup Range(new)]
Fetched(x, list, written) ==
  Gathered(Called(x, PaperKeys(list) \cup {EdgeKey(EdgeKind(x), EdgeOf(x))}, written), list)
FetchFailed(x) == Gathered(Called(x, {}, FALSE), <<>>)

\* The candidates are embedded in batches and ranked by the vector at the
\* same place; a row of the answer carries the place it belongs to.
Rows(batch, backwards) ==
  LET n == Len(batch)
      row(i) == [index |-> i, vector |-> Similar[batch[i]]]
  IN [i \in 1 .. n |-> row(IF backwards THEN n + 1 - i ELSE i)]
Scores(x, backwards) ==
  LET batches == ChunksOf(x.gathered, MaxBatch)
  IN Embedded([k \in DOMAIN batches |-> Rows(batches[k], backwards)])
Near(x, scores) == {i \in DOMAIN x.gathered : scores[i] >= MinRelevance}
Winners(x, scores) ==
  LET near == Near(x, scores)
  IN Take(ByScore(AtPlaces(x.gathered, near), AtPlaces(scores, near)), PerLevel)

\* cached_get_papers_batch: one call for the winners the cache does not have.
Missing(x, winners) == {p \in Range(winners) : PaperKey(p) \notin x.cached}
Descended(x, papers) ==
  Level([x EXCEPT !.visited = @ \cup Range(papers)], papers, x.depth + 1)

-----------------------------------------------------------------------------
(* For the properties: what is within n links of a set of papers.           *)

Neighbours(papers) ==
  papers \cup UNION {Range(References[p]) \cup Range(Citations[p]) : p \in papers}
Around(papers, depth) ==
  LET ball[n \in 0 .. depth] == IF n = 0 THEN papers ELSE Neighbours(ball[n - 1])
  IN ball[depth]
=============================================================================
