----------------------------- MODULE LitIntake -----------------------------
(***************************************************************************)
(* The literature store: abstracts are ingested first (one chunk, number   *)
(* 0), then background tasks promote papers to full text by writing chunks *)
(* 0..K-1 over it, and papers.fulltext_status says how far that went.      *)
(*                                                                         *)
(* A worker is one asynchronous task: a retrieval lane (or the resolution  *)
(* of a seed) ingesting one paper, or the promotion of one paper.  Lanes   *)
(* run side by side, promotions in the background of everything else; the  *)
(* gateway's single flight keeps two promotions of a paper apart, nothing  *)
(* else is kept apart.  Every database statement or transaction is a step. *)
(***************************************************************************)
EXTENDS Integers

CONSTANTS Paper, Worker,
          K,        \* chunks of a paper's full text
          Budget,   \* fetches a process may make on each lane
          FaultSets,\* the sets of disturbances considered
          None

FaultKind ==
  {"crash", "cancel", "probe", "status", "row", "embed", "content", "fetch",
   "norender", "seed", "lanes", "overlap"}

ASSUME ConstantsAssumption ==
  /\ K \in Nat \ {0}
  /\ Budget \in Nat
  /\ FaultSets \subseteq SUBSET FaultKind
  /\ None \notin Paper \cup Worker

Chunk == 0..(K - 1)

\* A chunk in the store: no row; a vector with an empty sidecar row (between
\* the two writes); the abstract; or a piece of the full text.
Content == {"absent", "blank", "abstract", "text"}

Ingesting == {"probe", "upsert", "insert", "content"}
Promoting == {"check", "acquire", "pending", "fetch", "upsertText", "upsertNone",
              "chunk", "chunkContent", "failed", "indexed"}

Idle == [at |-> "idle", paper |-> None, index |-> 0]
Task == {Idle} \cup [at : Ingesting \cup Promoting, paper : Paper, index : Chunk]

VARIABLES
  faults,  \* the disturbances that may happen; fixed
  arxiv,   \* the papers with an arXiv id, the others being s2 papers; fixed
  row,     \* the papers that have a row in table papers
  status,  \* papers.fulltext_status, "none" by default
  chunk,   \* the chunks stored for each paper
  stray,   \* papers with a stray sidecar row: content without a vector
  writer,  \* whose row a blank chunk is: the last worker to insert its vector
  task,    \* of each worker: where it is, its paper, its next chunk
  flights, \* the gateway's in_flight set
  used     \* fetches charged to the budget of each gateway lane

vars  == <<faults, arxiv, row, status, chunk, stray, writer, task, flights, used>>
given  == <<faults, arxiv>>
chunks == <<chunk, stray, writer>>
store  == <<given, row, status, chunks>>

TypeOK ==
  /\ faults \in FaultSets
  /\ arxiv \subseteq Paper
  /\ row \subseteq Paper
  /\ status \in [Paper -> {"none", "pending", "indexed", "failed"}]
  /\ chunk \in [Paper -> [Chunk -> Content]]
  /\ stray \subseteq Paper
  /\ writer \in [Paper -> [Chunk -> Worker \cup {None}]]
  /\ task \in [Worker -> Task]
  /\ flights \subseteq Paper
  /\ used \in [{"ar5iv", "pdf"} -> 0..Budget]

Init ==
  /\ faults \in FaultSets
  /\ arxiv \in SUBSET Paper
  /\ row = {}
  /\ status = [p \in Paper |-> "none"]
  /\ chunk = [p \in Paper |-> [i \in Chunk |-> "absent"]]
  /\ stray = {}
  /\ writer = [p \in Paper |-> [i \in Chunk |-> None]]
  /\ task = [w \in Worker |-> Idle]
  /\ flights = {}
  /\ used = [lane \in {"ar5iv", "pdf"} |-> 0]
-----------------------------------------------------------------------------
Allowed(fault) == fault \in faults

Goto(w, there) == task' = [task EXCEPT ![w].at = there]
Take(w, p, there) == task' = [task EXCEPT ![w] = [at |-> there, paper |-> p, index |-> 0]]
Finish(w) == task' = [task EXCEPT ![w] = Idle]

paper == [w \in Worker |-> task[w].paper]
pc    == [w \in Worker |-> task[w].at]
index == [w \in Worker |-> task[w].index]
At(w, here) == pc[w] = here

Indexed(p) == p \in row /\ status[p] = "indexed"

\* UPDATE ... WHERE paper_id: without a row, no effect.  It may fail, which
\* is only warned about.
SetStatus(p, s) ==
  \/ status' = IF p \in row THEN [status EXCEPT ![p] = s] ELSE status
  \/ Allowed("status") /\ UNCHANGED status

\* SqliteVecStore::insert, one transaction: the old row of this chunk is
\* deleted and a new one inserted, without its content.
InsertVector(w, i) ==
  /\ chunk' = [chunk EXCEPT ![paper[w]][i] = "blank"]
  /\ writer' = [writer EXCEPT ![paper[w]][i] = w]

\* The content goes to the row this worker inserted.  If another worker has
\* replaced that row since, the statement inserts a stray one instead.
FillContent(w, i, content) ==
  IF writer[paper[w]][i] = w
  THEN /\ chunk' = [chunk EXCEPT ![paper[w]][i] = content]
       /\ writer' = [writer EXCEPT ![paper[w]][i] = None]
       /\ UNCHANGED stray
  ELSE /\ stray' = stray \cup {paper[w]}
       /\ UNCHANGED <<chunk, writer>>
-----------------------------------------------------------------------------
(***************************************************************************)
(* Abstract ingest.  A lane skips a paper that has a row; when the probe   *)
(* itself fails it ingests again.  Seed resolution does not probe.  The    *)
(* arXiv and the S2 lane of a fusion may ingest the same paper at once.    *)
(***************************************************************************)
BeingIngested(p) == \E v \in Worker : pc[v] \in Ingesting /\ paper[v] = p

StartIngest(w, p) ==
  /\ At(w, "idle")
  /\ Allowed("lanes") \/ ~BeingIngested(p)
  /\ Take(w, p, "probe") \/ (Allowed("seed") /\ Take(w, p, "upsert"))
  /\ UNCHANGED <<store, flights, used>>

Probe(w) ==
  /\ At(w, "probe")
  /\ \/ IF paper[w] \in row THEN Finish(w) ELSE Goto(w, "upsert")
     \/ Allowed("probe") /\ Goto(w, "upsert")
  /\ UNCHANGED <<store, flights, used>>

\* upsert_paper: the row is there from now on, whatever becomes of the chunk.
\* It leaves fulltext_status alone.
UpsertPaper(w) ==
  /\ At(w, "upsert")
  /\ \/ row' = row \cup {paper[w]} /\ Goto(w, "insert")
     \/ Allowed("row") /\ Finish(w) /\ UNCHANGED row
  /\ UNCHANGED <<given, status, chunks, flights, used>>

\* The embedding comes back and its vector is inserted; it fails; or an s2
\* paper has no abstract, and no chunk.
InsertAbstract(w) ==
  /\ At(w, "insert")
  /\ \/ InsertVector(w, 0) /\ Goto(w, "content")
     \/ /\ Allowed("embed") \/ paper[w] \notin arxiv
        /\ Finish(w)
        /\ UNCHANGED <<chunk, writer>>
  /\ UNCHANGED <<given, row, status, stray, flights, used>>

\* Mutant of FillAbstract: leave the row of an indexed paper alone.
FillAbstract_UnlessIndexed(w) ==
  /\ At(w, "content")
  /\ Finish(w)
  /\ IF Indexed(paper[w]) THEN UNCHANGED chunks ELSE FillContent(w, 0, "abstract")
  /\ UNCHANGED <<given, row, status, flights, used>>

FillAbstract(w) ==
  /\ At(w, "content")
  /\ Finish(w)
  /\ \/ FillContent(w, 0, "abstract")
     \/ Allowed("content") /\ UNCHANGED chunks
  /\ UNCHANGED <<given, row, status, flights, used>>

\* The 180 s limit on the retrieval for a gap drops the lane at an await.
CancelIngest(w) ==
  /\ Allowed("cancel")
  /\ pc[w] \in Ingesting
  /\ Finish(w)
  /\ UNCHANGED <<store, flights, used>>
-----------------------------------------------------------------------------
(***************************************************************************)
(* Full-text promotion of one paper, in the background.  The hits of a     *)
(* fusion are promoted once its own lanes are done; the lanes of another   *)
(* fusion may be busy with the same paper only if fusions overlap.  A hit  *)
(* has a row unless upserting it failed.                                   *)
(***************************************************************************)
StartPromotion(w, p) ==
  /\ At(w, "idle")
  /\ Allowed("overlap") \/ ~BeingIngested(p)
  /\ Allowed("row") \/ p \in row
  /\ p \notin flights
  /\ flights' = flights \cup {p}
  /\ Take(w, p, "check")
  /\ UNCHANGED <<store, used>>

EndFlight(w) ==
  /\ Finish(w)
  /\ flights' = flights \ {paper[w]}

\* Already indexed, or an s2 paper with no row or no PDF to fetch: nothing to
\* do.  A status that cannot be read counts as not indexed.
CheckStatus(w) ==
  /\ At(w, "check")
  /\ \/ /\ Indexed(paper[w]) \/ paper[w] \notin arxiv
        /\ EndFlight(w)
     \/ /\ ~Indexed(paper[w]) \/ Allowed("probe")
        /\ paper[w] \in arxiv \cup row
        /\ Goto(w, "acquire") /\ UNCHANGED flights
  /\ UNCHANGED <<store, used>>

Lane(p) == IF p \in arxiv THEN "ar5iv" ELSE "pdf"
Charge(w) == used' = [used EXCEPT ![Lane(paper[w])] = @ + 1]

AcquireSlot(w) ==
  /\ At(w, "acquire")
  /\ IF used[Lane(paper[w])] = Budget
     THEN EndFlight(w) /\ UNCHANGED used
     ELSE /\ Charge(w)
          /\ Goto(w, "pending") /\ UNCHANGED flights
  /\ UNCHANGED store

\* Mutant of MarkPending: make room for the full text first.
MarkPending_Clears(w) ==
  /\ At(w, "pending")
  /\ SetStatus(paper[w], "pending")
  /\ chunk' = [chunk EXCEPT ![paper[w]] = [i \in Chunk |-> "absent"]]
  /\ Goto(w, "fetch")
  /\ UNCHANGED <<given, row, stray, writer, flights, used>>

MarkPending(w) ==
  /\ At(w, "pending")
  /\ SetStatus(paper[w], "pending")
  /\ Goto(w, "fetch")
  /\ UNCHANGED <<given, row, chunks, flights, used>>

\* Mutant of Fetch: a failed fetch is tried again, without a bound.
Fetch_Retries(w) ==
  /\ At(w, "fetch")
  /\ Goto(w, "chunk") \/ (Allowed("fetch") /\ Goto(w, "pending"))
  /\ UNCHANGED <<store, flights, used>>

(***************************************************************************)
(* promote_arxiv_fulltext and promote_pdf_fulltext: look again, fetch, and *)
(* cut into chunks.  No LaTeX rendering (404) gives an arXiv paper no      *)
(* chunks and is no failure; a PDF without usable text is one.             *)
(***************************************************************************)
Fetch(w) ==
  /\ At(w, "fetch")
  /\ \/ Indexed(paper[w]) /\ EndFlight(w)
     \/ /\ ~Indexed(paper[w]) \/ Allowed("probe")
        /\ \/ Goto(w, IF paper[w] \in arxiv THEN "upsertText" ELSE "chunk")
           \/ Allowed("fetch") /\ Goto(w, "failed")
           \/ Allowed("norender") /\ Goto(w, IF paper[w] \in arxiv THEN "upsertNone" ELSE "failed")
        /\ UNCHANGED flights
  /\ UNCHANGED <<store, used>>

\* persist_arxiv upserts the paper again before its chunks, if it has any.
UpsertAgain(w) ==
  /\ pc[w] \in {"upsertText", "upsertNone"}
  /\ \/ /\ row' = row \cup {paper[w]}
        /\ Goto(w, IF At(w, "upsertText") THEN "chunk" ELSE "indexed")
     \/ Allowed("row") /\ Goto(w, "failed") /\ UNCHANGED row
  /\ UNCHANGED <<given, status, chunks, flights, used>>

\* persist_chunks_for_paper, chunk by chunk: embed and insert, then the
\* content.  The first failure ends it; what is written stays written.
InsertChunk(w) ==
  /\ At(w, "chunk")
  /\ \/ InsertVector(w, index[w]) /\ Goto(w, "chunkContent")
     \/ Allowed("embed") /\ Goto(w, "failed") /\ UNCHANGED <<chunk, writer>>
  /\ UNCHANGED <<given, row, status, stray, flights, used>>

NextChunk(w) ==
  task' = [task EXCEPT ![w].at = "chunk", ![w].index = @ + 1]

\* Mutant of FillChunk: the last chunk is skipped.
FillChunk_SkipsLast(w) ==
  /\ At(w, "chunkContent")
  /\ FillContent(w, index[w], "text")
  /\ IF index[w] + 1 < K - 1 THEN NextChunk(w) ELSE Goto(w, "indexed")
  /\ UNCHANGED <<given, row, status, flights, used>>

FillChunk(w) ==
  /\ At(w, "chunkContent")
  /\ \/ /\ FillContent(w, index[w], "text")
        /\ IF index[w] + 1 < K THEN NextChunk(w) ELSE Goto(w, "indexed")
     \/ Allowed("content") /\ Goto(w, "failed") /\ UNCHANGED <<chunk, stray, writer>>
  /\ UNCHANGED <<given, row, status, flights, used>>

Conclude(w) ==
  /\ pc[w] \in {"failed", "indexed"}
  /\ SetStatus(paper[w], pc[w])
  /\ EndFlight(w)
  /\ UNCHANGED <<given, row, chunks, used>>

\* The process ends, by a crash or because the review is done: its tasks and
\* its gateway are gone, the store stays, the next process starts.
Restart ==
  /\ Allowed("crash")
  /\ task' = [w \in Worker |-> Idle]
  /\ flights' = {}
  /\ used' = [lane \in {"ar5iv", "pdf"} |-> 0]
  /\ UNCHANGED store
-----------------------------------------------------------------------------
Ingest(w) == Probe(w) \/ UpsertPaper(w) \/ InsertAbstract(w) \/ FillAbstract(w)

Promote(w) ==
  \/ CheckStatus(w) \/ AcquireSlot(w) \/ MarkPending(w) \/ Fetch(w)
  \/ UpsertAgain(w) \/ InsertChunk(w) \/ FillChunk(w)   \/ Conclude(w)

Next ==
  \/ \E w \in Worker, p \in Paper : StartIngest(w, p) \/ StartPromotion(w, p)
  \/ \E w \in Worker : Ingest(w) \/ CancelIngest(w) \/ Promote(w)
  \/ Restart

Spec == Init /\ [][Next]_vars

\* A spawned task runs on: every fetch, embedding and statement it awaits has
\* a time limit.  Nothing obliges a lane or a promotion to start.
FairSpec == Spec /\ \A w \in Worker : WF_vars(Promote(w))
-----------------------------------------------------------------------------
(***************************************************************************)
(* Properties.                                                             *)
(***************************************************************************)
Free(kinds) == faults \cap kinds = {}

\* Single flight, on every one of the exits of a promotion: the keys held are
\* those of the papers being promoted, each by one task.  A key left behind
\* would keep its paper from ever being promoted again in this process.
OneFlight ==
  /\ flights = {paper[w] : w \in {v \in Worker : pc[v] \in Promoting}}
  /\ \A v, w \in Worker :
       pc[v] \in Promoting /\ pc[w] \in Promoting /\ paper[v] = paper[w] => v = w

\* Nothing writes an abstract over full text: no lane of a later fusion beside
\* the promotions of an earlier one, no unprobed ingest, no failed probe or row.
Quiet == Free({"overlap", "seed", "probe", "row"})

\* A chunk of the full text: the first of them may have been replaced since.
Stands(p, i) ==
  \/ chunk[p][i] = "text"
  \/ i = 0 /\ ~Quiet /\ chunk[p][i] # "absent"

\* A paper is seen to be indexed, or at least marked pending, before it is
\* promoted again; and every paper renders: a 404 counts as indexed without
\* any full text.
Accountable == Free({"norender"}) /\ (Free({"probe"}) \/ Free({"status"}))

\* "indexed" is what coverage notices and skips go by: all the chunks of such
\* a paper are full text, whichever lanes, seeds, crashes and failures came
\* between.  The one thing another task can take from it is chunk 0, where a
\* late abstract goes, and even that is never left without a row.
IndexedIsWhole ==
  Accountable => \A p \in Paper : Indexed(p) => \A i \in Chunk : Stands(p, i)

\* Without status failures and crashes no paper is left "pending" behind.
PendingIsInFlight ==
  Free({"status", "crash"}) => \A p \in Paper : status[p] = "pending" => p \in flights

\* A row makes every later lane skip its paper, so it had better come with
\* something to retrieve, or with someone about to insert it.
RowsAreRetrievable ==
  Free({"row", "embed", "cancel", "crash"}) =>
    \A p \in row \cap arxiv :
      chunk[p][0] # "absent" \/ \E w \in Worker : paper[w] = p /\ At(w, "insert")

\* A vector never stays without its content: whoever inserted it is about to
\* write it, however lanes and promotions are interleaved.
BlankIsBeingFilled ==
  Free({"content", "cancel", "crash"}) =>
    \A p \in Paper, i \in Chunk : chunk[p][i] = "blank" =>
      \E w \in Worker :
        /\ writer[p][i] = w /\ paper[w] = p
        /\ \/ At(w, "content") /\ i = 0
           \/ At(w, "chunkContent") /\ i = index[w]

\* A promotion ends, whatever fails in it.
FlightsEnd == \A p \in Paper : p \in flights ~> p \notin flights

-----------------------------------------------------------------------------
(***************************************************************************)
(* The inductive invariant of LiteratureProofs.                            *)
(***************************************************************************)
StatusHasRow == \A p \in Paper : status[p] # "none" => p \in row

InFlightRows == Free({"row"}) => flights \subseteq row

\* A lane past its probe writes only papers no promotion has touched yet.
Writing(w) == pc[w] \in {"upsert", "insert", "content"}
LanesBeforeFlights ==
  Quiet => \A w \in Worker : Writing(w) => paper[w] \notin flights /\ status[paper[w]] # "indexed"

\* A chunk a promotion has inserted is still there when it comes to fill it,
\* and still its own, unless an abstract has come in between.
WritersHold ==
  \A w \in Worker : At(w, "chunkContent") =>
    /\ chunk[paper[w]][index[w]] # "absent"
    /\ Quiet \/ index[w] # 0 => writer[paper[w]][index[w]] = w

\* How far a promotion is, in the chunks of its paper.
Progress(w) ==
  /\ pc[w] \in Promoting \ {"chunk", "chunkContent", "failed", "indexed"} => index[w] = 0
  /\ Accountable =>
       /\ pc[w] # "upsertNone"
       /\ pc[w] \in {"acquire", "pending"} /\ Free({"probe"}) => status[paper[w]] # "indexed"
       /\ pc[w] \in Promoting \ {"check", "acquire", "pending"} => status[paper[w]] # "indexed"
       /\ pc[w] \in {"chunk", "chunkContent"} => \A i \in 0..(index[w] - 1) : Stands(paper[w], i)
       /\ At(w, "indexed") => \A i \in Chunk : Stands(paper[w], i)

PromotionWrites == \A w \in Worker : Progress(w)

NotYetPending ==
  Free({"status", "crash"}) =>
    \A w \in Worker : pc[w] \in {"check", "acquire", "pending"} => status[paper[w]] # "pending"

IInv ==
  /\ TypeOK             /\ OneFlight          /\ StatusHasRow    /\ InFlightRows
  /\ LanesBeforeFlights /\ WritersHold        /\ PromotionWrites /\ IndexedIsWhole
  /\ NotYetPending      /\ PendingIsInFlight  /\ RowsAreRetrievable
  /\ BlankIsBeingFilled
=============================================================================
