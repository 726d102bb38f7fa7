------------------------- MODULE LiteratureProofs -------------------------
(***************************************************************************)
(* Proofs about what guards the literature: the store (LitIntake), for any *)
(* papers, tasks, chunks, budget and sets of disturbances, and a lane of   *)
(* the gateway (LitGateway), for any callers and styles, any interval,     *)
(* budget, number of attempts and waits.  The two share no state.          *)
(*                                                                         *)
(* Every action of the store moves one task and changes at most the store  *)
(* of that task's paper; the first lemmas say how pc, paper and index      *)
(* follow from the move, then one lemma per action shows that it preserves *)
(* IInv.                                                                   *)
(***************************************************************************)
EXTENDS LitIntake, LitGateway, FiniteSetTheorems, TLAPS

-----------------------------------------------------------------------------
(* The store.                                                              *)

USE ConstantsAssumption

\* A task goes on to another step with the same paper and chunk.
LEMMA GotoMoves ==
  ASSUME task \in [Worker -> Task], NEW w \in Worker, NEW there, Goto(w, there)
  PROVE  /\ pc' = [pc EXCEPT ![w] = there]
         /\ paper' = paper
         /\ index' = index
<1>1. task' = [task EXCEPT ![w] = [task[w] EXCEPT !.at = there]]
  BY DEF Goto
<1>2. task[w] \in Task
  OBVIOUS
<1>3. /\ [task[w] EXCEPT !.at = there].at = there
      /\ [task[w] EXCEPT !.at = there].paper = task[w].paper
      /\ [task[w] EXCEPT !.at = there].index = task[w].index
  BY <1>2 DEF Task, Idle
<1>4. /\ pc' = [v \in Worker |-> task'[v].at]
      /\ paper' = [v \in Worker |-> task'[v].paper]
      /\ index' = [v \in Worker |-> task'[v].index]
  BY DEF pc, paper, index
<1> QED
  BY <1>1, <1>3, <1>4 DEF pc, paper, index

LEMMA TakeMoves ==
  ASSUME task \in [Worker -> Task], NEW w \in Worker, NEW p, NEW there, Take(w, p, there)
  PROVE  /\ pc' = [pc EXCEPT ![w] = there]
         /\ paper' = [paper EXCEPT ![w] = p]
         /\ index' = [index EXCEPT ![w] = 0]
BY DEF Take, pc, paper, index

LEMMA FinishMoves ==
  ASSUME task \in [Worker -> Task], NEW w \in Worker, Finish(w)
  PROVE  /\ pc' = [pc EXCEPT ![w] = "idle"]
         /\ paper' = [paper EXCEPT ![w] = None]
         /\ index' = [index EXCEPT ![w] = 0]
BY DEF Finish, Idle, pc, paper, index

LEMMA NextChunkMoves ==
  ASSUME task \in [Worker -> Task], NEW w \in Worker, NextChunk(w)
  PROVE  /\ pc' = [pc EXCEPT ![w] = "chunk"]
         /\ paper' = paper
         /\ index' = [index EXCEPT ![w] = index[w] + 1]
<1>1. task' = [task EXCEPT ![w] = [[task[w] EXCEPT !.at = "chunk"] EXCEPT !.index = task[w].index + 1]]
  BY DEF NextChunk, Task, Idle
<1>2. task[w] \in Task
  OBVIOUS
<1>3. LET r == [[task[w] EXCEPT !.at = "chunk"] EXCEPT !.index = task[w].index + 1] IN
      r.at = "chunk" /\ r.paper = task[w].paper /\ r.index = task[w].index + 1
  BY <1>2 DEF Task, Idle
<1>4. /\ pc' = [v \in Worker |-> task'[v].at]
      /\ paper' = [v \in Worker |-> task'[v].paper]
      /\ index' = [v \in Worker |-> task'[v].index]
  BY DEF pc, paper, index
<1> QED
  BY <1>1, <1>3, <1>4 DEF pc, paper, index

\* The fields of a task are typed, and a task that is not idle has a paper.
LEMMA Fields ==
  ASSUME TypeOK
  PROVE  /\ pc \in [Worker -> {"idle"} \cup Ingesting \cup Promoting]
         /\ paper \in [Worker -> Paper \cup {None}]
         /\ index \in [Worker -> Chunk]
         /\ \A w \in Worker : pc[w] # "idle" => paper[w] \in Paper
BY DEF TypeOK, Task, Idle, Chunk, pc, paper, index, Ingesting, Promoting

LEMMA MovesAreTyped ==
  ASSUME task \in [Worker -> Task], NEW w \in Worker,
         NEW there \in Ingesting \cup Promoting
  PROVE  /\ Goto(w, there) /\ pc[w] # "idle" => task' \in [Worker -> Task]
         /\ \A p \in Paper : Take(w, p, there) => task' \in [Worker -> Task]
         /\ Finish(w) => task' \in [Worker -> Task]
         /\ NextChunk(w) /\ pc[w] # "idle" /\ index[w] + 1 < K => task' \in [Worker -> Task]
<1>1. 0 \in Chunk
  BY DEF Chunk
<1>2. ASSUME Goto(w, there), pc[w] # "idle" PROVE task' \in [Worker -> Task]
  <2>1. task[w] \in [at : Ingesting \cup Promoting, paper : Paper, index : Chunk]
    BY <1>2 DEF pc, Task, Idle
  <2>2. [task[w] EXCEPT !.at = there] \in Task
    BY <2>1 DEF Task
  <2> QED
    BY <1>2, <2>2 DEF Goto
<1>3. ASSUME NEW p \in Paper, Take(w, p, there) PROVE task' \in [Worker -> Task]
  BY <1>1, <1>3 DEF Take, Task
<1>4. ASSUME Finish(w) PROVE task' \in [Worker -> Task]
  BY <1>4 DEF Finish, Task
<1>5. ASSUME NextChunk(w), pc[w] # "idle", index[w] + 1 < K PROVE task' \in [Worker -> Task]
  <2>1. task[w] \in [at : Ingesting \cup Promoting, paper : Paper, index : Chunk]
    BY <1>5 DEF pc, Task, Idle
  <2>2. task[w].index + 1 \in Chunk
    BY <1>5, <2>1 DEF index, Chunk
  <2>3. [[task[w] EXCEPT !.at = "chunk"] EXCEPT !.index = task[w].index + 1] \in Task
    BY <2>1, <2>2 DEF Task, Promoting
  <2>4. task' = [task EXCEPT ![w] = [[task[w] EXCEPT !.at = "chunk"] EXCEPT !.index = task[w].index + 1]]
    BY <1>5, <2>1 DEF NextChunk
  <2> QED
    BY <2>3, <2>4
<1> QED
  BY <1>2, <1>3, <1>4, <1>5

-----------------------------------------------------------------------------
\* What the two writes of a chunk do to the store.
LEMMA InsertEffect ==
  ASSUME TypeOK, NEW w \in Worker, paper[w] \in Paper, NEW i \in Chunk, InsertVector(w, i)
  PROVE  /\ chunk' \in [Paper -> [Chunk -> Content]]
         /\ writer' \in [Paper -> [Chunk -> Worker \cup {None}]]
         /\ chunk'[paper[w]][i] = "blank" /\ writer'[paper[w]][i] = w
         /\ \A p \in Paper, j \in Chunk :
              p # paper[w] \/ j # i => chunk'[p][j] = chunk[p][j] /\ writer'[p][j] = writer[p][j]
BY DEF TypeOK, InsertVector, Content

LEMMA FillEffect ==
  ASSUME TypeOK, NEW w \in Worker, paper[w] \in Paper, NEW i \in Chunk,
         NEW c \in {"abstract", "text"}, FillContent(w, i, c)
  PROVE  /\ chunk' \in [Paper -> [Chunk -> Content]]
         /\ writer' \in [Paper -> [Chunk -> Worker \cup {None}]]
         /\ stray' \subseteq Paper
         /\ writer[paper[w]][i] = w =>
              chunk'[paper[w]][i] = c /\ writer'[paper[w]][i] = None /\ stray' = stray
         /\ writer[paper[w]][i] # w => chunk' = chunk /\ writer' = writer
         /\ \A p \in Paper, j \in Chunk :
              p # paper[w] \/ j # i => chunk'[p][j] = chunk[p][j] /\ writer'[p][j] = writer[p][j]
<1>1. CASE writer[paper[w]][i] = w
  <2>1. /\ chunk' = [chunk EXCEPT ![paper[w]][i] = c]
        /\ writer' = [writer EXCEPT ![paper[w]][i] = None]
        /\ stray' = stray
    BY <1>1 DEF FillContent
  <2>2. chunk' \in [Paper -> [Chunk -> Content]]
    BY <2>1 DEF TypeOK, Content
  <2>3. writer' \in [Paper -> [Chunk -> Worker \cup {None}]]
    BY <2>1 DEF TypeOK
  <2> QED
    BY <1>1, <2>1, <2>2, <2>3 DEF TypeOK
<1>2. CASE writer[paper[w]][i] # w
  BY <1>2 DEF TypeOK, FillContent
<1> QED
  BY <1>1, <1>2

\* A flight is given back by the task that holds it, or held on to.
LEMMA FlightEnds ==
  ASSUME TypeOK, OneFlight, NEW w \in Worker, pc[w] \in Promoting, EndFlight(w)
  PROVE  OneFlight'
<1>1. pc' = [pc EXCEPT ![w] = "idle"] /\ paper' = [paper EXCEPT ![w] = None]
  BY FinishMoves DEF TypeOK, EndFlight
<1> QED
  BY <1>1, Fields DEF OneFlight, EndFlight, Promoting

LEMMA FlightGoesOn ==
  ASSUME TypeOK, OneFlight, NEW w \in Worker, NEW there, pc' = [pc EXCEPT ![w] = there],
         paper' = paper, flights' = flights, (pc[w] \in Promoting) <=> (there \in Promoting)
  PROVE  OneFlight'
BY Fields DEF OneFlight

LEMMA NoFlight ==
  ASSUME TypeOK, OneFlight, NEW w \in Worker, pc[w] \in Ingesting, Finish(w), flights' = flights
  PROVE  OneFlight'
<1>1. pc' = [pc EXCEPT ![w] = "idle"] /\ paper' = [paper EXCEPT ![w] = None]
  BY FinishMoves DEF TypeOK
<1> QED
  BY <1>1, Fields DEF OneFlight, Ingesting, Promoting

\* The progress of a promotion is undone only by writes to its own paper.
LEMMA OthersProgress ==
  ASSUME TypeOK, OneFlight, NEW v \in Worker, Progress(v), faults' = faults,
         pc'[v] = pc[v], paper'[v] = paper[v], index'[v] = index[v],
         pc[v] \in Promoting =>
           /\ status'[paper[v]] = status[paper[v]]
           /\ \A i \in Chunk : Stands(paper[v], i) => Stands(paper[v], i)'
  PROVE  Progress(v)'
<1>1. index[v] \in Chunk
  BY Fields
<1>2. \A i \in 0..(index[v] - 1) : i \in Chunk
  BY <1>1 DEF Chunk
<1> QED
  BY <1>1, <1>2 DEF Progress, Accountable, Free, At, Promoting

\* As long as lanes and promotions are kept apart, no other task holds the
\* paper of a promotion.
LEMMA Apart ==
  ASSUME IInv, Quiet, NEW v \in Worker, NEW w \in Worker, v # w, pc[v] \in Promoting,
         Writing(w) \/ pc[w] \in Promoting
  PROVE  paper[v] # paper[w]
BY DEF IInv, OneFlight, LanesBeforeFlights

\* What a lane does to chunk 0 of a paper takes nothing else from it, and with
\* lanes and promotions kept apart nothing at all from a paper in promotion.
LEMMA LateAbstract ==
  ASSUME IInv, NEW w \in Worker, Writing(w), paper[w] \in Paper, faults' = faults,
         chunk' \in [Paper -> [Chunk -> Content]],
         chunk[paper[w]][0] # "absent" => chunk'[paper[w]][0] # "absent",
         \A q \in Paper, j \in Chunk : q # paper[w] \/ j # 0 => chunk'[q][j] = chunk[q][j],
         NEW p \in Paper, Quiet => p \in flights \/ status[p] = "indexed", NEW i \in Chunk, Stands(p, i)
  PROVE  Stands(p, i)'
<1>1. 0 \in Chunk /\ chunk[p][i] \in Content /\ LanesBeforeFlights
  BY DEF IInv, TypeOK, Chunk
<1>2. CASE p = paper[w] /\ i = 0
  <2>1. ~Quiet /\ chunk[p][i] # "absent"
    BY <1>1, <1>2 DEF LanesBeforeFlights, Stands, Content
  <2> QED
    BY <1>2, <2>1 DEF Stands, Quiet, Free
<1>3. CASE p # paper[w] \/ i # 0
  BY <1>3 DEF Stands, Quiet, Free
<1> QED
  BY <1>2, <1>3

\* Abstract ingest.
LEMMA StartIngestKeeps ==
  ASSUME IInv, NEW w \in Worker, NEW p \in Paper, StartIngest(w, p)
  PROVE  IInv'
<1> USE DEF IInv, StartIngest, store, given, chunks, At
<1>1. PICK there \in {"probe", "upsert"} :
        /\ Take(w, p, there)
        /\ there = "upsert" => Allowed("seed")
  OBVIOUS
<1>2. pc' = [pc EXCEPT ![w] = there] /\ paper' = [paper EXCEPT ![w] = p] /\ index' = [index EXCEPT ![w] = 0]
  BY <1>1, TakeMoves DEF TypeOK
<1>3. /\ pc \in [Worker -> {"idle"} \cup Ingesting \cup Promoting]
      /\ paper \in [Worker -> Paper \cup {None}]
      /\ index \in [Worker -> Chunk]
  BY Fields
<1> HIDE DEF StartIngest
<1> USE <1>1, <1>2, <1>3
<1>4. TypeOK'
  BY MovesAreTyped DEF TypeOK, Ingesting, StartIngest
<1>5. OneFlight'
  BY DEF OneFlight, Promoting, StartIngest
<1>6. StatusHasRow' /\ InFlightRows' /\ PendingIsInFlight' /\ IndexedIsWhole'
  BY DEF StatusHasRow, InFlightRows, PendingIsInFlight, IndexedIsWhole, Indexed, Accountable, Stands, Quiet, Free, StartIngest
<1>7. LanesBeforeFlights'
  BY DEF LanesBeforeFlights, Writing, Quiet, Free, Allowed, StartIngest
<1>8. WritersHold'
  BY DEF WritersHold, Quiet, Free, StartIngest
<1>9. PromotionWrites'
  BY DEF PromotionWrites, Progress, Promoting, Quiet, Accountable, Stands, Free, StartIngest
<1>10. NotYetPending'
  BY DEF NotYetPending, Free, StartIngest
<1>11. RowsAreRetrievable' /\ BlankIsBeingFilled'
  BY DEF RowsAreRetrievable, BlankIsBeingFilled, Free, StartIngest
<1> QED
  BY <1>4, <1>5, <1>6, <1>7, <1>8, <1>9, <1>10, <1>11

LEMMA ProbeKeeps ==
  ASSUME IInv, NEW w \in Worker, Probe(w)
  PROVE  IInv'
<1> USE DEF IInv, At
<1>1. /\ pc[w] \in {"probe"}
      /\ faults' = faults /\ arxiv' = arxiv /\ row' = row /\ status' = status /\ chunk' = chunk
      /\ stray' = stray /\ writer' = writer /\ flights' = flights /\ used' = used
  BY DEF Probe, store, given, chunks
<1>2. /\ pc \in [Worker -> {"idle"} \cup Ingesting \cup Promoting]
      /\ paper \in [Worker -> Paper \cup {None}]
      /\ index \in [Worker -> Chunk]
      /\ \A v \in Worker : pc[v] # "idle" => paper[v] \in Paper
  BY Fields
<1>3. \/ /\ Finish(w) /\ pc' = [pc EXCEPT ![w] = "idle"]
         /\ paper' = [paper EXCEPT ![w] = None] /\ index' = [index EXCEPT ![w] = 0]
      \/ /\ Goto(w, "upsert") /\ pc' = [pc EXCEPT ![w] = "upsert"]
         /\ paper' = paper /\ index' = index
         /\ (paper[w] \notin row \/ Allowed("probe"))
  BY <1>1, <1>2, FinishMoves, GotoMoves DEF Probe, TypeOK
<1> USE <1>1, <1>2, <1>3
<1>4. TypeOK'
  BY MovesAreTyped DEF TypeOK, Chunk, Content, Lane, Charge, Ingesting, Promoting, SetStatus, EndFlight, Allowed
<1>5. OneFlight'
  BY FlightGoesOn, NoFlight DEF Ingesting, Promoting
<1>6. StatusHasRow' /\ InFlightRows'
  BY DEF StatusHasRow, InFlightRows, OneFlight, Promoting, Free, Allowed, SetStatus, EndFlight, TypeOK
<1>7. LanesBeforeFlights'
  BY DEF LanesBeforeFlights, Writing, Quiet, StatusHasRow, InFlightRows, OneFlight, BeingIngested, Promoting, Ingesting, Free, Allowed, SetStatus, EndFlight, TypeOK
<1>8. WritersHold'
  BY DEF WritersHold, LanesBeforeFlights, Writing, OneFlight, Ingesting, Promoting, Quiet, Free, Allowed, TypeOK
<1>9. PromotionWrites'
  <2>1. ASSUME NEW v \in Worker, v # w PROVE Progress(v)'
    BY <2>1, OthersProgress DEF PromotionWrites, Stands, Quiet, Free, OneFlight, LanesBeforeFlights, Writing, Promoting, Ingesting, SetStatus, TypeOK
  <2>2. Progress(w)'
    BY DEF PromotionWrites, Progress, StatusHasRow, InFlightRows, OneFlight, Indexed, Quiet, Accountable, Stands, Free, Allowed, Promoting, Ingesting, SetStatus, TypeOK, Chunk, WritersHold
  <2> QED
    BY <2>1, <2>2 DEF PromotionWrites
<1>10. IndexedIsWhole'
  BY DEF IndexedIsWhole, PromotionWrites, Progress, LanesBeforeFlights, Writing, Indexed, Promoting, StatusHasRow, InFlightRows, OneFlight, Quiet, Accountable, Stands, Free, Allowed, SetStatus, TypeOK
<1>11. NotYetPending' /\ PendingIsInFlight'
  BY DEF NotYetPending, PendingIsInFlight, OneFlight, StatusHasRow, Indexed, Promoting, Free, Allowed, SetStatus, EndFlight, TypeOK
<1>12. RowsAreRetrievable'
  BY DEF RowsAreRetrievable, InFlightRows, OneFlight, Promoting, Free, Allowed
<1>13. BlankIsBeingFilled'
  BY DEF BlankIsBeingFilled, Free, Allowed, TypeOK
<1> QED
  BY <1>4, <1>5, <1>6, <1>7, <1>8, <1>9, <1>10, <1>11, <1>12, <1>13

LEMMA UpsertPaperKeeps ==
  ASSUME IInv, NEW w \in Worker, UpsertPaper(w)
  PROVE  IInv'
<1> USE DEF IInv, At
<1>1. /\ pc[w] \in {"upsert"}
      /\ faults' = faults /\ arxiv' = arxiv /\ status' = status /\ chunk' = chunk /\ stray' = stray
      /\ writer' = writer /\ flights' = flights /\ used' = used
  BY DEF UpsertPaper, store, given, chunks
<1>2. /\ pc \in [Worker -> {"idle"} \cup Ingesting \cup Promoting]
      /\ paper \in [Worker -> Paper \cup {None}]
      /\ index \in [Worker -> Chunk]
      /\ \A v \in Worker : pc[v] # "idle" => paper[v] \in Paper
  BY Fields
<1>3. \/ /\ Finish(w) /\ pc' = [pc EXCEPT ![w] = "idle"]
         /\ paper' = [paper EXCEPT ![w] = None] /\ index' = [index EXCEPT ![w] = 0]
         /\ row' = row /\ Allowed("row")
      \/ /\ Goto(w, "insert") /\ pc' = [pc EXCEPT ![w] = "insert"]
         /\ paper' = paper /\ index' = index
         /\ row' = row \cup {paper[w]}
  BY <1>1, <1>2, FinishMoves, GotoMoves DEF UpsertPaper, TypeOK
<1> USE <1>1, <1>2, <1>3
<1>4. TypeOK'
  BY MovesAreTyped DEF TypeOK, Chunk, Content, Lane, Charge, Ingesting, Promoting, SetStatus, EndFlight, Allowed
<1>5. OneFlight'
  BY FlightGoesOn, NoFlight DEF Ingesting, Promoting
<1>6. StatusHasRow' /\ InFlightRows'
  BY DEF StatusHasRow, InFlightRows, OneFlight, Promoting, Free, Allowed, SetStatus, EndFlight, TypeOK
<1>7. LanesBeforeFlights'
  BY DEF LanesBeforeFlights, Writing, Quiet, StatusHasRow, InFlightRows, OneFlight, BeingIngested, Promoting, Ingesting, Free, Allowed, SetStatus, EndFlight, TypeOK
<1>8. WritersHold'
  BY DEF WritersHold, LanesBeforeFlights, Writing, OneFlight, Ingesting, Promoting, Quiet, Free, Allowed, TypeOK
<1>9. PromotionWrites'
  <2>1. ASSUME NEW v \in Worker, v # w PROVE Progress(v)'
    BY <2>1, OthersProgress DEF PromotionWrites, Stands, Quiet, Free, OneFlight, LanesBeforeFlights, Writing, Promoting, Ingesting, SetStatus, TypeOK
  <2>2. Progress(w)'
    BY DEF PromotionWrites, Progress, StatusHasRow, InFlightRows, OneFlight, Indexed, Quiet, Accountable, Stands, Free, Allowed, Promoting, Ingesting, SetStatus, TypeOK, Chunk, WritersHold
  <2> QED
    BY <2>1, <2>2 DEF PromotionWrites
<1>10. IndexedIsWhole'
  BY DEF IndexedIsWhole, PromotionWrites, Progress, LanesBeforeFlights, Writing, Indexed, Promoting, StatusHasRow, InFlightRows, OneFlight, Quiet, Accountable, Stands, Free, Allowed, SetStatus, TypeOK
<1>11. NotYetPending' /\ PendingIsInFlight'
  <2>1. NotYetPending'
    BY DEF NotYetPending, Free
  <2>2. PendingIsInFlight'
    BY DEF PendingIsInFlight, Free
  <2> QED
    BY <2>1, <2>2
<1>12. RowsAreRetrievable'
  BY DEF RowsAreRetrievable, InFlightRows, OneFlight, Promoting, Free, Allowed
<1>13. BlankIsBeingFilled'
  BY DEF BlankIsBeingFilled, Free, Allowed, TypeOK
<1> QED
  BY <1>4, <1>5, <1>6, <1>7, <1>8, <1>9, <1>10, <1>11, <1>12, <1>13

LEMMA InsertAbstractKeeps ==
  ASSUME IInv, NEW w \in Worker, InsertAbstract(w)
  PROVE  IInv'
<1> USE DEF IInv, At
<1>1. /\ pc[w] \in {"insert"}
      /\ faults' = faults /\ arxiv' = arxiv /\ row' = row /\ status' = status /\ stray' = stray
      /\ flights' = flights /\ used' = used
  BY DEF InsertAbstract, store, given, chunks
<1>2. /\ pc \in [Worker -> {"idle"} \cup Ingesting \cup Promoting]
      /\ paper \in [Worker -> Paper \cup {None}]
      /\ index \in [Worker -> Chunk]
      /\ \A v \in Worker : pc[v] # "idle" => paper[v] \in Paper
  BY Fields
<1>3. 0 \in Chunk /\ paper[w] \in Paper
  BY <1>1, <1>2 DEF Chunk
<1>4. \/ /\ Finish(w) /\ pc' = [pc EXCEPT ![w] = "idle"]
         /\ paper' = [paper EXCEPT ![w] = None] /\ index' = [index EXCEPT ![w] = 0]
         /\ chunk' = chunk /\ writer' = writer
         /\ (Allowed("embed") \/ paper[w] \notin arxiv)
      \/ /\ Goto(w, "content") /\ pc' = [pc EXCEPT ![w] = "content"]
         /\ paper' = paper /\ index' = index
         /\ chunk'[paper[w]][0] = "blank" /\ writer'[paper[w]][0] = w
  BY <1>1, <1>2, <1>3, FinishMoves, GotoMoves, InsertEffect DEF InsertAbstract, TypeOK
<1>5. /\ chunk' \in [Paper -> [Chunk -> Content]]
      /\ writer' \in [Paper -> [Chunk -> Worker \cup {None}]]
      /\ stray' \subseteq Paper
      /\ \A q \in Paper, j \in Chunk :
           q # paper[w] \/ j # 0 => chunk'[q][j] = chunk[q][j] /\ writer'[q][j] = writer[q][j]
  BY <1>1, <1>2, <1>3, <1>4, InsertEffect DEF InsertAbstract, TypeOK
<1>6. \/ /\ Finish(w) /\ pc' = [pc EXCEPT ![w] = "idle"]
         /\ paper' = [paper EXCEPT ![w] = None] /\ index' = [index EXCEPT ![w] = 0]
      \/ /\ Goto(w, "content") /\ pc' = [pc EXCEPT ![w] = "content"]
         /\ paper' = paper /\ index' = index
  BY <1>4
<1> USE <1>1, <1>2, <1>3, <1>6
<1>7. TypeOK'
  BY <1>4, <1>5, MovesAreTyped DEF TypeOK, Chunk, Content, Lane, Charge, Ingesting, Promoting, SetStatus, EndFlight, Allowed
<1>8. OneFlight'
  BY FlightGoesOn, NoFlight DEF Ingesting, Promoting
<1>9. StatusHasRow' /\ InFlightRows'
  BY DEF StatusHasRow, InFlightRows, OneFlight, Promoting, Free, Allowed, SetStatus, EndFlight, TypeOK
<1>10. LanesBeforeFlights'
  BY DEF LanesBeforeFlights, Writing, Quiet, StatusHasRow, InFlightRows, OneFlight, BeingIngested, Promoting, Ingesting, Free, Allowed, SetStatus, EndFlight, TypeOK
<1>11. WritersHold'
  <2>1. SUFFICES ASSUME NEW v \in Worker, pc[v] = "chunkContent", v # w
        PROVE  /\ chunk'[paper[v]][index[v]] # "absent"
               /\ Quiet \/ index[v] # 0 => writer'[paper[v]][index[v]] = v
    BY DEF WritersHold, Quiet, Free
  <2>2. /\ chunk[paper[v]][index[v]] # "absent"
        /\ Quiet \/ index[v] # 0 => writer[paper[v]][index[v]] = v
        /\ paper[v] \in Paper /\ index[v] \in Chunk
    BY <2>1 DEF WritersHold
  <2>3. Quiet => paper[v] # paper[w]
    BY <2>1, Apart DEF Writing, Promoting
  <2> QED
    BY <1>4, <1>5, <2>1, <2>2, <2>3
<1>12. PromotionWrites'
  <2>1. Writing(w) /\ (chunk[paper[w]][0] # "absent" => chunk'[paper[w]][0] # "absent")
    BY <1>4 DEF Writing
  <2>2. ASSUME NEW v \in Worker, v # w PROVE Progress(v)'
    <3>1. ASSUME pc[v] \in Promoting, NEW i \in Chunk, Stands(paper[v], i)
          PROVE  Stands(paper[v], i)'
      <4>1. paper[v] \in flights /\ paper[v] \in Paper
        BY <3>1 DEF OneFlight, Promoting
      <4>2. /\ chunk' \in [Paper -> [Chunk -> Content]]
            /\ \A q \in Paper, j \in Chunk : q # paper[w] \/ j # 0 => chunk'[q][j] = chunk[q][j]
        BY <1>5
      <4>3. ASSUME NEW p \in Paper, p = paper[v] PROVE Stands(p, i)'
        <5> HIDE DEF IInv
        <5> QED
          BY <2>1, <3>1, <4>1, <4>2, <4>3, LateAbstract
      <4> QED
        BY <2>2, <4>1, <4>3 DEF Stands
    <3> QED
      BY <2>2, <3>1, OthersProgress DEF PromotionWrites
  <2>3. Progress(w)'
    BY <1>4 DEF Progress, Promoting
  <2> QED
    BY <2>2, <2>3 DEF PromotionWrites
<1>13. IndexedIsWhole'
  <2>1. Writing(w) /\ (chunk[paper[w]][0] # "absent" => chunk'[paper[w]][0] # "absent")
    BY <1>4 DEF Writing
  <2>2. ASSUME Accountable, NEW q \in Paper, Indexed(q), NEW j \in Chunk
        PROVE  Stands(q, j)'
    <3>1. Stands(q, j) /\ status[q] = "indexed"
      BY <2>2 DEF IndexedIsWhole, Indexed
    <3>2. /\ chunk' \in [Paper -> [Chunk -> Content]]
          /\ \A p \in Paper, i \in Chunk : p # paper[w] \/ i # 0 => chunk'[p][i] = chunk[p][i]
      BY <1>5
    <3> HIDE DEF IInv
    <3> QED
      BY <2>1, <2>2, <3>1, <3>2, LateAbstract
  <2> QED
    BY <2>2 DEF IndexedIsWhole, Indexed, Accountable, Free
<1>14. NotYetPending' /\ PendingIsInFlight'
  BY DEF NotYetPending, PendingIsInFlight, OneFlight, StatusHasRow, Indexed, Promoting, Free, Allowed, SetStatus, EndFlight, TypeOK
<1>15. RowsAreRetrievable'
  <2>1. \A q \in Paper : chunk[q][0] # "absent" => chunk'[q][0] # "absent"
    BY <1>4, <1>5 DEF Content
  <2>2. ASSUME NEW q \in Paper, NEW v \in Worker, paper[v] = q, At(v, "insert"), v # w
        PROVE  \E u \in Worker : paper'[u] = q /\ At(u, "insert")'
    BY <2>2
  <2>3. Free({"row", "embed", "cancel", "crash"}) /\ paper[w] \in arxiv => chunk'[paper[w]][0] # "absent"
    BY <1>4, <1>5 DEF Free, Allowed
  <2>4. ASSUME Free({"row", "embed", "cancel", "crash"}), NEW q \in row \cap arxiv
        PROVE  chunk'[q][0] # "absent" \/ \E u \in Worker : paper'[u] = q /\ At(u, "insert")'
    <3>1. q \in Paper
      BY <2>4 DEF TypeOK
    <3>2. CASE chunk[q][0] # "absent"
      BY <2>1, <3>1, <3>2
    <3>3. CASE chunk[q][0] = "absent"
      <4>1. PICK v \in Worker : paper[v] = q /\ At(v, "insert")
        BY <2>4, <3>3 DEF RowsAreRetrievable
      <4> HIDE DEF At
      <4> QED
        BY <2>2, <2>3, <2>4, <3>1, <4>1
    <3> QED
      BY <3>2, <3>3
  <2> QED
    BY <2>4 DEF RowsAreRetrievable, Free
<1>16. BlankIsBeingFilled'
  <2>1. SUFFICES ASSUME Free({"content", "cancel", "crash"}), NEW q \in Paper, NEW j \in Chunk,
                       chunk'[q][j] = "blank"
        PROVE  \E u \in Worker :
                 /\ writer'[q][j] = u /\ paper'[u] = q
                 /\ \/ pc'[u] = "content" /\ j = 0
                    \/ pc'[u] = "chunkContent" /\ j = index'[u]
    BY DEF BlankIsBeingFilled, Free
  <2>2. CASE q = paper[w] /\ j = 0 /\ pc'[w] \in {"content", "chunkContent"}
    BY <1>4, <1>5, <2>2
  <2>3. CASE q # paper[w] \/ j # 0 \/ pc'[w] \notin {"content", "chunkContent"}
    <3>1. chunk[q][j] = "blank" /\ writer'[q][j] = writer[q][j]
      BY <1>4, <1>5, <2>1, <2>3
    <3>2. PICK u \in Worker :
            /\ writer[q][j] = u /\ paper[u] = q
            /\ \/ pc[u] = "content" /\ j = 0
               \/ pc[u] = "chunkContent" /\ j = index[u]
      BY <2>1, <3>1 DEF BlankIsBeingFilled
    <3> QED
      BY <3>1, <3>2
  <2> QED
    BY <2>2, <2>3
<1> QED
  BY <1>7, <1>8, <1>9, <1>10, <1>11, <1>12, <1>13, <1>14, <1>15, <1>16

LEMMA FillAbstractKeeps ==
  ASSUME IInv, NEW w \in Worker, FillAbstract(w)
  PROVE  IInv'
<1> USE DEF IInv, At
<1>1. /\ pc[w] \in {"content"}
      /\ faults' = faults /\ arxiv' = arxiv /\ row' = row /\ status' = status /\ flights' = flights
      /\ used' = used
  BY DEF FillAbstract, store, given, chunks
<1>2. /\ pc \in [Worker -> {"idle"} \cup Ingesting \cup Promoting]
      /\ paper \in [Worker -> Paper \cup {None}]
      /\ index \in [Worker -> Chunk]
      /\ \A v \in Worker : pc[v] # "idle" => paper[v] \in Paper
  BY Fields
<1>3. 0 \in Chunk /\ paper[w] \in Paper
  BY <1>1, <1>2 DEF Chunk
<1>4. \/ /\ Finish(w) /\ pc' = [pc EXCEPT ![w] = "idle"]
         /\ paper' = [paper EXCEPT ![w] = None] /\ index' = [index EXCEPT ![w] = 0]
         /\ IF writer[paper[w]][0] = w
            THEN stray' = stray /\ chunk'[paper[w]][0] = "abstract" /\ writer'[paper[w]][0] = None
            ELSE chunk' = chunk /\ writer' = writer
      \/ /\ Finish(w) /\ pc' = [pc EXCEPT ![w] = "idle"]
         /\ paper' = [paper EXCEPT ![w] = None] /\ index' = [index EXCEPT ![w] = 0]
         /\ chunk' = chunk /\ writer' = writer /\ stray' = stray
         /\ Allowed("content")
  <2>1. ASSUME FillContent(w, 0, "abstract")
        PROVE  IF writer[paper[w]][0] = w
               THEN stray' = stray /\ chunk'[paper[w]][0] = "abstract" /\ writer'[paper[w]][0] = None
               ELSE chunk' = chunk /\ writer' = writer
    BY <1>3, <2>1, FillEffect
  <2>2. /\ pc' = [pc EXCEPT ![w] = "idle"]
        /\ paper' = [paper EXCEPT ![w] = None] /\ index' = [index EXCEPT ![w] = 0]
    BY FinishMoves DEF FillAbstract, TypeOK
  <2> QED
    BY <2>1, <2>2 DEF FillAbstract, chunks
<1>5. /\ chunk' \in [Paper -> [Chunk -> Content]]
      /\ writer' \in [Paper -> [Chunk -> Worker \cup {None}]]
      /\ stray' \subseteq Paper
      /\ \A q \in Paper, j \in Chunk :
           q # paper[w] \/ j # 0 => chunk'[q][j] = chunk[q][j] /\ writer'[q][j] = writer[q][j]
  BY <1>1, <1>2, <1>3, <1>4, FillEffect DEF FillAbstract, TypeOK, chunks
<1>6. /\ Finish(w) /\ pc' = [pc EXCEPT ![w] = "idle"]
      /\ paper' = [paper EXCEPT ![w] = None] /\ index' = [index EXCEPT ![w] = 0]
  BY <1>4
<1> USE <1>1, <1>2, <1>3, <1>6
<1>7. TypeOK'
  <2>1. task' \in [Worker -> Task]
    BY MovesAreTyped DEF TypeOK, FillAbstract, Ingesting
  <2> QED
    BY <1>4, <1>5, <2>1 DEF TypeOK
<1>8. OneFlight'
  BY FlightGoesOn, NoFlight DEF Ingesting, Promoting
<1>9. StatusHasRow' /\ InFlightRows'
  BY DEF StatusHasRow, InFlightRows, OneFlight, Promoting, Free, Allowed, SetStatus, EndFlight, TypeOK
<1>10. LanesBeforeFlights'
  BY DEF LanesBeforeFlights, Writing, Quiet, StatusHasRow, InFlightRows, OneFlight, BeingIngested, Promoting, Ingesting, Free, Allowed, SetStatus, EndFlight, TypeOK
<1>11. WritersHold'
  <2>1. SUFFICES ASSUME NEW v \in Worker, pc[v] = "chunkContent", v # w
        PROVE  /\ chunk'[paper[v]][index[v]] # "absent"
               /\ Quiet \/ index[v] # 0 => writer'[paper[v]][index[v]] = v
    BY DEF WritersHold, Quiet, Free
  <2>2. /\ chunk[paper[v]][index[v]] # "absent"
        /\ Quiet \/ index[v] # 0 => writer[paper[v]][index[v]] = v
        /\ paper[v] \in Paper /\ index[v] \in Chunk
    BY <2>1 DEF WritersHold
  <2>3. Quiet => paper[v] # paper[w]
    BY <2>1, Apart DEF Writing, Promoting
  <2> QED
    BY <1>4, <1>5, <2>1, <2>2, <2>3
<1>12. PromotionWrites'
  <2>1. Writing(w) /\ (chunk[paper[w]][0] # "absent" => chunk'[paper[w]][0] # "absent")
    BY <1>4 DEF Writing
  <2>2. ASSUME NEW v \in Worker, v # w PROVE Progress(v)'
    <3>1. ASSUME pc[v] \in Promoting, NEW i \in Chunk, Stands(paper[v], i)
          PROVE  Stands(paper[v], i)'
      <4>1. paper[v] \in flights /\ paper[v] \in Paper
        BY <3>1 DEF OneFlight, Promoting
      <4>2. /\ chunk' \in [Paper -> [Chunk -> Content]]
            /\ \A q \in Paper, j \in Chunk : q # paper[w] \/ j # 0 => chunk'[q][j] = chunk[q][j]
        BY <1>5
      <4>3. ASSUME NEW p \in Paper, p = paper[v] PROVE Stands(p, i)'
        <5> HIDE DEF IInv
        <5> QED
          BY <2>1, <3>1, <4>1, <4>2, <4>3, LateAbstract
      <4> QED
        BY <2>2, <4>1, <4>3 DEF Stands
    <3> QED
      BY <2>2, <3>1, OthersProgress DEF PromotionWrites
  <2>3. Progress(w)'
    BY <1>4 DEF Progress, Promoting
  <2> QED
    BY <2>2, <2>3 DEF PromotionWrites
<1>13. IndexedIsWhole'
  <2>1. Writing(w) /\ (chunk[paper[w]][0] # "absent" => chunk'[paper[w]][0] # "absent")
    BY <1>4 DEF Writing
  <2>2. ASSUME Accountable, NEW q \in Paper, Indexed(q), NEW j \in Chunk
        PROVE  Stands(q, j)'
    <3>1. Stands(q, j) /\ status[q] = "indexed"
      BY <2>2 DEF IndexedIsWhole, Indexed
    <3>2. /\ chunk' \in [Paper -> [Chunk -> Content]]
          /\ \A p \in Paper, i \in Chunk : p # paper[w] \/ i # 0 => chunk'[p][i] = chunk[p][i]
      BY <1>5
    <3> HIDE DEF IInv
    <3> QED
      BY <2>1, <2>2, <3>1, <3>2, LateAbstract
  <2> QED
    BY <2>2 DEF IndexedIsWhole, Indexed, Accountable, Free
<1>14. NotYetPending' /\ PendingIsInFlight'
  BY DEF NotYetPending, PendingIsInFlight, OneFlight, StatusHasRow, Indexed, Promoting, Free, Allowed, SetStatus, EndFlight, TypeOK
<1>15. RowsAreRetrievable'
  <2>1. \A q \in Paper : chunk[q][0] # "absent" => chunk'[q][0] # "absent"
    BY <1>4, <1>5 DEF Content
  <2>2. ASSUME NEW q \in Paper, NEW v \in Worker, paper[v] = q, At(v, "insert"), v # w
        PROVE  \E u \in Worker : paper'[u] = q /\ At(u, "insert")'
    BY <2>2
  <2> QED
    BY <2>1, <2>2 DEF RowsAreRetrievable, Free, TypeOK
<1>16. BlankIsBeingFilled'
  <2>1. SUFFICES ASSUME Free({"content", "cancel", "crash"}), NEW q \in Paper, NEW j \in Chunk,
                       chunk'[q][j] = "blank"
        PROVE  \E u \in Worker :
                 /\ writer'[q][j] = u /\ paper'[u] = q
                 /\ \/ pc'[u] = "content" /\ j = 0
                    \/ pc'[u] = "chunkContent" /\ j = index'[u]
    BY DEF BlankIsBeingFilled, Free
  <2>2. ~Allowed("content")
    BY <2>1 DEF Free, Allowed
  <2>3. /\ chunk[q][j] = "blank" /\ writer'[q][j] = writer[q][j]
        /\ q = paper[w] /\ j = 0 => writer[q][j] # w
    BY <1>4, <1>5, <2>1, <2>2
  <2>4. PICK u \in Worker :
          /\ writer[q][j] = u /\ paper[u] = q
          /\ \/ pc[u] = "content" /\ j = 0
             \/ pc[u] = "chunkContent" /\ j = index[u]
    BY <2>1, <2>3 DEF BlankIsBeingFilled
  <2>5. u # w
    BY <2>3, <2>4
  <2> QED
    BY <2>3, <2>4, <2>5
<1> QED
  BY <1>7, <1>8, <1>9, <1>10, <1>11, <1>12, <1>13, <1>14, <1>15, <1>16

LEMMA CancelIngestKeeps ==
  ASSUME IInv, NEW w \in Worker, CancelIngest(w)
  PROVE  IInv'
<1> USE DEF IInv, At
<1>1. /\ pc[w] \in Ingesting
      /\ faults' = faults /\ arxiv' = arxiv /\ row' = row /\ status' = status /\ chunk' = chunk
      /\ stray' = stray /\ writer' = writer /\ flights' = flights /\ used' = used
  BY DEF CancelIngest, store, given, chunks
<1>2. /\ pc \in [Worker -> {"idle"} \cup Ingesting \cup Promoting]
      /\ paper \in [Worker -> Paper \cup {None}]
      /\ index \in [Worker -> Chunk]
      /\ \A v \in Worker : pc[v] # "idle" => paper[v] \in Paper
  BY Fields
<1>3. /\ Finish(w) /\ pc' = [pc EXCEPT ![w] = "idle"]
      /\ paper' = [paper EXCEPT ![w] = None] /\ index' = [index EXCEPT ![w] = 0]
      /\ Allowed("cancel")
  BY <1>1, <1>2, FinishMoves DEF CancelIngest, TypeOK
<1> USE <1>1, <1>2, <1>3
<1>4. TypeOK'
  BY MovesAreTyped DEF TypeOK, Chunk, Content, Lane, Charge, Ingesting, Promoting, SetStatus, EndFlight, Allowed
<1>5. OneFlight'
  BY FlightGoesOn, NoFlight DEF Ingesting, Promoting
<1>6. StatusHasRow' /\ InFlightRows'
  BY DEF StatusHasRow, InFlightRows, OneFlight, Promoting, Free, Allowed, SetStatus, EndFlight, TypeOK
<1>7. LanesBeforeFlights'
  BY DEF LanesBeforeFlights, Writing, Quiet, StatusHasRow, InFlightRows, OneFlight, BeingIngested, Promoting, Ingesting, Free, Allowed, SetStatus, EndFlight, TypeOK
<1>8. WritersHold'
  BY DEF WritersHold, LanesBeforeFlights, Writing, OneFlight, Ingesting, Promoting, Quiet, Free, Allowed, TypeOK
<1>9. PromotionWrites'
  <2>1. ASSUME NEW v \in Worker, v # w PROVE Progress(v)'
    BY <2>1, OthersProgress DEF PromotionWrites, Stands, Quiet, Free, OneFlight, LanesBeforeFlights, Writing, Promoting, Ingesting, SetStatus, TypeOK
  <2>2. Progress(w)'
    BY DEF PromotionWrites, Progress, StatusHasRow, InFlightRows, OneFlight, Indexed, Quiet, Accountable, Stands, Free, Allowed, Promoting, Ingesting, SetStatus, TypeOK, Chunk, WritersHold
  <2> QED
    BY <2>1, <2>2 DEF PromotionWrites
<1>10. IndexedIsWhole'
  BY DEF IndexedIsWhole, PromotionWrites, Progress, LanesBeforeFlights, Writing, Indexed, Promoting, StatusHasRow, InFlightRows, OneFlight, Quiet, Accountable, Stands, Free, Allowed, SetStatus, TypeOK
<1>11. NotYetPending' /\ PendingIsInFlight'
  BY DEF NotYetPending, PendingIsInFlight, OneFlight, StatusHasRow, Indexed, Promoting, Free, Allowed, SetStatus, EndFlight, TypeOK
<1>12. RowsAreRetrievable'
  BY DEF RowsAreRetrievable, InFlightRows, OneFlight, Promoting, Free, Allowed
<1>13. BlankIsBeingFilled'
  BY DEF BlankIsBeingFilled, Free, Allowed, TypeOK
<1> QED
  BY <1>4, <1>5, <1>6, <1>7, <1>8, <1>9, <1>10, <1>11, <1>12, <1>13

LEMMA StartPromotionKeeps ==
  ASSUME IInv, NEW w \in Worker, NEW p \in Paper, StartPromotion(w, p)
  PROVE  IInv'
<1> USE DEF IInv, At
<1>1. /\ pc[w] \in {"idle"}
      /\ Allowed("overlap") \/ ~BeingIngested(p)
      /\ Allowed("row") \/ p \in row
      /\ p \notin flights /\ flights' = flights \cup {p}
      /\ faults' = faults /\ arxiv' = arxiv /\ row' = row /\ status' = status /\ chunk' = chunk
      /\ stray' = stray /\ writer' = writer /\ used' = used
  BY DEF StartPromotion, store, given, chunks
<1>2. /\ pc \in [Worker -> {"idle"} \cup Ingesting \cup Promoting]
      /\ paper \in [Worker -> Paper \cup {None}]
      /\ index \in [Worker -> Chunk]
      /\ \A v \in Worker : pc[v] # "idle" => paper[v] \in Paper
  BY Fields
<1>3. /\ Take(w, p, "check") /\ pc' = [pc EXCEPT ![w] = "check"]
      /\ paper' = [paper EXCEPT ![w] = p] /\ index' = [index EXCEPT ![w] = 0]
  BY <1>1, <1>2, TakeMoves DEF StartPromotion, TypeOK
<1> USE <1>1, <1>2, <1>3
<1>4. TypeOK'
  BY MovesAreTyped DEF TypeOK, Chunk, Content, Lane, Charge, Ingesting, Promoting, SetStatus, EndFlight, Allowed
<1>5. OneFlight'
  BY DEF OneFlight, Promoting, EndFlight
<1>6. StatusHasRow' /\ InFlightRows'
  BY DEF StatusHasRow, InFlightRows, OneFlight, Promoting, Free, Allowed, SetStatus, EndFlight, TypeOK
<1>7. LanesBeforeFlights'
  BY DEF LanesBeforeFlights, Writing, Quiet, StatusHasRow, InFlightRows, OneFlight, BeingIngested, Promoting, Ingesting, Free, Allowed, SetStatus, EndFlight, TypeOK
<1>8. WritersHold'
  BY DEF WritersHold, LanesBeforeFlights, Writing, OneFlight, Ingesting, Promoting, Quiet, Free, Allowed, TypeOK
<1>9. PromotionWrites'
  <2>1. ASSUME NEW v \in Worker, v # w PROVE Progress(v)'
    BY <2>1, OthersProgress DEF PromotionWrites, Stands, Quiet, Free, OneFlight, LanesBeforeFlights, Writing, Promoting, Ingesting, SetStatus, TypeOK
  <2>2. Progress(w)'
    BY DEF PromotionWrites, Progress, StatusHasRow, InFlightRows, OneFlight, Indexed, Quiet, Accountable, Stands, Free, Allowed, Promoting, Ingesting, SetStatus, TypeOK, Chunk, WritersHold
  <2> QED
    BY <2>1, <2>2 DEF PromotionWrites
<1>10. IndexedIsWhole'
  BY DEF IndexedIsWhole, PromotionWrites, Progress, LanesBeforeFlights, Writing, Indexed, Promoting, StatusHasRow, InFlightRows, OneFlight, Quiet, Accountable, Stands, Free, Allowed, SetStatus, TypeOK
<1>11. NotYetPending' /\ PendingIsInFlight'
  BY DEF NotYetPending, PendingIsInFlight, OneFlight, StatusHasRow, Indexed, Promoting, Free, Allowed, SetStatus, EndFlight, TypeOK
<1>12. RowsAreRetrievable'
  BY DEF RowsAreRetrievable, InFlightRows, OneFlight, Promoting, Free, Allowed
<1>13. BlankIsBeingFilled'
  BY DEF BlankIsBeingFilled, Free, Allowed, TypeOK
<1> QED
  BY <1>4, <1>5, <1>6, <1>7, <1>8, <1>9, <1>10, <1>11, <1>12, <1>13

LEMMA CheckStatusKeeps ==
  ASSUME IInv, NEW w \in Worker, CheckStatus(w)
  PROVE  IInv'
<1> USE DEF IInv, At
<1>1. /\ pc[w] \in {"check"}
      /\ faults' = faults /\ arxiv' = arxiv /\ row' = row /\ status' = status /\ chunk' = chunk
      /\ stray' = stray /\ writer' = writer /\ used' = used
  BY DEF CheckStatus, store, given, chunks
<1>2. /\ pc \in [Worker -> {"idle"} \cup Ingesting \cup Promoting]
      /\ paper \in [Worker -> Paper \cup {None}]
      /\ index \in [Worker -> Chunk]
      /\ \A v \in Worker : pc[v] # "idle" => paper[v] \in Paper
  BY Fields
<1>3. \/ /\ Finish(w) /\ pc' = [pc EXCEPT ![w] = "idle"]
         /\ paper' = [paper EXCEPT ![w] = None] /\ index' = [index EXCEPT ![w] = 0]
         /\ EndFlight(w)
      \/ /\ Goto(w, "acquire") /\ pc' = [pc EXCEPT ![w] = "acquire"]
         /\ paper' = paper /\ index' = index
         /\ flights' = flights
         /\ (~Indexed(paper[w]) \/ Allowed("probe"))
  BY <1>1, <1>2, FinishMoves, GotoMoves DEF CheckStatus, TypeOK, EndFlight
<1> USE <1>1, <1>2, <1>3
<1>4. TypeOK'
  BY MovesAreTyped DEF TypeOK, Chunk, Content, Lane, Charge, Ingesting, Promoting, SetStatus, EndFlight, Allowed
<1>5. OneFlight'
  <2>1. CASE pc'[w] = "idle"
    BY <2>1, FlightGoesOn, FlightEnds DEF Ingesting, Promoting
  <2>2. CASE pc'[w] = "acquire"
    BY <2>2, FlightGoesOn, FlightEnds DEF Ingesting, Promoting
  <2> QED
    BY <2>1, <2>2
<1>6. StatusHasRow' /\ InFlightRows'
  BY DEF StatusHasRow, InFlightRows, OneFlight, Promoting, Free, Allowed, SetStatus, EndFlight, TypeOK
<1>7. LanesBeforeFlights'
  BY DEF LanesBeforeFlights, Writing, Quiet, StatusHasRow, InFlightRows, OneFlight, BeingIngested, Promoting, Ingesting, Free, Allowed, SetStatus, EndFlight, TypeOK
<1>8. WritersHold'
  BY DEF WritersHold, LanesBeforeFlights, Writing, OneFlight, Ingesting, Promoting, Quiet, Free, Allowed, TypeOK
<1>9. PromotionWrites'
  <2>1. ASSUME NEW v \in Worker, v # w PROVE Progress(v)'
    BY <2>1, OthersProgress DEF PromotionWrites, Stands, Quiet, Free, OneFlight, LanesBeforeFlights, Writing, Promoting, Ingesting, SetStatus, TypeOK
  <2>2. Progress(w)'
    <3>1. CASE pc'[w] = "idle"
      BY <3>1 DEF PromotionWrites, Progress, StatusHasRow, InFlightRows, OneFlight, Indexed, Quiet, Accountable, Stands, Free, Allowed, Promoting, Ingesting, SetStatus, TypeOK, Chunk, WritersHold
    <3>2. CASE pc'[w] = "acquire"
      BY <3>2 DEF PromotionWrites, Progress, StatusHasRow, InFlightRows, OneFlight, Indexed, Quiet, Accountable, Stands, Free, Allowed, Promoting, Ingesting, SetStatus, TypeOK, Chunk, WritersHold
    <3> QED
      BY <3>1, <3>2
  <2> QED
    BY <2>1, <2>2 DEF PromotionWrites
<1>10. IndexedIsWhole'
  BY DEF IndexedIsWhole, PromotionWrites, Progress, LanesBeforeFlights, Writing, Indexed, Promoting, StatusHasRow, InFlightRows, OneFlight, Quiet, Accountable, Stands, Free, Allowed, SetStatus, TypeOK
<1>11. NotYetPending' /\ PendingIsInFlight'
  <2>1. NotYetPending'
    BY DEF NotYetPending, Free
  <2>2. ASSUME Free({"status", "crash"}), NEW q \in Paper, status[q] = "pending"
        PROVE  q \in flights'
    <3>1. q \in flights /\ q # paper[w]
      BY <2>2 DEF PendingIsInFlight, NotYetPending
    <3> QED
      BY <3>1 DEF EndFlight
  <2> QED
    BY <2>1, <2>2 DEF PendingIsInFlight, Free
<1>12. RowsAreRetrievable'
  BY DEF RowsAreRetrievable, InFlightRows, OneFlight, Promoting, Free, Allowed
<1>13. BlankIsBeingFilled'
  <2>1. ASSUME NEW u \in Worker, pc[u] \in {"content", "chunkContent"}
        PROVE  pc'[u] = pc[u] /\ paper'[u] = paper[u] /\ index'[u] = index[u]
    BY <2>1
  <2> QED
    BY <2>1 DEF BlankIsBeingFilled, Free
<1> QED
  BY <1>4, <1>5, <1>6, <1>7, <1>8, <1>9, <1>10, <1>11, <1>12, <1>13

LEMMA AcquireSlotKeeps ==
  ASSUME IInv, NEW w \in Worker, AcquireSlot(w)
  PROVE  IInv'
<1> USE DEF IInv, At
<1>1. /\ pc[w] \in {"acquire"}
      /\ faults' = faults /\ arxiv' = arxiv /\ row' = row /\ status' = status /\ chunk' = chunk
      /\ stray' = stray /\ writer' = writer
  BY DEF AcquireSlot, store, given, chunks
<1>2. /\ pc \in [Worker -> {"idle"} \cup Ingesting \cup Promoting]
      /\ paper \in [Worker -> Paper \cup {None}]
      /\ index \in [Worker -> Chunk]
      /\ \A v \in Worker : pc[v] # "idle" => paper[v] \in Paper
  BY Fields
<1>3. \/ /\ Finish(w) /\ pc' = [pc EXCEPT ![w] = "idle"]
         /\ paper' = [paper EXCEPT ![w] = None] /\ index' = [index EXCEPT ![w] = 0]
         /\ EndFlight(w)
         /\ used' = used
      \/ /\ Goto(w, "pending") /\ pc' = [pc EXCEPT ![w] = "pending"]
         /\ paper' = paper /\ index' = index
         /\ flights' = flights
         /\ Charge(w)
         /\ used[Lane(paper[w])] # Budget
  BY <1>1, <1>2, FinishMoves, GotoMoves DEF AcquireSlot, TypeOK, EndFlight
<1> USE <1>1, <1>2, <1>3
<1>4. TypeOK'
  BY MovesAreTyped DEF TypeOK, Chunk, Content, Lane, Charge, Ingesting, Promoting, SetStatus, EndFlight, Allowed
<1>5. OneFlight'
  <2>1. CASE pc'[w] = "idle"
    BY <2>1, FlightGoesOn, FlightEnds DEF Ingesting, Promoting
  <2>2. CASE pc'[w] = "pending"
    BY <2>2, FlightGoesOn, FlightEnds DEF Ingesting, Promoting
  <2> QED
    BY <2>1, <2>2
<1>6. StatusHasRow' /\ InFlightRows'
  BY DEF StatusHasRow, InFlightRows, OneFlight, Promoting, Free, Allowed, SetStatus, EndFlight, TypeOK
<1>7. LanesBeforeFlights'
  BY DEF LanesBeforeFlights, Writing, Quiet, StatusHasRow, InFlightRows, OneFlight, BeingIngested, Promoting, Ingesting, Free, Allowed, SetStatus, EndFlight, TypeOK
<1>8. WritersHold'
  BY DEF WritersHold, LanesBeforeFlights, Writing, OneFlight, Ingesting, Promoting, Quiet, Free, Allowed, TypeOK
<1>9. PromotionWrites'
  <2>1. ASSUME NEW v \in Worker, v # w PROVE Progress(v)'
    BY <2>1, OthersProgress DEF PromotionWrites, Stands, Quiet, Free, OneFlight, LanesBeforeFlights, Writing, Promoting, Ingesting, SetStatus, TypeOK
  <2>2. Progress(w)'
    <3>1. CASE pc'[w] = "idle"
      BY <3>1 DEF PromotionWrites, Progress, StatusHasRow, InFlightRows, OneFlight, Indexed, Quiet, Accountable, Stands, Free, Allowed, Promoting, Ingesting, SetStatus, TypeOK, Chunk, WritersHold
    <3>2. CASE pc'[w] = "pending"
      BY <3>2 DEF PromotionWrites, Progress, StatusHasRow, InFlightRows, OneFlight, Indexed, Quiet, Accountable, Stands, Free, Allowed, Promoting, Ingesting, SetStatus, TypeOK, Chunk, WritersHold
    <3> QED
      BY <3>1, <3>2
  <2> QED
    BY <2>1, <2>2 DEF PromotionWrites
<1>10. IndexedIsWhole'
  BY DEF IndexedIsWhole, PromotionWrites, Progress, LanesBeforeFlights, Writing, Indexed, Promoting, StatusHasRow, InFlightRows, OneFlight, Quiet, Accountable, Stands, Free, Allowed, SetStatus, TypeOK
<1>11. NotYetPending' /\ PendingIsInFlight'
  BY DEF NotYetPending, PendingIsInFlight, OneFlight, StatusHasRow, Indexed, Promoting, Free, Allowed, SetStatus, EndFlight, TypeOK
<1>12. RowsAreRetrievable'
  BY DEF RowsAreRetrievable, InFlightRows, OneFlight, Promoting, Free, Allowed
<1>13. BlankIsBeingFilled'
  BY DEF BlankIsBeingFilled, Free, Allowed, TypeOK
<1> QED
  BY <1>4, <1>5, <1>6, <1>7, <1>8, <1>9, <1>10, <1>11, <1>12, <1>13

LEMMA MarkPendingKeeps ==
  ASSUME IInv, NEW w \in Worker, MarkPending(w)
  PROVE  IInv'
<1> USE DEF IInv, At
<1>1. /\ pc[w] \in {"pending"}
      /\ SetStatus(paper[w], "pending")
      /\ faults' = faults /\ arxiv' = arxiv /\ row' = row /\ chunk' = chunk /\ stray' = stray
      /\ writer' = writer /\ flights' = flights /\ used' = used
  BY DEF MarkPending, store, given, chunks
<1>2. /\ pc \in [Worker -> {"idle"} \cup Ingesting \cup Promoting]
      /\ paper \in [Worker -> Paper \cup {None}]
      /\ index \in [Worker -> Chunk]
      /\ \A v \in Worker : pc[v] # "idle" => paper[v] \in Paper
  BY Fields
<1>3. /\ Goto(w, "fetch") /\ pc' = [pc EXCEPT ![w] = "fetch"]
      /\ paper' = paper /\ index' = index
  BY <1>1, <1>2, GotoMoves DEF MarkPending, TypeOK
<1> USE <1>1, <1>2, <1>3
<1>4. TypeOK'
  BY MovesAreTyped DEF TypeOK, Chunk, Content, Lane, Charge, Ingesting, Promoting, SetStatus, EndFlight, Allowed
<1>5. OneFlight'
  BY FlightGoesOn, FlightEnds DEF Ingesting, Promoting
<1>6. StatusHasRow' /\ InFlightRows'
  BY DEF StatusHasRow, InFlightRows, OneFlight, Promoting, Free, Allowed, SetStatus, EndFlight, TypeOK
<1>7. LanesBeforeFlights'
  BY DEF LanesBeforeFlights, Writing, Quiet, StatusHasRow, InFlightRows, OneFlight, BeingIngested, Promoting, Ingesting, Free, Allowed, SetStatus, EndFlight, TypeOK
<1>8. WritersHold'
  BY DEF WritersHold, LanesBeforeFlights, Writing, OneFlight, Ingesting, Promoting, Quiet, Free, Allowed, TypeOK
<1>9. PromotionWrites'
  <2>1. ASSUME NEW v \in Worker, v # w PROVE Progress(v)'
    BY <2>1, OthersProgress DEF PromotionWrites, Stands, Quiet, Free, OneFlight, Promoting, SetStatus, TypeOK
  <2>2. Accountable => status'[paper[w]] # "indexed"
    BY DEF PromotionWrites, Progress, Promoting, SetStatus, StatusHasRow, Accountable, Free, Allowed, TypeOK
  <2>3. Progress(w)'
    BY <2>2 DEF PromotionWrites, Progress, Promoting, Quiet, Accountable, Stands, Free
  <2> QED
    BY <2>1, <2>3 DEF PromotionWrites
<1>10. IndexedIsWhole'
  BY DEF IndexedIsWhole, PromotionWrites, Progress, LanesBeforeFlights, Writing, Indexed, Promoting, StatusHasRow, InFlightRows, OneFlight, Quiet, Accountable, Stands, Free, Allowed, SetStatus, TypeOK
<1>11. NotYetPending' /\ PendingIsInFlight'
  BY DEF NotYetPending, PendingIsInFlight, OneFlight, StatusHasRow, Indexed, Promoting, Free, Allowed, SetStatus, EndFlight, TypeOK
<1>12. RowsAreRetrievable'
  BY DEF RowsAreRetrievable, InFlightRows, OneFlight, Promoting, Free, Allowed
<1>13. BlankIsBeingFilled'
  BY DEF BlankIsBeingFilled, Free, Allowed, TypeOK
<1> QED
  BY <1>4, <1>5, <1>6, <1>7, <1>8, <1>9, <1>10, <1>11, <1>12, <1>13

LEMMA FetchKeeps ==
  ASSUME IInv, NEW w \in Worker, Fetch(w)
  PROVE  IInv'
<1> USE DEF IInv, At
<1>1. /\ pc[w] \in {"fetch"}
      /\ faults' = faults /\ arxiv' = arxiv /\ row' = row /\ status' = status /\ chunk' = chunk
      /\ stray' = stray /\ writer' = writer /\ used' = used
  BY DEF Fetch, store, given, chunks
<1>2. /\ pc \in [Worker -> {"idle"} \cup Ingesting \cup Promoting]
      /\ paper \in [Worker -> Paper \cup {None}]
      /\ index \in [Worker -> Chunk]
      /\ \A v \in Worker : pc[v] # "idle" => paper[v] \in Paper
  BY Fields
<1>3. \/ /\ Finish(w) /\ pc' = [pc EXCEPT ![w] = "idle"]
         /\ paper' = [paper EXCEPT ![w] = None] /\ index' = [index EXCEPT ![w] = 0]
         /\ EndFlight(w)
         /\ Indexed(paper[w])
      \/ /\ Goto(w, "upsertText") /\ pc' = [pc EXCEPT ![w] = "upsertText"]
         /\ paper' = paper /\ index' = index
         /\ flights' = flights
         /\ (~Indexed(paper[w]) \/ Allowed("probe"))
      \/ /\ Goto(w, "upsertNone") /\ pc' = [pc EXCEPT ![w] = "upsertNone"]
         /\ paper' = paper /\ index' = index
         /\ flights' = flights
         /\ (~Indexed(paper[w]) \/ Allowed("probe"))
         /\ Allowed("norender")
      \/ /\ Goto(w, "chunk") /\ pc' = [pc EXCEPT ![w] = "chunk"]
         /\ paper' = paper /\ index' = index
         /\ flights' = flights
         /\ (~Indexed(paper[w]) \/ Allowed("probe"))
      \/ /\ Goto(w, "failed") /\ pc' = [pc EXCEPT ![w] = "failed"]
         /\ paper' = paper /\ index' = index
         /\ flights' = flights
         /\ (~Indexed(paper[w]) \/ Allowed("probe"))
  BY <1>1, <1>2, FinishMoves, GotoMoves DEF Fetch, TypeOK, EndFlight
<1> USE <1>1, <1>2, <1>3
<1>4. TypeOK'
  BY MovesAreTyped DEF TypeOK, Chunk, Content, Lane, Charge, Ingesting, Promoting, SetStatus, EndFlight, Allowed
<1>5. OneFlight'
  <2>1. CASE pc'[w] = "idle"
    BY <2>1, FlightGoesOn, FlightEnds DEF Ingesting, Promoting
  <2>2. CASE pc'[w] = "upsertText"
    BY <2>2, FlightGoesOn, FlightEnds DEF Ingesting, Promoting
  <2>3. CASE pc'[w] = "upsertNone"
    BY <2>3, FlightGoesOn, FlightEnds DEF Ingesting, Promoting
  <2>4. CASE pc'[w] = "chunk"
    BY <2>4, FlightGoesOn, FlightEnds DEF Ingesting, Promoting
  <2>5. CASE pc'[w] = "failed"
    BY <2>5, FlightGoesOn, FlightEnds DEF Ingesting, Promoting
  <2> QED
    BY <2>1, <2>2, <2>3, <2>4, <2>5
<1>6. StatusHasRow' /\ InFlightRows'
  BY DEF StatusHasRow, InFlightRows, OneFlight, Promoting, Free, Allowed, SetStatus, EndFlight, TypeOK
<1>7. LanesBeforeFlights'
  BY DEF LanesBeforeFlights, Writing, Quiet, StatusHasRow, InFlightRows, OneFlight, BeingIngested, Promoting, Ingesting, Free, Allowed, SetStatus, EndFlight, TypeOK
<1>8. WritersHold'
  BY DEF WritersHold, LanesBeforeFlights, Writing, OneFlight, Ingesting, Promoting, Quiet, Free, Allowed, TypeOK
<1>9. PromotionWrites'
  <2>1. ASSUME NEW v \in Worker, v # w PROVE Progress(v)'
    BY <2>1, OthersProgress DEF PromotionWrites, Stands, Quiet, Free, OneFlight, Promoting, EndFlight
  <2>2. pc'[w] = "idle" \/ index'[w] = 0
    BY DEF PromotionWrites, Progress, Promoting
  <2>3. Accountable =>
          pc'[w] = "idle" \/ (status'[paper'[w]] # "indexed" /\ pc'[w] \notin {"upsertNone", "indexed"})
    BY DEF PromotionWrites, Progress, Promoting, Accountable, Stands, Free, Allowed
  <2>4. pc'[w] # "idle" => pc'[w] \in Promoting /\ (\A i \in 0..(index'[w] - 1) : index'[w] # 0)
    BY <2>2 DEF Promoting
  <2>5. Progress(w)'
    BY <2>2, <2>3, <2>4 DEF Progress, Promoting, Quiet, Accountable, Stands, Free
  <2> QED
    BY <2>1, <2>5 DEF PromotionWrites
<1>10. IndexedIsWhole'
  BY DEF IndexedIsWhole, PromotionWrites, Progress, LanesBeforeFlights, Writing, Indexed, Promoting, StatusHasRow, InFlightRows, OneFlight, Quiet, Accountable, Stands, Free, Allowed, SetStatus, TypeOK
<1>11. NotYetPending' /\ PendingIsInFlight'
  <2>1. NotYetPending'
    BY DEF NotYetPending, Free
  <2>2. ASSUME Free({"status", "crash"}), NEW q \in Paper, status[q] = "pending"
        PROVE  q \in flights'
    <3>1. q \in flights
      BY <2>2 DEF PendingIsInFlight
    <3>2. CASE EndFlight(w)
      BY <2>2, <3>1, <3>2 DEF EndFlight, Indexed
    <3> QED
      BY <3>1, <3>2
  <2> QED
    BY <2>1, <2>2 DEF PendingIsInFlight, Free
<1>12. RowsAreRetrievable'
  BY DEF RowsAreRetrievable, InFlightRows, OneFlight, Promoting, Free, Allowed
<1>13. BlankIsBeingFilled'
  BY DEF BlankIsBeingFilled, Free, Allowed, TypeOK
<1> QED
  BY <1>4, <1>5, <1>6, <1>7, <1>8, <1>9, <1>10, <1>11, <1>12, <1>13

LEMMA UpsertAgainKeeps ==
  ASSUME IInv, NEW w \in Worker, UpsertAgain(w)
  PROVE  IInv'
<1> USE DEF IInv, At
<1>1. /\ pc[w] \in {"upsertText", "upsertNone"}
      /\ faults' = faults /\ arxiv' = arxiv /\ status' = status /\ chunk' = chunk /\ stray' = stray
      /\ writer' = writer /\ flights' = flights /\ used' = used
  BY DEF UpsertAgain, store, given, chunks
<1>2. /\ pc \in [Worker -> {"idle"} \cup Ingesting \cup Promoting]
      /\ paper \in [Worker -> Paper \cup {None}]
      /\ index \in [Worker -> Chunk]
      /\ \A v \in Worker : pc[v] # "idle" => paper[v] \in Paper
  BY Fields
<1>3. \/ /\ Goto(w, "chunk") /\ pc' = [pc EXCEPT ![w] = "chunk"]
         /\ paper' = paper /\ index' = index
         /\ At(w, "upsertText")
         /\ row' = row \cup {paper[w]}
      \/ /\ Goto(w, "indexed") /\ pc' = [pc EXCEPT ![w] = "indexed"]
         /\ paper' = paper /\ index' = index
         /\ At(w, "upsertNone")
         /\ row' = row \cup {paper[w]}
      \/ /\ Goto(w, "failed") /\ pc' = [pc EXCEPT ![w] = "failed"]
         /\ paper' = paper /\ index' = index
         /\ row' = row
  BY <1>1, <1>2, GotoMoves DEF UpsertAgain, TypeOK
<1> USE <1>1, <1>2, <1>3
<1>4. TypeOK'
  BY MovesAreTyped DEF TypeOK, Chunk, Content, Lane, Charge, Ingesting, Promoting, SetStatus, EndFlight, Allowed
<1>5. OneFlight'
  BY FlightGoesOn, FlightEnds DEF Ingesting, Promoting
<1>6. StatusHasRow' /\ InFlightRows'
  BY DEF StatusHasRow, InFlightRows, OneFlight, Promoting, Free, Allowed, SetStatus, EndFlight, TypeOK
<1>7. LanesBeforeFlights'
  BY DEF LanesBeforeFlights, Writing, Quiet, StatusHasRow, InFlightRows, OneFlight, BeingIngested, Promoting, Ingesting, Free, Allowed, SetStatus, EndFlight, TypeOK
<1>8. WritersHold'
  BY DEF WritersHold, LanesBeforeFlights, Writing, OneFlight, Ingesting, Promoting, Quiet, Free, Allowed, TypeOK
<1>9. PromotionWrites'
  <2>1. ASSUME NEW v \in Worker, v # w PROVE Progress(v)'
    BY <2>1, OthersProgress DEF PromotionWrites, Stands, Quiet, Free, OneFlight, Promoting, EndFlight
  <2>2. pc'[w] = "idle" \/ index'[w] = 0
    BY DEF PromotionWrites, Progress, Promoting
  <2>3. Accountable =>
          pc'[w] = "idle" \/ (status'[paper'[w]] # "indexed" /\ pc'[w] \notin {"upsertNone", "indexed"})
    BY DEF PromotionWrites, Progress, Promoting, Accountable, Stands, Free, Allowed
  <2>4. pc'[w] # "idle" => pc'[w] \in Promoting /\ (\A i \in 0..(index'[w] - 1) : index'[w] # 0)
    BY <2>2 DEF Promoting
  <2>5. Progress(w)'
    BY <2>2, <2>3, <2>4 DEF Progress, Promoting, Quiet, Accountable, Stands, Free
  <2> QED
    BY <2>1, <2>5 DEF PromotionWrites
<1>10. IndexedIsWhole'
  BY DEF IndexedIsWhole, PromotionWrites, Progress, LanesBeforeFlights, Writing, Indexed, Promoting, StatusHasRow, InFlightRows, OneFlight, Quiet, Accountable, Stands, Free, Allowed, SetStatus, TypeOK
<1>11. NotYetPending' /\ PendingIsInFlight'
  BY DEF NotYetPending, PendingIsInFlight, OneFlight, StatusHasRow, Indexed, Promoting, Free, Allowed, SetStatus, EndFlight, TypeOK
<1>12. RowsAreRetrievable'
  BY DEF RowsAreRetrievable, InFlightRows, OneFlight, Promoting, Free, Allowed
<1>13. BlankIsBeingFilled'
  BY DEF BlankIsBeingFilled, Free, Allowed, TypeOK
<1> QED
  BY <1>4, <1>5, <1>6, <1>7, <1>8, <1>9, <1>10, <1>11, <1>12, <1>13

LEMMA InsertChunkKeeps ==
  ASSUME IInv, NEW w \in Worker, InsertChunk(w)
  PROVE  IInv'
<1> USE DEF IInv, At
<1>1. /\ pc[w] \in {"chunk"}
      /\ faults' = faults /\ arxiv' = arxiv /\ row' = row /\ status' = status /\ stray' = stray
      /\ flights' = flights /\ used' = used
  BY DEF InsertChunk, store, given, chunks
<1>2. /\ pc \in [Worker -> {"idle"} \cup Ingesting \cup Promoting]
      /\ paper \in [Worker -> Paper \cup {None}]
      /\ index \in [Worker -> Chunk]
      /\ \A v \in Worker : pc[v] # "idle" => paper[v] \in Paper
  BY Fields
<1>3. 0 \in Chunk /\ index[w] \in Chunk /\ paper[w] \in Paper
  BY <1>1, <1>2 DEF Chunk
<1>4. \/ /\ Goto(w, "chunkContent") /\ pc' = [pc EXCEPT ![w] = "chunkContent"]
         /\ paper' = paper /\ index' = index
         /\ chunk'[paper[w]][index[w]] = "blank" /\ writer'[paper[w]][index[w]] = w
      \/ /\ Goto(w, "failed") /\ pc' = [pc EXCEPT ![w] = "failed"]
         /\ paper' = paper /\ index' = index
         /\ chunk' = chunk /\ writer' = writer
         /\ Allowed("embed")
  BY <1>1, <1>2, <1>3, GotoMoves, InsertEffect DEF InsertChunk, TypeOK
<1>5. /\ chunk' \in [Paper -> [Chunk -> Content]]
      /\ writer' \in [Paper -> [Chunk -> Worker \cup {None}]]
      /\ stray' \subseteq Paper
      /\ \A q \in Paper, j \in Chunk :
           q # paper[w] \/ j # index[w] => chunk'[q][j] = chunk[q][j] /\ writer'[q][j] = writer[q][j]
  BY <1>1, <1>2, <1>3, <1>4, InsertEffect DEF InsertChunk, TypeOK
<1>6. \/ /\ Goto(w, "chunkContent") /\ pc' = [pc EXCEPT ![w] = "chunkContent"]
         /\ paper' = paper /\ index' = index
      \/ /\ Goto(w, "failed") /\ pc' = [pc EXCEPT ![w] = "failed"]
         /\ paper' = paper /\ index' = index
  BY <1>4
<1> USE <1>1, <1>2, <1>3, <1>6
<1>7. TypeOK'
  BY <1>4, <1>5, MovesAreTyped DEF TypeOK, Chunk, Content, Lane, Charge, Ingesting, Promoting, SetStatus, EndFlight, Allowed
<1>8. OneFlight'
  BY FlightGoesOn, FlightEnds DEF Ingesting, Promoting
<1>9. StatusHasRow' /\ InFlightRows'
  BY DEF StatusHasRow, InFlightRows, OneFlight, Promoting, Free, Allowed, SetStatus, EndFlight, TypeOK
<1>10. LanesBeforeFlights'
  BY DEF LanesBeforeFlights, Writing, Quiet, StatusHasRow, InFlightRows, OneFlight, BeingIngested, Promoting, Ingesting, Free, Allowed, SetStatus, EndFlight, TypeOK
<1>11. WritersHold'
  <2>1. ASSUME NEW v \in Worker, pc'[v] = "chunkContent", v # w
        PROVE  /\ chunk'[paper[v]][index[v]] # "absent"
               /\ Quiet \/ index[v] # 0 => writer'[paper[v]][index[v]] = v
    <3>1. paper[v] # paper[w] /\ paper[v] \in Paper /\ index[v] \in Chunk
      BY <2>1 DEF OneFlight, Promoting
    <3> QED
      BY <1>4, <1>5, <2>1, <3>1 DEF WritersHold
  <2>2. pc'[w] = "chunkContent" =>
          chunk'[paper[w]][index[w]] # "absent" /\ writer'[paper[w]][index[w]] = w
    BY <1>4
  <2> QED
    BY <2>1, <2>2 DEF WritersHold, Quiet, Free
<1>12. PromotionWrites'
  <2>1. ASSUME NEW v \in Worker, v # w PROVE Progress(v)'
    BY <1>4, <1>5, <2>1, OthersProgress DEF PromotionWrites, Stands, Quiet, Free, OneFlight, Promoting, TypeOK
  <2>2. Progress(w)'
    <3>1. \A i \in 0..(index[w] - 1) : i \in Chunk /\ i # index[w]
      BY DEF Chunk
    <3>2. Accountable => \A i \in 0..(index[w] - 1) : Stands(paper[w], i)
      BY DEF PromotionWrites, Progress
    <3>3. Accountable => \A i \in 0..(index[w] - 1) : Stands(paper[w], i)'
      BY <1>5, <3>1, <3>2 DEF Stands, Quiet, Free
    <3> QED
      BY <3>3 DEF PromotionWrites, Progress, Promoting, Accountable, Free
  <2> QED
    BY <2>1, <2>2 DEF PromotionWrites
<1>13. IndexedIsWhole'
  <2>1. ASSUME Accountable, NEW q \in Paper, Indexed(q)
        PROVE  q # paper[w]
    BY <2>1 DEF PromotionWrites, Progress, Promoting, Indexed
  <2>2. ASSUME Accountable, NEW q \in Paper, Indexed(q), NEW j \in Chunk
        PROVE  Stands(q, j)'
    BY <1>5, <2>1, <2>2 DEF IndexedIsWhole, Stands, Quiet, Free
  <2> QED
    BY <2>2 DEF IndexedIsWhole, Indexed, Accountable, Free
<1>14. NotYetPending' /\ PendingIsInFlight'
  BY DEF NotYetPending, PendingIsInFlight, OneFlight, StatusHasRow, Indexed, Promoting, Free, Allowed, SetStatus, EndFlight, TypeOK
<1>15. RowsAreRetrievable'
  <2>1. \A q \in Paper : chunk[q][0] # "absent" => chunk'[q][0] # "absent"
    BY <1>4, <1>5 DEF Content
  <2>2. ASSUME NEW q \in Paper, NEW v \in Worker, paper[v] = q, At(v, "insert"), v # w
        PROVE  \E u \in Worker : paper'[u] = q /\ At(u, "insert")'
    BY <2>2
  <2> QED
    BY <2>1, <2>2 DEF RowsAreRetrievable, Free, TypeOK
<1>16. BlankIsBeingFilled'
  <2>1. SUFFICES ASSUME Free({"content", "cancel", "crash"}), NEW q \in Paper, NEW j \in Chunk,
                       chunk'[q][j] = "blank"
        PROVE  \E u \in Worker :
                 /\ writer'[q][j] = u /\ paper'[u] = q
                 /\ \/ pc'[u] = "content" /\ j = 0
                    \/ pc'[u] = "chunkContent" /\ j = index'[u]
    BY DEF BlankIsBeingFilled, Free
  <2>2. CASE q = paper[w] /\ j = index[w] /\ pc'[w] \in {"content", "chunkContent"}
    BY <1>4, <1>5, <2>2
  <2>3. CASE q # paper[w] \/ j # index[w] \/ pc'[w] \notin {"content", "chunkContent"}
    <3>1. chunk[q][j] = "blank" /\ writer'[q][j] = writer[q][j]
      BY <1>4, <1>5, <2>1, <2>3
    <3>2. PICK u \in Worker :
            /\ writer[q][j] = u /\ paper[u] = q
            /\ \/ pc[u] = "content" /\ j = 0
               \/ pc[u] = "chunkContent" /\ j = index[u]
      BY <2>1, <3>1 DEF BlankIsBeingFilled
    <3> QED
      BY <3>1, <3>2
  <2> QED
    BY <2>2, <2>3
<1> QED
  BY <1>7, <1>8, <1>9, <1>10, <1>11, <1>12, <1>13, <1>14, <1>15, <1>16

LEMMA FillChunkKeeps ==
  ASSUME IInv, NEW w \in Worker, FillChunk(w)
  PROVE  IInv'
<1> USE DEF IInv, At
<1>1. /\ pc[w] \in {"chunkContent"}
      /\ faults' = faults /\ arxiv' = arxiv /\ row' = row /\ status' = status /\ flights' = flights
      /\ used' = used
  BY DEF FillChunk, store, given, chunks
<1>2. /\ pc \in [Worker -> {"idle"} \cup Ingesting \cup Promoting]
      /\ paper \in [Worker -> Paper \cup {None}]
      /\ index \in [Worker -> Chunk]
      /\ \A v \in Worker : pc[v] # "idle" => paper[v] \in Paper
  BY Fields
<1>3. 0 \in Chunk /\ index[w] \in Chunk /\ paper[w] \in Paper
  BY <1>1, <1>2 DEF Chunk
<1>4. \/ /\ NextChunk(w) /\ pc' = [pc EXCEPT ![w] = "chunk"] /\ index[w] + 1 < K
         /\ paper' = paper /\ index' = [index EXCEPT ![w] = index[w] + 1]
         /\ IF writer[paper[w]][index[w]] = w
            THEN stray' = stray /\ chunk'[paper[w]][index[w]] = "text" /\ writer'[paper[w]][index[w]] = None
            ELSE chunk' = chunk /\ writer' = writer
      \/ /\ Goto(w, "indexed") /\ pc' = [pc EXCEPT ![w] = "indexed"]
         /\ paper' = paper /\ index' = index
         /\ index[w] + 1 = K
         /\ IF writer[paper[w]][index[w]] = w
            THEN stray' = stray /\ chunk'[paper[w]][index[w]] = "text" /\ writer'[paper[w]][index[w]] = None
            ELSE chunk' = chunk /\ writer' = writer
      \/ /\ Goto(w, "failed") /\ pc' = [pc EXCEPT ![w] = "failed"]
         /\ paper' = paper /\ index' = index
         /\ chunk' = chunk /\ writer' = writer /\ stray' = stray
         /\ Allowed("content")
  <2>1. ASSUME FillContent(w, index[w], "text")
        PROVE  IF writer[paper[w]][index[w]] = w
               THEN stray' = stray /\ chunk'[paper[w]][index[w]] = "text" /\ writer'[paper[w]][index[w]] = None
               ELSE chunk' = chunk /\ writer' = writer
    BY <1>3, <2>1, FillEffect
  <2>2. index[w] + 1 < K \/ index[w] + 1 = K
    BY <1>3 DEF Chunk
  <2>3. task \in [Worker -> Task]
    BY DEF TypeOK
  <2>4. CASE FillContent(w, index[w], "text") /\ index[w] + 1 < K /\ NextChunk(w)
    <3>1. pc' = [pc EXCEPT ![w] = "chunk"] /\ paper' = paper /\ index' = [index EXCEPT ![w] = index[w] + 1]
      BY <2>3, <2>4, NextChunkMoves
    <3> QED
      BY <2>1, <2>4, <3>1
  <2>5. CASE FillContent(w, index[w], "text") /\ index[w] + 1 = K /\ Goto(w, "indexed")
    <3>1. pc' = [pc EXCEPT ![w] = "indexed"] /\ paper' = paper /\ index' = index
      BY <2>3, <2>5, GotoMoves
    <3> QED
      BY <2>1, <2>5, <3>1
  <2>6. CASE Allowed("content") /\ Goto(w, "failed") /\ chunk' = chunk /\ writer' = writer /\ stray' = stray
    BY <1>1, <2>3, <2>6, GotoMoves
  <2> QED
    BY <1>3, <2>2, <2>4, <2>5, <2>6 DEF FillChunk, Chunk
<1>5. /\ chunk' \in [Paper -> [Chunk -> Content]]
      /\ writer' \in [Paper -> [Chunk -> Worker \cup {None}]]
      /\ stray' \subseteq Paper
      /\ \A q \in Paper, j \in Chunk :
           q # paper[w] \/ j # index[w] => chunk'[q][j] = chunk[q][j] /\ writer'[q][j] = writer[q][j]
  BY <1>1, <1>2, <1>3, <1>4, FillEffect DEF FillChunk, TypeOK
<1>6. \/ /\ NextChunk(w) /\ pc' = [pc EXCEPT ![w] = "chunk"]
         /\ paper' = paper /\ index' = [index EXCEPT ![w] = index[w] + 1]
      \/ /\ Goto(w, "indexed") /\ pc' = [pc EXCEPT ![w] = "indexed"]
         /\ paper' = paper /\ index' = index
      \/ /\ Goto(w, "failed") /\ pc' = [pc EXCEPT ![w] = "failed"]
         /\ paper' = paper /\ index' = index
  BY <1>4
<1> USE <1>1, <1>2, <1>3, <1>6
<1>7. TypeOK'
  BY <1>4, <1>5, MovesAreTyped DEF TypeOK, Chunk, Content, Lane, Charge, Ingesting, Promoting, SetStatus, EndFlight, Allowed
<1>8. OneFlight'
  BY FlightGoesOn, FlightEnds DEF Ingesting, Promoting
<1>9. StatusHasRow' /\ InFlightRows'
  BY DEF StatusHasRow, InFlightRows, OneFlight, Promoting, Free, Allowed, SetStatus, EndFlight, TypeOK
<1>10. LanesBeforeFlights'
  BY DEF LanesBeforeFlights, Writing, Quiet, StatusHasRow, InFlightRows, OneFlight, BeingIngested, Promoting, Ingesting, Free, Allowed, SetStatus, EndFlight, TypeOK
<1>11. WritersHold'
  <2>1. CASE pc'[w] = "chunk"
    BY <2>1, <1>4, <1>5 DEF WritersHold, LanesBeforeFlights, Writing, OneFlight, Ingesting, Promoting, Quiet, Free, Allowed, TypeOK
  <2>2. CASE pc'[w] = "indexed"
    BY <2>2, <1>4, <1>5 DEF WritersHold, LanesBeforeFlights, Writing, OneFlight, Ingesting, Promoting, Quiet, Free, Allowed, TypeOK
  <2>3. CASE pc'[w] = "failed"
    BY <2>3, <1>4, <1>5 DEF WritersHold, LanesBeforeFlights, Writing, OneFlight, Ingesting, Promoting, Quiet, Free, Allowed, TypeOK
  <2> QED
    BY <2>1, <2>2, <2>3
<1>12. PromotionWrites'
  <2>1. ASSUME NEW v \in Worker, v # w PROVE Progress(v)'
    <3>1. pc[v] \in Promoting => paper[v] # paper[w] /\ paper[v] \in Paper
      BY <2>1 DEF OneFlight, Promoting
    <3>2. pc[v] \in Promoting => \A i \in Chunk : Stands(paper[v], i) => Stands(paper[v], i)'
      BY <1>5, <3>1 DEF Stands, Quiet, Free
    <3> QED
      BY <2>1, <3>2, OthersProgress DEF PromotionWrites
  <2>2. ASSUME Accountable
        PROVE  /\ status'[paper[w]] # "indexed"
               /\ \A i \in 0..(index[w] - 1) : Stands(paper[w], i)
    BY <2>2 DEF PromotionWrites, Progress, Promoting
  <2>3. ASSUME Accountable, pc'[w] \in {"chunk", "indexed"}
        PROVE  \A i \in 0..index[w] : Stands(paper[w], i)'
    <3>1. \/ chunk'[paper[w]][index[w]] = "text"
          \/ index[w] = 0 /\ ~Quiet /\ chunk'[paper[w]][index[w]] # "absent"
      BY <1>4, <2>3 DEF WritersHold
    <3>2. ASSUME NEW i \in Chunk, i = index[w] PROVE Stands(paper[w], i)'
      BY <3>1, <3>2 DEF Stands, Quiet, Free
    <3>3. \A i \in 0..index[w] : i \in Chunk /\ (i = index[w] \/ i \in 0..(index[w] - 1))
      BY DEF Chunk
    <3>4. \A i \in 0..(index[w] - 1) : i \in Chunk /\ i # index[w]
      BY DEF Chunk
    <3>5. \A i \in 0..(index[w] - 1) : Stands(paper[w], i)'
      BY <1>5, <2>2, <2>3, <3>4 DEF Stands, Quiet, Free
    <3> QED
      BY <3>2, <3>3, <3>5 DEF Stands
  <2>4. ASSUME Accountable, pc'[w] = "indexed"
        PROVE  Chunk = 0..index[w]
    BY <1>4, <1>5, <2>4 DEF Chunk
  <2>5. ASSUME Accountable, pc'[w] = "chunk"
        PROVE  index'[w] - 1 = index[w]
    BY <2>5 DEF Chunk
  <2>6. Progress(w)'
    BY <2>2, <2>3, <2>4, <2>5 DEF Progress, Promoting, Accountable, Free
  <2> QED
    BY <2>1, <2>6 DEF PromotionWrites
<1>13. IndexedIsWhole'
  <2>1. ASSUME Accountable, NEW q \in Paper, Indexed(q)
        PROVE  q # paper[w]
    BY <2>1 DEF PromotionWrites, Progress, Promoting, Indexed
  <2>2. ASSUME Accountable, NEW q \in Paper, Indexed(q), NEW j \in Chunk
        PROVE  Stands(q, j)'
    BY <1>5, <2>1, <2>2 DEF IndexedIsWhole, Stands, Quiet, Free
  <2> QED
    BY <2>2 DEF IndexedIsWhole, Indexed, Accountable, Free
<1>14. NotYetPending' /\ PendingIsInFlight'
  BY DEF NotYetPending, PendingIsInFlight, OneFlight, StatusHasRow, Indexed, Promoting, Free, Allowed, SetStatus, EndFlight, TypeOK
<1>15. RowsAreRetrievable'
  <2>1. \A q \in Paper : chunk[q][0] # "absent" => chunk'[q][0] # "absent"
    BY <1>4, <1>5 DEF Content
  <2>2. ASSUME NEW q \in Paper, NEW v \in Worker, paper[v] = q, At(v, "insert"), v # w
        PROVE  \E u \in Worker : paper'[u] = q /\ At(u, "insert")'
    BY <2>2
  <2> QED
    BY <2>1, <2>2 DEF RowsAreRetrievable, Free, TypeOK
<1>16. BlankIsBeingFilled'
  <2>1. SUFFICES ASSUME Free({"content", "cancel", "crash"}), NEW q \in Paper, NEW j \in Chunk,
                       chunk'[q][j] = "blank"
        PROVE  \E u \in Worker :
                 /\ writer'[q][j] = u /\ paper'[u] = q
                 /\ \/ pc'[u] = "content" /\ j = 0
                    \/ pc'[u] = "chunkContent" /\ j = index'[u]
    BY DEF BlankIsBeingFilled, Free
  <2>2. ~Allowed("content")
    BY <2>1 DEF Free, Allowed
  <2>3. /\ chunk[q][j] = "blank" /\ writer'[q][j] = writer[q][j]
        /\ q = paper[w] /\ j = index[w] => writer[q][j] # w
    BY <1>4, <1>5, <2>1, <2>2
  <2>4. PICK u \in Worker :
          /\ writer[q][j] = u /\ paper[u] = q
          /\ \/ pc[u] = "content" /\ j = 0
             \/ pc[u] = "chunkContent" /\ j = index[u]
    BY <2>1, <2>3 DEF BlankIsBeingFilled
  <2>5. u # w
    BY <2>3, <2>4
  <2> QED
    BY <2>3, <2>4, <2>5
<1> QED
  BY <1>7, <1>8, <1>9, <1>10, <1>11, <1>12, <1>13, <1>14, <1>15, <1>16

LEMMA ConcludeKeeps ==
  ASSUME IInv, NEW w \in Worker, Conclude(w)
  PROVE  IInv'
<1> USE DEF IInv, At
<1>1. /\ pc[w] \in {"failed", "indexed"}
      /\ faults' = faults /\ arxiv' = arxiv /\ row' = row /\ chunk' = chunk /\ stray' = stray
      /\ writer' = writer /\ used' = used
  BY DEF Conclude, store, given, chunks
<1>2. /\ pc \in [Worker -> {"idle"} \cup Ingesting \cup Promoting]
      /\ paper \in [Worker -> Paper \cup {None}]
      /\ index \in [Worker -> Chunk]
      /\ \A v \in Worker : pc[v] # "idle" => paper[v] \in Paper
  BY Fields
<1>3. /\ Finish(w) /\ pc' = [pc EXCEPT ![w] = "idle"]
      /\ paper' = [paper EXCEPT ![w] = None] /\ index' = [index EXCEPT ![w] = 0]
      /\ EndFlight(w)
      /\ SetStatus(paper[w], pc[w])
  BY <1>1, <1>2, FinishMoves DEF Conclude, TypeOK, EndFlight
<1> USE <1>1, <1>2, <1>3
<1>4. TypeOK'
  BY MovesAreTyped DEF TypeOK, Chunk, Content, Lane, Charge, Ingesting, Promoting, SetStatus, EndFlight, Allowed
<1>5. OneFlight'
  BY FlightGoesOn, FlightEnds DEF Ingesting, Promoting
<1>6. StatusHasRow' /\ InFlightRows'
  BY DEF StatusHasRow, InFlightRows, OneFlight, Promoting, Free, Allowed, SetStatus, EndFlight, TypeOK
<1>7. LanesBeforeFlights'
  BY DEF LanesBeforeFlights, Writing, Quiet, StatusHasRow, InFlightRows, OneFlight, BeingIngested, Promoting, Ingesting, Free, Allowed, SetStatus, EndFlight, TypeOK
<1>8. WritersHold'
  BY DEF WritersHold, LanesBeforeFlights, Writing, OneFlight, Ingesting, Promoting, Quiet, Free, Allowed, TypeOK
<1>9. PromotionWrites'
  <2>1. ASSUME NEW v \in Worker, v # w PROVE Progress(v)'
    BY <2>1, OthersProgress DEF PromotionWrites, Stands, Quiet, Free, OneFlight, LanesBeforeFlights, Writing, Promoting, Ingesting, SetStatus, TypeOK
  <2>2. Progress(w)'
    BY DEF PromotionWrites, Progress, StatusHasRow, InFlightRows, OneFlight, Indexed, Quiet, Accountable, Stands, Free, Allowed, Promoting, Ingesting, SetStatus, TypeOK, Chunk, WritersHold
  <2> QED
    BY <2>1, <2>2 DEF PromotionWrites
<1>10. IndexedIsWhole'
  <2>1. ASSUME Accountable, NEW q \in Paper, Indexed(q)', ~Indexed(q)
        PROVE  q = paper[w] /\ pc[w] = "indexed"
    BY <2>1 DEF SetStatus, Indexed, TypeOK
  <2>2. ASSUME Accountable, NEW q \in Paper, Indexed(q)', NEW j \in Chunk
        PROVE  Stands(q, j)
    BY <2>1, <2>2 DEF IndexedIsWhole, PromotionWrites, Progress
  <2> QED
    BY <2>2 DEF IndexedIsWhole, Quiet, Accountable, Stands, Free
<1>11. NotYetPending' /\ PendingIsInFlight'
  BY DEF NotYetPending, PendingIsInFlight, OneFlight, StatusHasRow, Indexed, Promoting, Free, Allowed, SetStatus, EndFlight, TypeOK
<1>12. RowsAreRetrievable'
  BY DEF RowsAreRetrievable, InFlightRows, OneFlight, Promoting, Free, Allowed
<1>13. BlankIsBeingFilled'
  BY DEF BlankIsBeingFilled, Free, Allowed, TypeOK
<1> QED
  BY <1>4, <1>5, <1>6, <1>7, <1>8, <1>9, <1>10, <1>11, <1>12, <1>13

\* The process ends and the next one starts.
LEMMA RestartKeeps == IInv /\ Restart => IInv'
<1> SUFFICES ASSUME IInv, Restart PROVE IInv'
  OBVIOUS
<1> USE DEF IInv, At
<1>1. /\ faults' = faults /\ arxiv' = arxiv /\ row' = row /\ status' = status /\ chunk' = chunk
      /\ stray' = stray /\ writer' = writer
      /\ flights' = {} /\ Allowed("crash")
  BY DEF Restart, store, given, chunks
<1>2. task' \in [Worker -> Task]
  BY DEF Restart, Task
<1>3. pc' = [w \in Worker |-> "idle"]
  BY DEF Restart, pc, Idle
<1> USE <1>1, <1>2, <1>3
<1>4. TypeOK'
  BY DEF TypeOK, Restart
<1>5. OneFlight' /\ StatusHasRow' /\ InFlightRows'
  BY DEF OneFlight, StatusHasRow, InFlightRows, Promoting
<1>6. LanesBeforeFlights' /\ WritersHold'
  BY DEF LanesBeforeFlights, WritersHold, Writing, Ingesting
<1>7. PromotionWrites'
  BY DEF PromotionWrites, Progress, Promoting
<1>8. IndexedIsWhole'
  BY DEF IndexedIsWhole, Indexed, Accountable, Stands, Quiet, Free
<1>9. NotYetPending' /\ PendingIsInFlight' /\ RowsAreRetrievable' /\ BlankIsBeingFilled'
  BY DEF NotYetPending, PendingIsInFlight, RowsAreRetrievable, BlankIsBeingFilled, Free, Allowed
<1> QED
  BY <1>4, <1>5, <1>6, <1>7, <1>8, <1>9

LEMMA StutterKeeps == IInv /\ UNCHANGED vars => IInv'
<1> SUFFICES ASSUME IInv, UNCHANGED vars PROVE IInv'
  OBVIOUS
<1>1. /\ faults' = faults /\ arxiv' = arxiv /\ row' = row /\ status' = status /\ chunk' = chunk
      /\ stray' = stray /\ writer' = writer /\ task' = task /\ flights' = flights /\ used' = used
     
  BY DEF vars
<1>2. pc' = pc /\ paper' = paper /\ index' = index
  BY <1>1 DEF pc, paper, index
<1> USE <1>1, <1>2 DEF IInv, At
<1>3. TypeOK' /\ OneFlight' /\ StatusHasRow' /\ InFlightRows'
  BY DEF TypeOK, OneFlight, StatusHasRow, InFlightRows, Free
<1>4. LanesBeforeFlights' /\ WritersHold' /\ PromotionWrites'
  BY DEF LanesBeforeFlights, WritersHold, PromotionWrites, Progress, Writing, Quiet, Accountable, Stands, Free
<1>5. IndexedIsWhole' /\ NotYetPending' /\ PendingIsInFlight'
  BY DEF IndexedIsWhole, NotYetPending, PendingIsInFlight, Indexed, Accountable, Stands, Quiet, Free
<1>6. RowsAreRetrievable' /\ BlankIsBeingFilled'
  BY DEF RowsAreRetrievable, BlankIsBeingFilled, Free
<1> QED
  BY <1>3, <1>4, <1>5, <1>6

-----------------------------------------------------------------------------
\* An empty store and idle tasks.
LEMMA InitIsGood == Init => IInv
<1> SUFFICES ASSUME Init PROVE IInv
  OBVIOUS
<1>1. pc = [w \in Worker |-> "idle"]
  BY DEF Init, pc, Idle
<1>2. TypeOK
  BY DEF Init, TypeOK, Task, Content
<1>3. OneFlight /\ StatusHasRow /\ InFlightRows
  BY <1>1 DEF Init, OneFlight, StatusHasRow, InFlightRows, Promoting
<1>4. LanesBeforeFlights /\ WritersHold /\ PromotionWrites
  BY <1>1 DEF LanesBeforeFlights, WritersHold, PromotionWrites, Progress, Writing, Ingesting, Promoting, At
<1>5. IndexedIsWhole /\ NotYetPending /\ PendingIsInFlight
  BY <1>1 DEF Init, IndexedIsWhole, NotYetPending, PendingIsInFlight, Indexed
<1>6. 0 \in Chunk
  BY DEF Chunk
<1>7. RowsAreRetrievable /\ BlankIsBeingFilled
  BY <1>6 DEF Init, RowsAreRetrievable, BlankIsBeingFilled
<1> QED
  BY <1>2, <1>3, <1>4, <1>5, <1>7 DEF IInv

\* Every step keeps it.
LEMMA StepKeeps == IInv /\ [Next]_vars => IInv'
<1> SUFFICES ASSUME IInv, [Next]_vars PROVE IInv'
  OBVIOUS
<1>1. CASE UNCHANGED vars
  BY <1>1, StutterKeeps
<1>2. CASE Restart
  BY <1>2, RestartKeeps
<1>3. ASSUME NEW w \in Worker, NEW p \in Paper, StartIngest(w, p) \/ StartPromotion(w, p)
      PROVE  IInv'
  BY <1>3, StartIngestKeeps, StartPromotionKeeps
<1>4. ASSUME NEW w \in Worker, Ingest(w) \/ CancelIngest(w)
      PROVE  IInv'
  BY <1>4, ProbeKeeps, UpsertPaperKeeps, InsertAbstractKeeps, FillAbstractKeeps, CancelIngestKeeps DEF Ingest
<1>5. ASSUME NEW w \in Worker, Promote(w)
      PROVE  IInv'
  BY <1>5, CheckStatusKeeps, AcquireSlotKeeps, MarkPendingKeeps, FetchKeeps,
     UpsertAgainKeeps, InsertChunkKeeps, FillChunkKeeps, ConcludeKeeps DEF Promote
<1> QED
  BY <1>1, <1>2, <1>3, <1>4, <1>5 DEF Next

\* IInv holds in every reachable state (lit_intake.rs, lit_schema.rs and the
\* promotion tasks of pipeline.rs).
THEOREM Invariance == Spec => []IInv
BY InitIsGood, StepKeeps, PTL DEF Spec

\* The gateway's flights are exactly the papers being promoted, each by one
\* task: no exit of a promotion leaves its key behind.
THEOREM FlightsAreExact == Spec => []OneFlight
<1>1. IInv => OneFlight
  BY DEF IInv
<1> QED
  BY <1>1, Invariance, PTL

\* A paper marked "indexed" has all of its full text, however lanes and
\* promotions overlap, save chunk 0, which a late abstract may have taken
\* over; and chunk 0 too where lanes and promotions are kept apart.  Left out
\* are papers without a rendering, and status reads that fail together with
\* status updates.
THEOREM IndexedMeansWhole == Spec => []IndexedIsWhole
<1>1. IInv => IndexedIsWhole
  BY DEF IInv
<1> QED
  BY <1>1, Invariance, PTL

\* "pending" is not left behind, if status updates succeed and the process
\* does not end.
THEOREM PendingIsTransient == Spec => []PendingIsInFlight
<1>1. IInv => PendingIsInFlight
  BY DEF IInv
<1> QED
  BY <1>1, Invariance, PTL

\* Every row has something to retrieve or someone about to insert it.
THEOREM RowsHaveChunks == Spec => []RowsAreRetrievable
<1>1. IInv => RowsAreRetrievable
  BY DEF IInv
<1> QED
  BY <1>1, Invariance, PTL

\* A vector without its content has a task about to write it.
THEOREM BlanksAreFilled == Spec => []BlankIsBeingFilled
<1>1. IInv => BlankIsBeingFilled
  BY DEF IInv
<1> QED
  BY <1>1, Invariance, PTL

-----------------------------------------------------------------------------
(* The lane.                                                               *)

HIDE ConstantsAssumption
USE GatewayAssumption

\* The k-th slot of a lane lies k - 1 intervals after its first.
LEMMA Multiples ==
  ASSUME NEW k \in Nat
  PROVE  /\ k * Interval \in Nat
         /\ (k + 1) * Interval = k * Interval + Interval
         /\ ((k + 1) - 1) * Interval = k * Interval
         /\ k <= MaxCalls => k * Interval <= Horizon
<1>1. k * Interval \in Nat /\ (k + 1) * Interval = k * Interval + Interval /\ (k + 1) - 1 = k
  OBVIOUS
<1>2. k <= MaxCalls => k * Interval <= MaxCalls * Interval
  OBVIOUS
<1> QED
  BY <1>1, <1>2 DEF Horizon

\* Tasks that are not idle have a request; idle ones hold nothing.
LEMMA Requests ==
  ASSUME GatewayTypeOK, NEW c \in Caller
  PROVE  /\ request[c] \in {NoRequest} \cup Request
         /\ ~CallerAt(c, "idle") => request[c] \in Request
         /\ request[c].wait \in Nat /\ request[c].grant \in 0..MaxCalls
         /\ 0 \in 0..(Retries - 1)
         /\ NoRequest.at = "idle"
BY DEF GatewayTypeOK, CallerAt, NoRequest, Request

\* What a step of one task does to the sets of sleepers.
LEMMA OneMove ==
  ASSUME GatewayTypeOK, NEW c \in Caller, NEW r, request' = [request EXCEPT ![c] = r]
  PROVE  /\ Sleepers \in SUBSET Caller /\ IsFiniteSet(Sleepers)
         /\ r.at = "sleep" => Sleepers' = Sleepers \cup {c}
         /\ r.at # "sleep" => Sleepers' = Sleepers \ {c}
         /\ Cardinality(Sleepers) \in Nat
         /\ Cardinality(Sleepers \cup {c}) = Cardinality(Sleepers) + (IF c \in Sleepers THEN 0 ELSE 1)
         /\ Cardinality(Sleepers \ {c}) = Cardinality(Sleepers) - (IF c \in Sleepers THEN 1 ELSE 0)
<1>1. /\ Sleepers \in SUBSET Caller
      /\ r.at = "sleep" => Sleepers' = Sleepers \cup {c}
      /\ r.at # "sleep" => Sleepers' = Sleepers \ {c}
  BY DEF Sleepers, CallerAt, GatewayTypeOK
<1>2. IsFiniteSet(Sleepers)
  BY <1>1, FS_Subset
<1>3. /\ Cardinality(Sleepers \cup {c}) = IF c \in Sleepers THEN Cardinality(Sleepers) ELSE Cardinality(Sleepers) + 1
      /\ Cardinality(Sleepers \ {c}) = IF c \in Sleepers THEN Cardinality(Sleepers) - 1 ELSE Cardinality(Sleepers)
      /\ Cardinality(Sleepers) \in Nat
  BY <1>2, FS_AddElement, FS_RemoveElement, FS_CardinalityType
<1> QED
  BY <1>1, <1>2, <1>3

\* Grants opened in time: n grants reach at least as far as the n-th.
LEMMA InTime == GatewayTypeOK /\ OpenedInTime => GrantsOnTime
<1> SUFFICES ASSUME GatewayTypeOK, OpenedInTime PROVE GrantsOnTime
  OBVIOUS
<1> DEFINE size == Cardinality(opened)
<1>1. IsFiniteSet(opened) /\ size \in Nat
  <2>1. IsFiniteSet(1..MaxCalls) /\ opened \subseteq 1..MaxCalls
    BY FS_Interval DEF GatewayTypeOK
  <2> QED
    BY <2>1, FS_Subset, FS_CardinalityType
<1>2. elapsed \in Nat /\ sent \in Nat /\ made \in Nat
  BY Multiples DEF GatewayTypeOK, Horizon
<1>3. size * Interval <= elapsed + Interval
  <2>1. CASE size = 0
    BY <1>2, <2>1
  <2>2. CASE size # 0
    <3>1. PICK n \in opened : n \notin 1..(size - 1)
      <4>1. SUFFICES ASSUME opened \subseteq 1..(size - 1) PROVE FALSE
        OBVIOUS
      <4>2. IsFiniteSet(1..(size - 1)) /\ Cardinality(1..(size - 1)) = size - 1
        <5>1. size - 1 \in Int /\ 1 \in Int /\ (1 > size - 1 => size - 1 = 0) /\ (size - 1) - 1 + 1 = size - 1
          BY <1>1, <2>2
        <5> HIDE DEF size
        <5>2. /\ IsFiniteSet(1..(size - 1))
              /\ Cardinality(1..(size - 1)) = IF 1 > size - 1 THEN 0 ELSE (size - 1) - 1 + 1
          BY <5>1, FS_Interval
        <5> QED
          BY <5>1, <5>2
      <4>3. Cardinality(opened) <= Cardinality(1..(size - 1))
        BY <4>1, <4>2, FS_Subset
      <4> QED
        BY <1>1, <4>2, <4>3
    <3>2. n \in Nat \ {0} /\ n >= size /\ elapsed >= (n - 1) * Interval
      BY <1>1, <1>2, <2>2, <3>1 DEF OpenedInTime
    <3>3. size - 1 \in Nat /\ n - 1 \in Nat /\ n - 1 >= size - 1
      BY <1>1, <2>2, <3>2
    <3> HIDE DEF size
    <3>4. (n - 1) * Interval >= (size - 1) * Interval
      BY <3>3
    <3>5. ((size - 1) + 1) * Interval = (size - 1) * Interval + Interval
          /\ (size - 1) * Interval \in Nat /\ (n - 1) * Interval \in Nat
      BY <3>3, Multiples
    <3>6. (size - 1) + 1 = size
      BY <1>1, <2>2
    <3> QED
      BY <1>2, <3>2, <3>4, <3>5, <3>6
  <2> QED
    BY <2>1, <2>2
<1> QED
  BY <1>3 DEF GrantsOnTime, OpenedInTime

\* The initial state: no grants.
LEMMA GatewayInitIsGood == GatewayInit => GatewayIInv
<1> SUFFICES ASSUME GatewayInit PROVE GatewayIInv
  OBVIOUS
<1>1. 0 * Interval = 0 /\ Horizon \in Nat
  BY DEF Horizon
<1>2. \A c \in Caller : CallerAt(c, "idle")
  BY DEF GatewayInit, CallerAt, NoRequest
<1>3. Granted = {} /\ Sleepers = {}
  BY <1>2 DEF Granted, Sleepers, CallerAt
<1>4. GatewayTypeOK
  BY <1>1 DEF GatewayInit, GatewayTypeOK
<1>5. SlotsAhead /\ OwnGrants /\ OpenedInTime
  BY <1>1, <1>2, <1>3, FS_EmptySet DEF GatewayInit, SlotsAhead, OwnGrants, OpenedInTime, CallerAt
<1>6. PaidInFull
  BY <1>3, FS_EmptySet DEF GatewayInit, PaidInFull
<1> QED
  BY <1>4, <1>5, <1>6 DEF GatewayIInv

\* A request that ends, is cancelled or backs off leaves the others as they are.
LEMMA Release ==
  ASSUME GatewayIInv, NEW c \in Caller, NEW r \in {NoRequest} \cup Request,
         request' = [request EXCEPT ![c] = r],
         r.at = "backoff" => CallerAt(c, "call") /\ r.grant = request[c].grant,
         r.at \in {"idle", "acquire", "backoff"},
         UNCHANGED <<style, free, made, sent, opened, elapsed>>
  PROVE  GatewayIInv'
<1> USE DEF GatewayIInv
<1>1. GatewayTypeOK'
  BY DEF GatewayTypeOK
<1>2. \A d \in Caller : d # c => request'[d] = request[d]
  BY DEF GatewayTypeOK
<1>3. request'[c] = r
  BY DEF GatewayTypeOK
<1>4. SlotsAhead'
  BY <1>2, <1>3 DEF SlotsAhead, Granted, CallerAt
<1>5. OwnGrants' /\ OpenedInTime'
  BY <1>2, <1>3 DEF OwnGrants, OpenedInTime, Granted, Sleepers, Charging, CallerAt
<1>6. Sleepers' = Sleepers \ {c} /\ Cardinality(Sleepers \ {c}) <= Cardinality(Sleepers)
      /\ Cardinality(Sleepers) \in Nat /\ Cardinality(Sleepers \ {c}) \in Nat
  BY OneMove, FS_CardinalityType, FS_Subset
<1>7. PaidInFull'
  BY <1>6 DEF PaidInFull, Charging, GatewayTypeOK
<1> QED
  BY <1>1, <1>4, <1>5, <1>7

LEMMA ReserveKeeps ==
  ASSUME GatewayIInv, NEW c \in Caller, CallerAt(c, "acquire"), ~Exhausted, Reserve(c),
         UNCHANGED <<style, sent, opened, elapsed>>
  PROVE  GatewayIInv'
<1> USE DEF GatewayIInv
<1>1. made + 1 \in 0..MaxCalls
  BY DEF GatewayTypeOK, Exhausted
<1> DEFINE r == [request[c] EXCEPT !.at = "sleep", !.wait = free, !.grant = made + 1]
<1>2. request[c] \in Request
  BY Requests DEF CallerAt
<1>3. r \in Request /\ r.at = "sleep" /\ r.wait = free /\ r.grant = made + 1
  BY <1>1, <1>2 DEF Request, GatewayTypeOK
<1>4. request' = [request EXCEPT ![c] = r]
  BY DEF Reserve
<1> HIDE DEF r
<1>5. /\ \A d \in Caller : d # c => request'[d] = request[d]
      /\ request'[c] = r
  BY <1>4 DEF GatewayTypeOK
<1>6. GatewayTypeOK'
  BY <1>1, <1>3, <1>4 DEF GatewayTypeOK, Reserve
<1>7. SlotsAhead'
  <2>1. elapsed' + free' >= made' * Interval
    BY Multiples DEF SlotsAhead, Reserve, GatewayTypeOK
  <2>2. ASSUME NEW d \in Granted', d # c
        PROVE  /\ request'[d].grant \in 1..made'
               /\ elapsed' + (IF CallerAt(d, "sleep")' THEN request'[d].wait ELSE 0)
                    >= (request'[d].grant - 1) * Interval
    BY <1>5, <2>2 DEF SlotsAhead, Granted, CallerAt, Reserve, GatewayTypeOK
  <2>3. /\ request'[c].grant \in 1..made'
        /\ elapsed' + request'[c].wait >= (request'[c].grant - 1) * Interval
    BY <1>1, <1>3, <1>5, Multiples DEF SlotsAhead, Reserve, GatewayTypeOK
  <2>4. CallerAt(c, "sleep")'
    BY <1>3, <1>5 DEF CallerAt
  <2> QED
    BY <2>1, <2>2, <2>3, <2>4 DEF SlotsAhead
<1>8. OwnGrants'
  <2>1. \A d \in Granted' : d # c => d \in Granted /\ request'[d].grant \in 1..made
    BY <1>5 DEF SlotsAhead, Granted, CallerAt
  <2>2. request'[c].grant = made + 1
    BY <1>3, <1>5
  <2>3. \A d \in Granted' : d # c => request'[d].grant # request'[c].grant
    BY <2>1, <2>2 DEF GatewayTypeOK
  <2>4. ASSUME NEW d \in Granted', NEW e \in Granted', request'[d].grant = request'[e].grant
        PROVE  d = e
    <3>1. CASE d = c \/ e = c
      BY <2>3, <2>4, <3>1
    <3>2. CASE d # c /\ e # c
      <4>1. d \in Granted /\ e \in Granted /\ request'[d] = request[d] /\ request'[e] = request[e]
        BY <1>5, <2>1, <3>2 DEF Granted
      <4> QED
        BY <2>4, <4>1 DEF OwnGrants
    <3> QED
      BY <3>1, <3>2
  <2> QED
    BY <2>4 DEF OwnGrants
<1>9. OpenedInTime'
  <2>1. made' = made + 1 /\ made + 1 \notin opened /\ request'[c].grant = made + 1
    BY <1>3, <1>5 DEF OpenedInTime, Reserve, GatewayTypeOK
  <2>2. \A n \in opened : n \in 1..made'
    BY <2>1 DEF OpenedInTime, GatewayTypeOK
  <2>3. \A d \in Sleepers' : d # c => d \in Sleepers /\ request'[d] = request[d]
    BY <1>5 DEF Sleepers, CallerAt
  <2> QED
    BY <2>1, <2>2, <2>3 DEF OpenedInTime, Charging
<1>10. PaidInFull'
  <2>1. c \notin Sleepers
    BY DEF Sleepers, CallerAt
  <2>2. Cardinality(Sleepers') = Cardinality(Sleepers) + 1 /\ Cardinality(Sleepers) \in Nat
    BY <1>3, <1>4, <2>1, OneMove
  <2> QED
    BY <2>2 DEF PaidInFull, Charging, Reserve, GatewayTypeOK
<1> QED
  BY <1>6, <1>7, <1>8, <1>9, <1>10

LEMMA SendKeeps ==
  ASSUME GatewayIInv, NEW c \in Caller, Send(c)
  PROVE  GatewayIInv'
<1> USE DEF GatewayIInv
<1> DEFINE r == [request[c] EXCEPT !.at = "call"]
<1>1. request[c] \in Request /\ CallerAt(c, "sleep") /\ request[c].wait = 0
  BY Requests DEF CallerAt, Send
<1>2. r \in Request /\ r.at = "call" /\ r.wait = 0 /\ r.grant = request[c].grant
  BY <1>1 DEF Request
<1>3. request' = [request EXCEPT ![c] = r]
  BY DEF Send
<1> HIDE DEF r
<1>4. /\ \A d \in Caller : d # c => request'[d] = request[d]
      /\ request'[c] = r
  BY <1>3 DEF GatewayTypeOK
<1>5. GatewayTypeOK'
  <2>1. request[c].grant \in 1..MaxCalls
    BY <1>1 DEF SlotsAhead, Granted, GatewayTypeOK
  <2> QED
    BY <1>2, <1>3, <2>1 DEF GatewayTypeOK, Send
<1>6. SlotsAhead'
  BY <1>1, <1>2, <1>4 DEF SlotsAhead, Granted, CallerAt, Send
<1>7. OwnGrants'
  BY <1>1, <1>2, <1>4 DEF OwnGrants, Granted, CallerAt
<1>8. OpenedInTime'
  <2> DEFINE g == request[c].grant
  <2>1. c \in Granted /\ c \in Sleepers
    BY <1>1 DEF Granted, Sleepers
  <2>2. g \in 1..made /\ elapsed + request[c].wait >= (g - 1) * Interval
    BY <1>1, <2>1 DEF SlotsAhead
  <2>3. elapsed >= (g - 1) * Interval
    BY <1>1, <2>2 DEF GatewayTypeOK
  <2>4. g \notin opened
    BY <2>1 DEF OpenedInTime
  <2>5. \A d \in Sleepers' : d \in Sleepers /\ d # c /\ request'[d] = request[d]
    BY <1>2, <1>4 DEF Sleepers, CallerAt
  <2>6. \A d \in Sleepers' : request'[d].grant # g
    BY <2>1, <2>5 DEF OwnGrants, Granted, Sleepers
  <2>7. IsFiniteSet(opened) /\ Cardinality(opened \cup {g}) = Cardinality(opened) + 1
    <3>1. IsFiniteSet(1..MaxCalls) /\ opened \subseteq 1..MaxCalls
      BY FS_Interval DEF GatewayTypeOK
    <3>2. IsFiniteSet(opened)
      BY <3>1, FS_Subset
    <3> QED
      BY <2>4, <3>2, FS_AddElement
  <2>8. opened' = opened \cup {g} /\ UNCHANGED <<style, made, elapsed>> /\ sent' = sent + 1
    BY DEF Send
  <2>9. \A d \in Sleepers' : request'[d].grant \notin opened'
    BY <2>5, <2>6, <2>8 DEF OpenedInTime
  <2>10. \A n \in opened' : n \in 1..made' /\ elapsed' >= (n - 1) * Interval
    BY <2>2, <2>3, <2>8 DEF OpenedInTime
  <2>11. Charging' => sent' = Cardinality(opened')
    BY <2>7, <2>8 DEF OpenedInTime, Charging
  <2> QED
    BY <2>9, <2>10, <2>11 DEF OpenedInTime
<1>9. PaidInFull'
  <2>1. Cardinality(Sleepers') = Cardinality(Sleepers) - 1 /\ Cardinality(Sleepers) \in Nat
    BY <1>1, <1>2, <1>3, OneMove DEF Sleepers
  <2> QED
    BY <2>1 DEF PaidInFull, Charging, Send, GatewayTypeOK
<1> QED
  BY <1>5, <1>6, <1>7, <1>8, <1>9

\* Another attempt on the grant the caller already has.
LEMMA RecallKeeps ==
  ASSUME GatewayIInv, NEW c \in Caller, CallerAt(c, "backoff"), style[c] = "once",
         NEW r \in Request, r.at = "call", r.grant = request[c].grant,
         request' = [request EXCEPT ![c] = r],
         sent' = sent + 1, UNCHANGED <<style, free, made, opened, elapsed>>
  PROVE  GatewayIInv'
<1> USE DEF GatewayIInv
<1>1. /\ \A d \in Caller : d # c => request'[d] = request[d]
      /\ request'[c] = r
  BY DEF GatewayTypeOK
<1>2. GatewayTypeOK'
  BY DEF GatewayTypeOK
<1>3. SlotsAhead'
  BY <1>1 DEF SlotsAhead, Granted, CallerAt
<1>4. OwnGrants'
  BY <1>1 DEF OwnGrants, Granted, CallerAt
<1>5. OpenedInTime'
  BY <1>1 DEF OpenedInTime, Sleepers, Charging, CallerAt
<1>6. PaidInFull'
  BY DEF PaidInFull, Charging
<1> QED
  BY <1>2, <1>3, <1>4, <1>5, <1>6

LEMMA TickKeeps == GatewayIInv /\ Tick => GatewayIInv'
<1> SUFFICES ASSUME GatewayIInv, Tick PROVE GatewayIInv'
  OBVIOUS
<1> USE DEF GatewayIInv
<1>1. \A n \in Nat : Less(n) \in Nat /\ Less(n) <= n /\ Less(n) + 1 >= n
  BY DEF Less
<1>2. Horizon \in Nat /\ made * Interval <= Horizon
  BY Multiples DEF GatewayTypeOK, Horizon
<1>3. \A c \in Caller : request'[c] = [request[c] EXCEPT !.wait = Less(request[c].wait)]
  BY DEF Tick
<1>4. \A c \in Caller :
        /\ request'[c].at = request[c].at /\ request'[c].grant = request[c].grant
        /\ request'[c].wait = Less(request[c].wait)
        /\ request'[c] \in {NoRequest} \cup Request
  <2> TAKE c \in Caller
  <2>1. CASE request[c] = NoRequest
    BY <1>3, <2>1 DEF NoRequest, Less
  <2>2. CASE request[c] \in Request
    <3>1. request[c].wait \in Nat /\ Less(request[c].wait) \in Nat
      BY <1>1, <2>2 DEF Request
    <3> HIDE DEF GatewayIInv
    <3>2. request'[c] = [request[c] EXCEPT !.wait = Less(request[c].wait)]
      BY <1>3
    <3>3. request'[c] \in Request
      BY <2>2, <3>1, <3>2 DEF Request
    <3> QED
      BY <2>2, <3>2, <3>3 DEF Request
  <2> QED
    BY <2>1, <2>2 DEF GatewayTypeOK
<1>5. GatewayTypeOK'
  <2>1. request' \in [Caller -> {NoRequest} \cup Request]
    BY <1>4 DEF Tick
  <2>2. elapsed' \in 0..Horizon
    <3>1. elapsed \in 0..Horizon /\ elapsed' = IF elapsed = Horizon THEN elapsed ELSE elapsed + 1
      BY DEF GatewayTypeOK, Tick
    <3> HIDE DEF GatewayIInv
    <3> QED
      BY <1>2, <3>1
  <2>3. free' \in Nat
    BY <1>1 DEF GatewayTypeOK, Tick
  <2> QED
    BY <2>1, <2>2, <2>3 DEF GatewayTypeOK, Tick
<1>6. SlotsAhead'
  <2>1. elapsed' + free' >= made' * Interval
    BY <1>1, <1>2 DEF SlotsAhead, Tick, GatewayTypeOK
  <2>2. ASSUME NEW c \in Granted'
        PROVE  /\ request'[c].grant \in 1..made'
               /\ elapsed' + (IF CallerAt(c, "sleep")' THEN request'[c].wait ELSE 0)
                    >= (request'[c].grant - 1) * Interval
    <3>1. c \in Caller /\ c \in Granted /\ request[c].wait \in Nat
      BY <1>4, <2>2, Requests DEF Granted, CallerAt
    <3>2. (request[c].grant - 1) * Interval \in Nat /\ (request[c].grant - 1) * Interval <= Horizon
      <4>1. request[c].grant - 1 \in Nat /\ request[c].grant - 1 <= MaxCalls
        BY <3>1 DEF SlotsAhead, GatewayTypeOK
      <4> HIDE DEF GatewayIInv
      <4> QED
        BY <4>1, Multiples
    <3>3. /\ request[c].grant \in 1..made
          /\ elapsed + (IF CallerAt(c, "sleep") THEN request[c].wait ELSE 0)
               >= (request[c].grant - 1) * Interval
      BY <3>1 DEF SlotsAhead
    <3>4. /\ request'[c].grant = request[c].grant /\ made' = made
          /\ CallerAt(c, "sleep")' <=> CallerAt(c, "sleep")
          /\ request'[c].wait = Less(request[c].wait)
      BY <1>4, <3>1 DEF CallerAt, Tick
    <3>5. elapsed \in 0..Horizon /\ elapsed' = IF elapsed = Horizon THEN elapsed ELSE elapsed + 1
      BY DEF GatewayTypeOK, Tick
    <3>6. Less(request[c].wait) \in Nat /\ Less(request[c].wait) + 1 >= request[c].wait
      BY <1>1, <3>1
    <3> DEFINE slot == (request[c].grant - 1) * Interval
    <3>7. /\ slot \in Nat /\ slot <= Horizon
          /\ elapsed + (IF CallerAt(c, "sleep") THEN request[c].wait ELSE 0) >= slot
      BY <3>2, <3>3
    <3> HIDE DEF slot, GatewayIInv
    <3>8. elapsed' + (IF CallerAt(c, "sleep") THEN Less(request[c].wait) ELSE 0) >= slot
      BY <1>2, <3>1, <3>5, <3>6, <3>7
    <3> QED
      BY <3>3, <3>4, <3>8 DEF slot
  <2> QED
    BY <2>1, <2>2 DEF SlotsAhead
<1>7. OwnGrants'
  BY <1>4 DEF OwnGrants, Granted, CallerAt
<1>8. OpenedInTime'
  <2>1. \A n \in opened : n - 1 \in Nat /\ (n - 1) * Interval <= Horizon /\ (n - 1) * Interval \in Nat
    <3> TAKE n \in opened
    <3>1. n - 1 \in Nat /\ n - 1 <= MaxCalls
      BY DEF OpenedInTime, GatewayTypeOK
    <3> HIDE DEF GatewayIInv
    <3> QED
      BY <3>1, Multiples
  <2>2. elapsed \in Nat /\ elapsed' >= elapsed /\ elapsed' \in Nat
    BY <1>2 DEF GatewayTypeOK, Tick
  <2>3. \A n \in opened : elapsed' >= (n - 1) * Interval
    BY <2>1, <2>2 DEF OpenedInTime
  <2>4. Sleepers' = Sleepers /\ \A c \in Caller : request'[c].grant = request[c].grant
    BY <1>4 DEF Sleepers, CallerAt
  <2>5. UNCHANGED <<opened, made, sent, style>>
    BY DEF Tick
  <2> QED
    BY <2>3, <2>4, <2>5 DEF OpenedInTime, Charging, Sleepers
<1>9. PaidInFull'
  <2>1. Sleepers' = Sleepers
    BY <1>4 DEF Sleepers, CallerAt
  <2> QED
    BY <2>1 DEF PaidInFull, Charging, Tick
<1> QED
  BY <1>5, <1>6, <1>7, <1>8, <1>9

\* Every step keeps the invariant.
LEMMA GatewayStepKeeps == GatewayIInv /\ [GatewayNext]_gatewayVars => GatewayIInv'
<1> SUFFICES ASSUME GatewayIInv, [GatewayNext]_gatewayVars PROVE GatewayIInv'
  OBVIOUS
<1> USE DEF GatewayIInv
<1>1. NoRequest \in {NoRequest} \cup Request /\ NoRequest.at = "idle"
  BY DEF NoRequest
<1>2. CASE UNCHANGED gatewayVars
  BY <1>2 DEF gatewayVars, GatewayTypeOK, SlotsAhead, OwnGrants, OpenedInTime, PaidInFull, Granted, Sleepers,
     Charging, CallerAt
<1>3. CASE Tick
  BY <1>3, TickKeeps
<1>4. ASSUME NEW c \in Caller, Start(c) PROVE GatewayIInv'
  <2>1. request[c] = NoRequest
    BY <1>4 DEF Start, CallerAt, GatewayTypeOK, Request
  <2> DEFINE r == [request[c] EXCEPT !.at = "acquire"]
  <2>2. r \in Request /\ r.at = "acquire"
    BY <2>1, Requests DEF NoRequest, Request
  <2> QED
    BY <1>4, <2>2, Release DEF Start
<1>5. ASSUME NEW c \in Caller, Acquire(c) PROVE GatewayIInv'
  BY <1>1, <1>5, Release, ReserveKeeps DEF Acquire, EndRequest
<1>6. ASSUME NEW c \in Caller, Send(c) PROVE GatewayIInv'
  BY <1>6, SendKeeps
<1>7. ASSUME NEW c \in Caller, Answer(c) \/ Cancel(c) PROVE GatewayIInv'
  BY <1>1, <1>7, Release DEF Answer, Cancel, EndRequest
<1>8. ASSUME NEW c \in Caller, Fail(c) PROVE GatewayIInv'
  <2>1. PICK wait \in Backoff : request' = [request EXCEPT ![c].at = "backoff", ![c].wait = wait]
    BY <1>8 DEF Fail
  <2>2. request[c] \in Request /\ CallerAt(c, "call")
    BY <1>8, Requests DEF Fail, CallerAt
  <2> DEFINE r == [[request[c] EXCEPT !.at = "backoff"] EXCEPT !.wait = wait]
  <2>3. r \in Request /\ r.at = "backoff" /\ r.grant = request[c].grant
    BY <2>2 DEF Request
  <2>4. request' = [request EXCEPT ![c] = r]
    BY <2>1 DEF GatewayTypeOK
  <2> HIDE DEF r
  <2> QED
    BY <1>8, <2>2, <2>3, <2>4, Release DEF Fail
<1>9. ASSUME NEW c \in Caller, Again(c) PROVE GatewayIInv'
  <2>1. CASE EndRequest(c) /\ UNCHANGED sent
    BY <1>1, <1>9, <2>1, Release DEF Again, EndRequest
  <2>2. CASE /\ request[c].attempt + 1 < Retries
             /\ request' = [request EXCEPT ![c].at = "acquire", ![c].attempt = @ + 1]
             /\ UNCHANGED sent
    <3> DEFINE r == [[request[c] EXCEPT !.at = "acquire"] EXCEPT !.attempt = request[c].attempt + 1]
    <3>1. request[c] \in Request
      BY <1>9, Requests DEF Again, CallerAt
    <3>2. request[c].attempt + 1 \in 0..(Retries - 1)
      BY <2>2, <3>1 DEF Request
    <3>3. r \in Request /\ r.at = "acquire"
      BY <3>1, <3>2 DEF Request
    <3>4. request' = [request EXCEPT ![c] = r]
      BY <2>2 DEF GatewayTypeOK
    <3> HIDE DEF r
    <3> QED
      BY <1>9, <2>2, <3>3, <3>4, Release DEF Again
  <2>3. CASE /\ request[c].attempt + 1 < Retries /\ style[c] = "once"
             /\ request' = [request EXCEPT ![c].at = "call", ![c].attempt = @ + 1]
             /\ sent' = sent + 1
    <3> DEFINE r == [[request[c] EXCEPT !.at = "call"] EXCEPT !.attempt = request[c].attempt + 1]
    <3>1. request[c] \in Request
      BY <1>9, Requests DEF Again, CallerAt
    <3>2. request[c].attempt + 1 \in 0..(Retries - 1)
      BY <2>3, <3>1 DEF Request
    <3>3. r \in Request /\ r.at = "call" /\ r.grant = request[c].grant
      BY <3>1, <3>2 DEF Request
    <3>4. request' = [request EXCEPT ![c] = r]
      BY <2>3 DEF GatewayTypeOK
    <3> HIDE DEF r
    <3> QED
      BY <1>9, <2>3, <3>3, <3>4, RecallKeeps DEF Again
  <2> QED
    BY <1>9, <2>1, <2>2, <2>3 DEF Again
<1> QED
  BY <1>2, <1>3, <1>4, <1>5, <1>6, <1>7, <1>8, <1>9 DEF GatewayNext, Step

\* The inductive invariant of a gateway lane (lit_gateway.rs 132-176, 303-343).
THEOREM GatewayInvariance == GatewaySpec => []GatewayIInv
BY GatewayInitIsGood, GatewayStepKeeps, PTL DEF GatewaySpec

\* The first call on the n-th grant goes out no earlier than n - 1 intervals
\* after the start; first calls, and all calls when each attempt acquires,
\* number no more than one per interval (lit_gateway.rs 161-176).
THEOREM CallsKeepTheirDistance == GatewaySpec => []GrantsOnTime
<1>1. GatewayIInv => GrantsOnTime
  BY InTime DEF GatewayIInv
<1> QED
  BY <1>1, GatewayInvariance, PTL

\* If every caller acquires for every attempt, no call goes out unpaid.
THEOREM EveryCallIsPaid == GatewaySpec => []CallsArePaid
<1>1. GatewayIInv => CallsArePaid
  <2>1. ASSUME GatewayTypeOK PROVE Cardinality(Sleepers) \in Nat
    BY FS_Subset, FS_CardinalityType DEF Sleepers
  <2> QED
    BY <2>1 DEF GatewayIInv, PaidInFull, CallsArePaid, GatewayTypeOK
<1> QED
  BY <1>1, GatewayInvariance, PTL

\* Hence the documented cap holds for callers of that kind.
THEOREM CapIsHardWhenCharged == GatewaySpec => [](Charging => HardCap)
<1>1. GatewayIInv /\ CallsArePaid => (Charging => HardCap)
  BY DEF GatewayIInv, GatewayTypeOK, CallsArePaid, HardCap
<1> QED
  BY <1>1, GatewayInvariance, EveryCallIsPaid, PTL
=============================================================================
