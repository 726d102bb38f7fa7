--------------------------- MODULE OpenRouterClient ---------------------------
(***************************************************************************)
(* The client of the model provider (espigue/src/openrouter): one POST     *)
(* with its bounded retries, what chat, embeddings and rerank make of the  *)
(* answer.  A post is a record that Attempt moves on, so that the module   *)
(* that makes the call keeps it with its own state.                        *)
(***************************************************************************)
EXTENDS Integers, Sequences, FiniteSets, SequencesExt, FiniteSetsExt, TLC

\* What comes back for one attempt: a success with a body that decodes ("ok"),
\* one without any choice in it ("bare"), one that does not decode ("garbled") or
\* breaks off while it is read ("cut"); a status 429 or 5xx with the seconds of
\* its Retry-After, if any; another status; and two failures of the transport.
NoHint == -1
Answer(kind, hint) == [kind |-> kind, hint |-> hint]
Limited(hint) == Answer("limited", hint)
Plain(kind) == Answer(kind, NoHint)

MaxAttempts == 3
BackoffBase == 2
MaxWait     == 60
\* RetryPolicy::chat and RetryPolicy::embeddings differ in one field.
RetryPostSend(what)   == what = "embeddings"
RetryBodyDecode(what) == TRUE

\* at: "idle" before and after, "send" before an attempt; last: the answer to the
\* attempt before.
\* History, for the properties: slept and owed, the sum of the waits and of what
\* the servers asked for under the cap; lost, the answers lost on their way.
Idle == [at |-> "idle", what |-> "chat", attempt |-> 0, last |-> Plain("ok"),
         slept |-> 0, owed |-> 0, lost |-> 0]
Post(what) == [Idle EXCEPT !.at = "send", !.what = what, !.attempt = 1]

\* sleep_backoff: the hint or the exponential wait, capped, then up to 250 ms of
\* jitter, which is rounded to whole seconds: 0 or 1.
Wait(hint, attempt) == Min({IF hint = NoHint THEN BackoffBase * 2 ^ (attempt - 1) ELSE hint, MaxWait})
\* The part of a wait the server asked for: a hint of 0 asks for none, and gets it.
Due(hint) == IF hint = NoHint THEN 0 ELSE Min({hint, MaxWait})

\* May this answer be followed by another attempt?
Retryable(what, answer) ==
  \/ answer.kind \in {"limited", "server", "connect"}
  \/ answer.kind \in {"garbled", "cut"} /\ RetryBodyDecode(what)
  \/ answer.kind = "lost" /\ RetryPostSend(what)
\* Only a status carries a hint: the other failures back off without one.
HintOf(answer) == IF answer.kind \in {"limited", "server"} THEN answer.hint ELSE NoHint

\* Mutant of Again: an answer that was lost on its way is asked for again, whoever calls.
Again_ResendsLost(p, answer) == answer.kind \in {"lost", "limited", "server", "connect", "garbled", "cut"} /\ p.attempt < MaxAttempts
\* post_json_with_retry, one turn of the loop: another attempt, or the end.
Again(p, answer) == Retryable(p.what, answer) /\ p.attempt < MaxAttempts

Attempt(p, answer, jitter) ==
  LET heard == [p EXCEPT !.last = answer, !.lost = @ + (IF answer.kind = "lost" THEN 1 ELSE 0)]
  IN IF Again(p, answer)
     THEN [heard EXCEPT !.attempt = @ + 1,
                        !.slept = @ + Wait(HintOf(answer), p.attempt) + jitter,
                        !.owed  = @ + Due(HintOf(answer))]
     ELSE [heard EXCEPT !.at = "idle"]

\* chat_with_system: a success without choices is an error after all, and it is
\* not retried.  embed_inner takes any vector of the right width.
Succeeded(what, answer) == answer.kind = "ok" \/ (answer.kind = "bare" /\ what = "embeddings")
Done(p)   == p.at = "idle"
Result(p) == Done(p) /\ Succeeded(p.what, p.last)

-----------------------------------------------------------------------------
(* embed_inner: the inputs in chunks of MaxBatch, one post each; the rows   *)
(* of an answer, [index, vector], are sorted by index.  A chunk that failed *)
(* is <<>>: then there are no vectors at all.                               *)

ChunksOf(inputs, size) ==
  [k \in 1 .. (Len(inputs) + size - 1) \div size |->
     SubSeq(inputs, (k - 1) * size + 1, Min({k * size, Len(inputs)}))]
\* A stable sort by ascending keys: at place n what has n - 1 others ahead of it.
Ahead(key, i) == {j \in DOMAIN key : key[j] < key[i] \/ (key[j] = key[i] /\ j < i)}
Sorted(s, key) ==
  [n \in DOMAIN s |-> s[CHOOSE i \in DOMAIN s : Cardinality(Ahead(key, i)) = n - 1]]
\* Mutant of InOrder: trust the order of the server.
InOrder_AsSent(rows) == rows
InOrder(rows) == Sorted(rows, [i \in DOMAIN rows |-> rows[i].index])
Vectors(rows) == [i \in DOMAIN InOrder(rows) |-> InOrder(rows)[i].vector]
Embedded(answers) ==
  IF \E k \in DOMAIN answers : answers[k] = <<>> THEN <<>>
  ELSE FlattenSeq([k \in DOMAIN answers |-> Vectors(answers[k])])

=============================================================================
