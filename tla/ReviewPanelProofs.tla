--------------------------- MODULE ReviewPanelProofs ---------------------------
(***************************************************************************)
(* Theorems about ReviewPanel, for every set of papers, of reviews and of  *)
(* answers: what a call of the provider may wait for and pay twice, what   *)
(* the engine starts with, what the notice tells, and what the exploration *)
(* may leave in the store.                                                 *)
(***************************************************************************)
EXTENDS ReviewPanel, FiniteSetTheorems, FunctionTheorems, SequenceTheorems, WellFoundedInduction, TLAPS

-----------------------------------------------------------------------------
(***************************************************************************)
(* The calls of the provider.                                              *)
(***************************************************************************)
IsCall(p) ==
  /\ DOMAIN p = {"at", "what", "attempt", "last", "slept", "owed", "lost"}
  /\ p.at \in {"idle", "send"} /\ p.what \in {"chat", "embeddings"} /\ p.attempt \in 0 .. MaxAttempts
  /\ p.slept \in Nat /\ p.owed \in Nat /\ p.lost \in Nat

\* Before an attempt the waits are those between the attempts made, and a chat has lost
\* nothing; a chat that has is over, with that loss as its last answer.
CallIInv ==
  /\ IsCall(post) /\ post.owed <= post.slept
  /\ post.slept <= (MaxAttempts - 1) * (MaxWait + 1)
  /\ post.at = "send" =>
       /\ post.attempt > 0 /\ post.slept <= (post.attempt - 1) * (MaxWait + 1)
       /\ post.lost <= IF RetryPostSend(post.what) THEN post.attempt - 1 ELSE 0
  /\ post.lost <= IF RetryPostSend(post.what) THEN MaxAttempts ELSE 1
  /\ post.what = "chat" /\ post.lost > 0 => post.last.kind = "lost"

LEMMA SmallerOfTwo ==
  ASSUME NEW a \in Int, NEW b \in Int
  PROVE  Min({a, b}) \in {a, b} /\ Min({a, b}) <= a /\ Min({a, b}) <= b
<1>1. \E c \in {a, b} : \A d \in {a, b} : c <= d
  OBVIOUS
<1>2. QED
  BY <1>1 DEF Min

LEMMA LargerOfTwo ==
  ASSUME NEW a \in Int, NEW b \in Int
  PROVE  Max({a, b}) \in {a, b} /\ Max({a, b}) >= a /\ Max({a, b}) >= b
<1>1. \E c \in {a, b} : \A d \in {a, b} : c >= d
  OBVIOUS
<1>2. QED
  BY <1>1 DEF Max

\* A wait is at least what the server asked for under the cap, and no longer than the cap.
LEMMA WaitIsBounded ==
  ASSUME NEW hint \in Nat \cup {NoHint}, NEW attempt \in 1 .. 2
  PROVE  /\ Wait(hint, attempt) \in Nat /\ Wait(hint, attempt) <= MaxWait
         /\ Due(hint) \in Nat /\ Due(hint) <= Wait(hint, attempt)
<1>1. CASE hint # NoHint
  BY <1>1, SmallerOfTwo DEF Wait, Due, MaxWait
<1>2. CASE hint = NoHint
  <2>1. BackoffBase * 2 ^ (attempt - 1) \in {2, 4}
    <3>1. 2 ^ 0 = 1 /\ 2 ^ 1 = 2
      OBVIOUS
    <3>2. CASE attempt = 1
      <4>1. attempt - 1 = 0
        BY <3>2
      <4>2. QED
        BY <3>1, <4>1 DEF BackoffBase
    <3>3. CASE attempt = 2
      <4>1. attempt - 1 = 1
        BY <3>3
      <4>2. QED
        BY <3>1, <4>1 DEF BackoffBase
    <3>4. QED
      BY <3>2, <3>3
  <2> DEFINE w == BackoffBase * 2 ^ (attempt - 1)
  <2>2. Wait(hint, attempt) = Min({w, MaxWait})
    BY <1>2 DEF Wait
  <2>3. w \in Nat
    BY <2>1
  <2> HIDE DEF w
  <2>4. Min({w, MaxWait}) \in Nat /\ Min({w, MaxWait}) <= MaxWait
    BY <2>3, SmallerOfTwo DEF MaxWait
  <2>5. Due(hint) = 0
    BY <1>2 DEF Due
  <2>6. QED
    BY <2>2, <2>4, <2>5
<1>3. QED
  BY <1>1, <1>2

LEMMA IdleIsQuiet ==
  /\ IsCall(Idle) /\ Idle.owed = 0 /\ Idle.slept = 0 /\ Idle.lost = 0 /\ Idle.at = "idle"
  /\ \A what \in {"chat", "embeddings"} :
       /\ IsCall(Post(what)) /\ Post(what).owed = 0 /\ Post(what).slept = 0 /\ Post(what).lost = 0
       /\ Post(what).attempt = 1
<1>1. IsCall(Idle) /\ Idle.owed = 0 /\ Idle.slept = 0 /\ Idle.lost = 0 /\ Idle.at = "idle"
  BY DEF Idle, IsCall, MaxAttempts
<1>2. ASSUME NEW what \in {"chat", "embeddings"}
      PROVE  /\ IsCall(Post(what)) /\ Post(what).owed = 0 /\ Post(what).slept = 0 /\ Post(what).lost = 0
             /\ Post(what).attempt = 1
  BY <1>1, <1>2 DEF Post, IsCall, MaxAttempts
<1>3. QED
  BY <1>1, <1>2

LEMMA CallsBegin ==
  ASSUME post' = Idle \/ \E what \in {"chat", "embeddings"} : post' = Post(what)
  PROVE  CallIInv'
  BY IdleIsQuiet DEF CallIInv, MaxAttempts, MaxWait, RetryPostSend

LEMMA OneAttempt ==
  ASSUME CallIInv, Send
  PROVE  CallIInv'
<1>1. PICK answer, jitter : answer.hint \in Nat \cup {NoHint} /\ jitter \in {0, 1} /\ post' = Attempt(post, answer, jitter)
  <2> DEFINE answers == IF post.what = "chat" THEN ChatAnswers ELSE EmbedAnswers
  <2>1. \E answer \in answers, jitter \in Jitters : post' = Attempt(post, answer, jitter)
    BY DEF Send
  <2>2. \A answer \in answers : answer.hint \in Nat \cup {NoHint}
    BY PanelAssumption
  <2>3. Jitters \subseteq {0, 1}
    BY PanelAssumption
  <2> HIDE DEF answers
  <2>4. QED
    BY <2>1, <2>2, <2>3
<1>2. IsCall(post) /\ post.at = "send"
  BY DEF CallIInv, Send
<1> DEFINE loss  == IF answer.kind = "lost" THEN 1 ELSE 0
           noted == [post EXCEPT !.last = answer, !.lost = @ + loss]
<1>3. /\ IsCall(noted) /\ noted.last = answer /\ noted.lost = post.lost + loss
      /\ noted.at = "send" /\ noted.what = post.what /\ noted.attempt = post.attempt
      /\ noted.slept = post.slept /\ noted.owed = post.owed
  <2>1. loss \in Nat
    OBVIOUS
  <2> HIDE DEF loss
  <2>2. QED
    BY <1>2, <2>1 DEF IsCall
<1>4. CASE Again(post, answer)
  <2>1. post.attempt \in 1 .. 2 /\ HintOf(answer) \in Nat \cup {NoHint}
    BY <1>1, <1>2, <1>4 DEF CallIInv, Again, MaxAttempts, IsCall, HintOf, NoHint
  <2> DEFINE wait == Wait(HintOf(answer), post.attempt)
             due  == Due(HintOf(answer))
  <2>2. wait \in Nat /\ wait <= MaxWait /\ due \in Nat /\ due <= wait
    BY <2>1, WaitIsBounded
  <2>3. post' = [noted EXCEPT !.attempt = @ + 1, !.slept = @ + wait + jitter, !.owed = @ + due]
    BY <1>1, <1>4 DEF Attempt
  <2> HIDE DEF wait, due, noted
  <2>4. /\ IsCall(post') /\ post'.at = "send" /\ post'.what = post.what /\ post'.last = answer
        /\ post'.attempt = post.attempt + 1 /\ post'.lost = post.lost + loss
        /\ post'.slept = post.slept + wait + jitter /\ post'.owed = post.owed + due
    <3>1. post.attempt + 1 \in 0 .. MaxAttempts /\ post.slept + wait + jitter \in Nat /\ post.owed + due \in Nat
      BY <1>1, <1>2, <2>1, <2>2 DEF IsCall, MaxAttempts
    <3>2. /\ post'.at = "send" /\ post'.what = post.what /\ post'.last = answer
          /\ post'.attempt = post.attempt + 1 /\ post'.lost = post.lost + loss
          /\ post'.slept = post.slept + wait + jitter /\ post'.owed = post.owed + due
      BY <1>3, <2>3 DEF IsCall
    <3>3. IsCall(post')
      BY <1>3, <2>3, <3>1 DEF IsCall
    <3>4. QED
      BY <3>2, <3>3
  <2>5. ~RetryPostSend(post.what) => loss = 0
    BY <1>4 DEF Again, Retryable
  <2>6. post'.slept <= (post'.attempt - 1) * (MaxWait + 1) /\ post'.owed <= post'.slept
        /\ post'.slept <= (MaxAttempts - 1) * (MaxWait + 1)
    BY <1>1, <1>2, <2>1, <2>2, <2>4 DEF CallIInv, MaxWait, MaxAttempts, IsCall
  <2>7. post'.lost <= IF RetryPostSend(post'.what) THEN post'.attempt - 1 ELSE 0
    BY <1>2, <2>1, <2>4, <2>5 DEF CallIInv, IsCall
  <2>8. QED
    BY <1>2, <2>1, <2>4, <2>6, <2>7 DEF CallIInv, RetryPostSend, MaxAttempts, IsCall
<1>5. CASE ~Again(post, answer)
  <2>1. post' = [noted EXCEPT !.at = "idle"]
    BY <1>1, <1>5 DEF Attempt
  <2> HIDE DEF noted
  <2>2. /\ IsCall(post') /\ post'.at = "idle" /\ post'.what = post.what /\ post'.last = answer
        /\ post'.lost = post.lost + loss /\ post'.slept = post.slept /\ post'.owed = post.owed
    BY <1>3, <2>1 DEF IsCall
  <2>3. post'.lost <= IF RetryPostSend(post'.what) THEN MaxAttempts ELSE 1
    BY <1>2, <2>2 DEF CallIInv, IsCall, MaxAttempts
  <2>4. post'.what = "chat" /\ post'.lost > 0 => post'.last.kind = "lost"
    BY <1>2, <2>2 DEF CallIInv, RetryPostSend, IsCall
  <2>5. QED
    BY <1>2, <2>2, <2>3, <2>4 DEF CallIInv
<1>6. QED
  BY <1>4, <1>5

LEMMA CallInit == Init => CallIInv
  BY IdleIsQuiet DEF Init, CallIInv, MaxAttempts, MaxWait, RetryPostSend

LEMMA CallStep == CallIInv /\ [Next]_vars => CallIInv'
<1> SUFFICES ASSUME CallIInv, [Next]_vars PROVE CallIInv'
  OBVIOUS
<1>1. CASE UNCHANGED post
  BY <1>1 DEF CallIInv
<1>2. CASE Send
  BY <1>2, OneAttempt
<1>3. CASE post' = Idle \/ \E what \in {"chat", "embeddings"} : post' = Post(what)
  BY <1>3, CallsBegin
<1>4. CASE Submit \/ SeedsResolved \/ Decompose \/ Explored \/ StartLanes \/ OpenGate \/ Screen
  BY <1>1, <1>3, <1>4 DEF Submit, ToEmbed, SeedsResolved, Decompose, Explored, StartLanes, OpenGate, Screen
<1>5. CASE SearchSeeds \/ PickSeeds \/ VisitSeed \/ FollowEdge \/ Descend
  BY <1>1, <1>5 DEF SearchSeeds, PickSeeds, VisitSeed, FollowEdge, Descend, ExploreFrame
<1>6. CASE IngestFile \/ ResolveSeed \/ Fuse \/ Rerank \/ Trim \/ Promote \/ Build \/ RunEngine \/ Over
  BY <1>1, <1>6 DEF IngestFile, ResolveSeed, Fuse, Rerank, Trim, Promote, Build, RunEngine, Over, vars
<1>7. ASSUME NEW l \in Lanes, CallLane(l) \/ PersistNext(l) \/ LeaveStore(l) \/ SearchStore(l)
      PROVE  UNCHANGED post
  BY <1>7 DEF CallLane, PersistNext, LeaveStore, SearchStore, LaneFrame
<1>8. CASE UNCHANGED vars
  BY <1>1, <1>8 DEF vars
<1>9. QED
  BY <1>1, <1>2, <1>4, <1>5, <1>6, <1>7, <1>8 DEF Next, Lanes

\* Whatever is answered, a call sleeps at least as long as the server asks for, up to the
\* cap, and not longer than all its waits; a chat that was lost is not sent again
\* (retry.rs:114, 206).
THEOREM CallsStayInTheirEnvelope == Spec => []CallEnvelope
<1>1. CallIInv => CallEnvelope
  BY DEF CallIInv, CallEnvelope, Done, Result, Succeeded, RetryPostSend, IsCall
<1>2. QED
  BY <1>1, CallInit, CallStep, PTL DEF Spec
-----------------------------------------------------------------------------
(***************************************************************************)
(* Lists and places.  Each place of a finite set has another number of     *)
(* places before it, so that AtPlaces takes every one, once, in order.     *)
(***************************************************************************)
Listed(s)   == \E T : s \in Seq(T)
Lower(S, i) == {j \in S : j < i}
Nth(S, n)   == CHOOSE i \in S : Cardinality(Lower(S, i)) = n - 1

LEMMA ListedByLength ==
  ASSUME NEW n \in Nat, NEW s, s = [i \in 1 .. n |-> s[i]]
  PROVE  Listed(s) /\ Len(s) = n /\ DOMAIN s = 1 .. n
<1> DEFINE T == {s[i] : i \in 1 .. n}
<1>1. s \in [1 .. n -> T]
  OBVIOUS
<1>2. s \in Seq(T)
  BY <1>1, SeqDef
<1>3. Len(s) \in Nat /\ 1 .. Len(s) = 1 .. n
  BY <1>1, <1>2
<1>4. Len(s) = n
  <2>1. n \in 1 .. n => n <= Len(s)
    BY <1>3
  <2>2. Len(s) \in 1 .. Len(s) => Len(s) <= n
    BY <1>3
  <2>3. QED
    BY <1>3, <2>1, <2>2
<1>5. QED
  BY <1>1, <1>2, <1>4 DEF Listed

LEMMA ListedIs ==
  ASSUME NEW s, Listed(s)
  PROVE  Len(s) \in Nat /\ DOMAIN s = 1 .. Len(s) /\ s = [i \in 1 .. Len(s) |-> s[i]]
  BY DEF Listed

LEMMA RanksDiffer ==
  ASSUME NEW S \in SUBSET Int, IsFiniteSet(S), NEW i \in S, NEW k \in S, i < k
  PROVE  Cardinality(Lower(S, i)) < Cardinality(Lower(S, k))
<1>1. Lower(S, i) \in SUBSET Lower(S, k) /\ i \in Lower(S, k) /\ i \notin Lower(S, i)
  <2>1. i \in Int /\ k \in Int /\ \A j \in S : j \in Int
    OBVIOUS
  <2>2. \A j \in S : j < i => j < k
    BY <2>1
  <2>3. ~(i < i)
    BY <2>1
  <2>4. Lower(S, i) \in SUBSET Lower(S, k)
    BY <2>2 DEF Lower
  <2>5. i \in Lower(S, k) /\ i \notin Lower(S, i)
    BY <2>3 DEF Lower
  <2>6. QED
    BY <2>4, <2>5
<1>2. IsFiniteSet(Lower(S, k)) /\ IsFiniteSet(Lower(S, i))
  BY FS_Subset DEF Lower
<1>3. /\ Cardinality(Lower(S, i)) <= Cardinality(Lower(S, k))
      /\ Cardinality(Lower(S, k)) = Cardinality(Lower(S, i)) => Lower(S, k) = Lower(S, i)
  BY <1>1, <1>2, FS_Subset
<1>4. Cardinality(Lower(S, k)) \in Nat /\ Cardinality(Lower(S, i)) \in Nat
  BY <1>2, FS_CardinalityType
<1>5. QED
  BY <1>1, <1>3, <1>4

LEMMA EveryRankIsTaken ==
  ASSUME NEW S \in SUBSET Int, IsFiniteSet(S)
  PROVE  /\ Cardinality(S) \in Nat
         /\ \A i \in S : Cardinality(Lower(S, i)) \in 0 .. Cardinality(S) - 1
         /\ \A r \in 0 .. Cardinality(S) - 1 : \E i \in S : Cardinality(Lower(S, i)) = r
<1> DEFINE n == Cardinality(S)
           rank == [i \in S |-> Cardinality(Lower(S, i))]
<1>1. n \in Nat
  BY FS_CardinalityType
<1>2. ASSUME NEW i \in S PROVE Cardinality(Lower(S, i)) \in 0 .. n - 1
  <2>1. Lower(S, i) \in SUBSET S /\ i \notin Lower(S, i)
    BY DEF Lower
  <2>2. IsFiniteSet(Lower(S, i)) /\ Cardinality(Lower(S, i)) <= n
        /\ (Cardinality(S) = Cardinality(Lower(S, i)) => S = Lower(S, i))
    BY <2>1, FS_Subset
  <2>3. Cardinality(Lower(S, i)) \in Nat
    BY <2>2, FS_CardinalityType
  <2>4. QED
    BY <1>1, <2>1, <2>2, <2>3
<1>3. rank \in [S -> 0 .. n - 1]
  BY <1>2
<1>4. \A i, k \in S : rank[i] = rank[k] => i = k
  <2> SUFFICES ASSUME NEW i \in S, NEW k \in S, i # k PROVE rank[i] # rank[k]
    OBVIOUS
  <2>1. i < k \/ k < i
    OBVIOUS
  <2>2. rank[i] \in Int /\ rank[k] \in Int
    BY <1>3
  <2>3. i < k => rank[i] < rank[k]
    BY RanksDiffer
  <2>4. k < i => rank[k] < rank[i]
    BY RanksDiffer
  <2> HIDE DEF rank
  <2>5. QED
    BY <2>1, <2>2, <2>3, <2>4
<1> HIDE DEF rank, n
<1>5. IsFiniteSet(0 .. n - 1) /\ Cardinality(0 .. n - 1) = n
  <2>1. 0 \in Int /\ n - 1 \in Int /\ (IF 0 > n - 1 THEN 0 ELSE (n - 1) - 0 + 1) = n
    BY <1>1
  <2>2. QED
    BY <2>1, FS_Interval
<1>6. rank \in Injection(S, 0 .. n - 1)
  BY <1>3, <1>4, Fun_IsInj
<1>7. rank \in Surjection(S, 0 .. n - 1)
  BY <1>5, <1>6, FS_Injection DEF n
<1>8. \A r \in 0 .. n - 1 : \E i \in S : rank[i] = r
  BY <1>7 DEF Surjection
<1>9. QED
  BY <1>1, <1>2, <1>8 DEF rank, n

LEMMA PlacesInOrder ==
  ASSUME NEW S \in SUBSET Int, IsFiniteSet(S)
  PROVE  /\ Cardinality(S) \in Nat
         /\ \A n \in 1 .. Cardinality(S) : Nth(S, n) \in S /\ Cardinality(Lower(S, Nth(S, n))) = n - 1
         /\ \A i \in S : \E n \in 1 .. Cardinality(S) : Nth(S, n) = i
<1>1. Cardinality(S) \in Nat
  BY EveryRankIsTaken
<1>2. ASSUME NEW n \in 1 .. Cardinality(S)
      PROVE  Nth(S, n) \in S /\ Cardinality(Lower(S, Nth(S, n))) = n - 1
  <2>1. n - 1 \in 0 .. Cardinality(S) - 1
    BY <1>1
  <2>2. \E i \in S : Cardinality(Lower(S, i)) = n - 1
    BY <2>1, EveryRankIsTaken
  <2>3. QED
    BY <2>2 DEF Nth
<1>3. ASSUME NEW i \in S PROVE \E n \in 1 .. Cardinality(S) : Nth(S, n) = i
  <2> DEFINE r == Cardinality(Lower(S, i))
  <2>1. r \in 0 .. Cardinality(S) - 1
    BY EveryRankIsTaken
  <2>2. r + 1 \in 1 .. Cardinality(S) /\ (r + 1) - 1 = r
    BY <1>1, <2>1
  <2>3. Nth(S, r + 1) \in S /\ Cardinality(Lower(S, Nth(S, r + 1))) = r
    BY <1>2, <2>2
  <2>4. Nth(S, r + 1) \in Int /\ i \in Int
    BY <2>3
  <2>5. ~(Nth(S, r + 1) < i) /\ ~(i < Nth(S, r + 1))
    <3>1. r \in Int
      BY <2>1
    <3>2. Nth(S, r + 1) < i => Cardinality(Lower(S, Nth(S, r + 1))) < r
      BY <2>3, RanksDiffer
    <3>3. i < Nth(S, r + 1) => r < Cardinality(Lower(S, Nth(S, r + 1)))
      BY <2>3, RanksDiffer
    <3> HIDE DEF r
    <3>4. QED
      BY <2>3, <3>1, <3>2, <3>3
  <2>6. Nth(S, r + 1) = i
    BY <2>4, <2>5
  <2>7. QED
    BY <2>2, <2>6
<1>4. QED
  BY <1>1, <1>2, <1>3

LEMMA AtPlacesIs ==
  ASSUME NEW s, NEW S \in SUBSET Int, IsFiniteSet(S)
  PROVE  /\ Listed(AtPlaces(s, S)) /\ Len(AtPlaces(s, S)) = Cardinality(S) /\ Cardinality(S) \in Nat
         /\ DOMAIN AtPlaces(s, S) = 1 .. Cardinality(S)
         /\ \A n \in 1 .. Cardinality(S) : Nth(S, n) \in S /\ AtPlaces(s, S)[n] = s[Nth(S, n)]
         /\ \A i \in S : \E n \in 1 .. Cardinality(S) : AtPlaces(s, S)[n] = s[i]
<1>1. /\ Cardinality(S) \in Nat
      /\ \A n \in 1 .. Cardinality(S) : Nth(S, n) \in S
      /\ \A i \in S : \E n \in 1 .. Cardinality(S) : Nth(S, n) = i
  BY PlacesInOrder
<1>2. AtPlaces(s, S) = [n \in 1 .. Cardinality(S) |-> s[Nth(S, n)]]
  BY DEF AtPlaces, Nth, Lower
<1> DEFINE t == AtPlaces(s, S)
<1>3. t = [n \in 1 .. Cardinality(S) |-> t[n]] /\ \A n \in 1 .. Cardinality(S) : t[n] = s[Nth(S, n)]
  BY <1>2
<1> HIDE DEF t
<1>4. Listed(t) /\ Len(t) = Cardinality(S) /\ DOMAIN t = 1 .. Cardinality(S)
  BY <1>1, <1>3, ListedByLength
<1>5. QED
  BY <1>1, <1>3, <1>4 DEF t

LEMMA PlacesAreFinite ==
  ASSUME NEW s, Listed(s), NEW S \in SUBSET DOMAIN s
  PROVE  S \in SUBSET Int /\ IsFiniteSet(S) /\ Cardinality(S) <= Len(s)
<1>1. Len(s) \in Nat /\ DOMAIN s = 1 .. Len(s)
  BY ListedIs
<1>2. IsFiniteSet(1 .. Len(s)) /\ Cardinality(1 .. Len(s)) = Len(s)
  BY <1>1, FS_Interval
<1>3. QED
  BY <1>1, <1>2, FS_Subset

LEMMA ListedAtPlaces ==
  ASSUME NEW s, Listed(s), NEW S \in SUBSET DOMAIN s
  PROVE  /\ Listed(AtPlaces(s, S)) /\ Len(AtPlaces(s, S)) <= Len(s)
         /\ \A n \in DOMAIN AtPlaces(s, S) : \E i \in S : AtPlaces(s, S)[n] = s[i]
         /\ \A i \in S : \E n \in DOMAIN AtPlaces(s, S) : AtPlaces(s, S)[n] = s[i]
<1>1. S \in SUBSET Int /\ IsFiniteSet(S) /\ Cardinality(S) <= Len(s)
  BY PlacesAreFinite
<1>2. /\ Listed(AtPlaces(s, S)) /\ Len(AtPlaces(s, S)) = Cardinality(S)
      /\ DOMAIN AtPlaces(s, S) = 1 .. Cardinality(S)
      /\ \A n \in 1 .. Cardinality(S) : Nth(S, n) \in S /\ AtPlaces(s, S)[n] = s[Nth(S, n)]
      /\ \A i \in S : \E n \in 1 .. Cardinality(S) : AtPlaces(s, S)[n] = s[i]
  BY <1>1, AtPlacesIs
<1>3. QED
  BY <1>1, <1>2

\* u holds what s holds, and what t holds.
Joins(u, s, t) ==
  /\ Listed(u)
  /\ \A i \in DOMAIN s : \E k \in DOMAIN u : u[k] = s[i]
  /\ \A i \in DOMAIN t : \E k \in DOMAIN u : u[k] = t[i]
  /\ \A i \in DOMAIN u : (\E j \in DOMAIN s : u[i] = s[j]) \/ (\E j \in DOMAIN t : u[i] = t[j])

LEMMA ListedConcat ==
  ASSUME NEW s, NEW t, Listed(s), Listed(t)
  PROVE  Joins(s \o t, s, t)
<1>1. PICK S, T : s \in Seq(S) /\ t \in Seq(T)
  BY DEF Listed
<1>2. s \in Seq(S \cup T) /\ t \in Seq(S \cup T)
  BY <1>1, SeqMonotonic
<1>3. /\ s \o t \in Seq(S \cup T) /\ Len(s \o t) = Len(s) + Len(t)
      /\ \A i \in 1 .. Len(s) + Len(t) : (s \o t)[i] = IF i <= Len(s) THEN s[i] ELSE t[i - Len(s)]
  BY <1>2, ConcatProperties
<1>4. /\ Len(s) \in Nat /\ Len(t) \in Nat /\ DOMAIN s = 1 .. Len(s) /\ DOMAIN t = 1 .. Len(t)
      /\ DOMAIN (s \o t) = 1 .. Len(s) + Len(t)
  BY <1>2, <1>3
<1>5. Listed(s \o t)
  BY <1>3 DEF Listed
<1>6. \A i \in DOMAIN s : \E k \in DOMAIN (s \o t) : (s \o t)[k] = s[i]
  BY <1>3, <1>4
<1>7. \A i \in DOMAIN t : \E k \in DOMAIN (s \o t) : (s \o t)[k] = t[i]
  <2> SUFFICES ASSUME NEW i \in 1 .. Len(t)
               PROVE  \E k \in 1 .. Len(s) + Len(t) : (s \o t)[k] = t[i]
    BY <1>4
  <2>1. Len(s) + i \in 1 .. Len(s) + Len(t) /\ ~(Len(s) + i <= Len(s)) /\ (Len(s) + i) - Len(s) = i
    BY <1>4
  <2>2. (s \o t)[Len(s) + i] = t[i]
    BY <1>3, <2>1
  <2>3. QED
    BY <2>1, <2>2
<1>8. ASSUME NEW i \in DOMAIN (s \o t)
      PROVE  (\E j \in DOMAIN s : (s \o t)[i] = s[j]) \/ (\E j \in DOMAIN t : (s \o t)[i] = t[j])
  <2>1. CASE i <= Len(s)
    BY <1>3, <1>4, <2>1
  <2>2. CASE ~(i <= Len(s))
    <3>1. i - Len(s) \in 1 .. Len(t)
      BY <1>4, <2>2
    <3>2. QED
      BY <1>3, <1>4, <2>2, <3>1
  <2>3. QED
    BY <2>1, <2>2
<1>9. QED
  BY <1>5, <1>6, <1>7, <1>8 DEF Joins

LEMMA ListedTake ==
  ASSUME NEW s, Listed(s), NEW n \in Nat
  PROVE  /\ Listed(Take(s, n)) /\ Len(Take(s, n)) <= n
         /\ \A i \in DOMAIN Take(s, n) : i \in DOMAIN s /\ Take(s, n)[i] = s[i]
<1> DEFINE m == Min({n, Len(s)})
<1>1. PICK T : s \in Seq(T)
  BY DEF Listed
<1>2. Len(s) \in Nat /\ m \in Nat /\ m <= n /\ m <= Len(s)
  <2>1. Len(s) \in Nat
    BY <1>1
  <2>2. m \in {n, Len(s)} /\ m <= n /\ m <= Len(s)
    BY <2>1, SmallerOfTwo
  <2>3. QED
    BY <2>1, <2>2
<1> HIDE DEF m
<1>3. \A i \in 1 .. m : s[i] \in T
  BY <1>1, <1>2
<1>4. /\ SubSeq(s, 1, m) \in Seq(T)
      /\ Len(SubSeq(s, 1, m)) = IF 1 <= m THEN m - 1 + 1 ELSE 0
      /\ \A i \in 1 .. m - 1 + 1 : SubSeq(s, 1, m)[i] = s[1 + i - 1]
  BY <1>2, <1>3, SubSeqProperties
<1>5. Len(SubSeq(s, 1, m)) = m /\ DOMAIN SubSeq(s, 1, m) = 1 .. m
  BY <1>2, <1>4
<1>6. \A i \in 1 .. m : i \in DOMAIN s /\ SubSeq(s, 1, m)[i] = s[i]
  <2> SUFFICES ASSUME NEW i \in 1 .. m PROVE i \in DOMAIN s /\ SubSeq(s, 1, m)[i] = s[i]
    OBVIOUS
  <2>1. i \in 1 .. m - 1 + 1 /\ 1 + i - 1 = i /\ i \in 1 .. Len(s)
    BY <1>2
  <2>2. QED
    BY <1>1, <1>4, <2>1
<1>7. Take(s, n) = SubSeq(s, 1, m)
  BY DEF Take, m
<1>8. QED
  BY <1>2, <1>4, <1>5, <1>6, <1>7 DEF Listed

LEMMA LeastNumber ==
  ASSUME NEW S \in SUBSET Nat, S # {}
  PROVE  \E m \in S : \A k \in S : m <= k
<1>1. PICK m \in S : \A k \in S : ~(<<k, m>> \in OpToRel(<, Nat))
  BY WFMin, NatLessThanWellFounded, Zenon
<1>2. \A k \in S : ~(k < m)
  BY <1>1, Zenon DEF OpToRel
<1>3. QED
  BY <1>2

\* What a set of numbers holds that has 0 and, with a number, the next one.
LEMMA CountingUp ==
  ASSUME NEW n \in Nat, NEW S, 0 \in S, \A k \in 0 .. n - 1 : k \in S => k + 1 \in S
  PROVE  \A k \in 0 .. n : k \in S
<1> DEFINE Bad == {k \in 0 .. n : k \notin S}
<1> SUFFICES ASSUME Bad # {} PROVE FALSE
  OBVIOUS
<1>1. Bad \in SUBSET Nat
  OBVIOUS
<1>2. PICK m \in Bad : \A k \in Bad : m <= k
  <2> HIDE DEF Bad
  <2>1. QED
    BY <1>1, LeastNumber
<1>3. m - 1 \in 0 .. n - 1 /\ m - 1 \notin Bad /\ (m - 1) + 1 = m
  BY <1>2
<1>4. QED
  BY <1>3

-----------------------------------------------------------------------------
(***************************************************************************)
(* Hits.  What each step keeps of them, and of their sources.              *)
(***************************************************************************)
LEMMA SourcesAtPlaces ==
  ASSUME NEW s, Listed(s), NEW S \in SUBSET DOMAIN s
  PROVE  /\ Listed(AtPlaces(s, S)) /\ Len(AtPlaces(s, S)) <= Len(s)
         /\ Sources(AtPlaces(s, S)) = {s[i].source : i \in S}
  BY ListedAtPlaces DEF Sources

LEMMA SourcesOfBoth ==
  ASSUME NEW s, NEW t, Listed(s), Listed(t)
  PROVE  Listed(s \o t) /\ Sources(s \o t) = Sources(s) \cup Sources(t)
<1> DEFINE u == s \o t
<1>1. Joins(u, s, t)
  BY ListedConcat
<1> HIDE DEF u
<1>2. Sources(u) \subseteq Sources(s) \cup Sources(t)
  BY <1>1 DEF Sources, Joins
<1>3. Sources(s) \subseteq Sources(u) /\ Sources(t) \subseteq Sources(u)
  BY <1>1 DEF Sources, Joins
<1>4. QED
  BY <1>1, <1>2, <1>3 DEF u, Joins

LEMMA OnePerSourceKeeps ==
  ASSUME NEW s, Listed(s)
  PROVE  /\ Listed(OnePerSource(s)) /\ Len(OnePerSource(s)) <= Len(s)
         /\ Sources(OnePerSource(s)) = Sources(s)
<1> DEFINE S == FirstPlaces(s, SameSource)
<1>1. S = {i \in DOMAIN s : \A j \in 1 .. i - 1 : s[j].source # s[i].source}
  BY DEF FirstPlaces, SameSource
<1>2. \A i \in DOMAIN s : \E j \in S : s[j].source = s[i].source
  <2> SUFFICES ASSUME NEW i \in DOMAIN s PROVE \E j \in S : s[j].source = s[i].source
    OBVIOUS
  <2> DEFINE same == {j \in DOMAIN s : s[j].source = s[i].source}
  <2>1. Len(s) \in Nat /\ DOMAIN s = 1 .. Len(s)
    BY ListedIs
  <2>2. same \in SUBSET Nat /\ same # {}
    BY <2>1
  <2> HIDE DEF same
  <2>3. PICK m \in same : \A k \in same : m <= k
    BY <2>2, LeastNumber
  <2>4. m \in DOMAIN s /\ s[m].source = s[i].source
    BY DEF same
  <2>5. ASSUME NEW j \in 1 .. m - 1 PROVE s[j].source # s[m].source
    <3>1. j \in DOMAIN s /\ ~(m <= j)
      BY <2>1, <2>4
    <3>2. QED
      BY <2>3, <2>4, <3>1 DEF same
  <2>6. m \in S
    BY <1>1, <2>4, <2>5
  <2>7. QED
    BY <2>4, <2>6
<1>3. S \in SUBSET DOMAIN s
  BY <1>1
<1> HIDE DEF S
<1>4. /\ Listed(AtPlaces(s, S)) /\ Len(AtPlaces(s, S)) <= Len(s)
      /\ Sources(AtPlaces(s, S)) = {s[i].source : i \in S}
  BY <1>3, SourcesAtPlaces
<1>5. {s[i].source : i \in S} = Sources(s)
  BY <1>2, <1>3 DEF Sources
<1>6. QED
  BY <1>4, <1>5 DEF OnePerSource, S

LEMMA FusedIsListed ==
  ASSUME NEW a, NEW b, NEW c, Listed(a), Listed(b), Listed(c)
  PROVE  Listed(FuseRrf(<<a, b, c>>))
<1> DEFINE lanes == <<a, b, c>>
           all   == lanes[1] \o lanes[2] \o lanes[3]
           rows  == FirstRows(all)
           t     == FuseRrf(lanes)
<1>1. Listed(a \o b)
  BY ListedConcat DEF Joins
<1>2. Listed((a \o b) \o c)
  BY <1>1, ListedConcat DEF Joins
<1>3. Listed(all)
  BY <1>2
<1> HIDE DEF all
<1>4. FirstPlaces(all, SameRow) \in SUBSET DOMAIN all
  BY DEF FirstPlaces
<1>5. Listed(rows)
  BY <1>3, <1>4, ListedAtPlaces DEF FirstRows
<1>6. Len(rows) \in Nat /\ DOMAIN rows = 1 .. Len(rows)
  BY <1>5, ListedIs
<1> HIDE DEF rows
<1>7. t = [i \in 1 .. Len(rows) |-> t[i]]
  BY <1>6 DEF FuseRrf, ByScore, Sorted, rows, all
<1> HIDE DEF t
<1>8. Listed(t)
  BY <1>6, <1>7, ListedByLength
<1>9. QED
  BY <1>8 DEF t

LEMMA FloorKeeps ==
  ASSUME NEW fused, NEW lanes, Listed(fused)
  PROVE  Listed(AboveFloor(fused, lanes)) /\ Sources(AboveFloor(fused, lanes)) \subseteq Sources(fused)
<1> DEFINE S == {i \in DOMAIN fused : 10 * Score(fused[i], lanes) >= 3 * Score(fused[1], lanes)}
<1>1. S \in SUBSET DOMAIN fused /\ AboveFloor(fused, lanes) = AtPlaces(fused, S)
  BY DEF AboveFloor
<1> HIDE DEF S
<1>2. Listed(AtPlaces(fused, S)) /\ Sources(AtPlaces(fused, S)) = {fused[i].source : i \in S}
  BY <1>1, SourcesAtPlaces
<1>3. {fused[i].source : i \in S} \subseteq Sources(fused)
  BY <1>1 DEF Sources
<1>4. QED
  BY <1>1, <1>2, <1>3

\* The reranker puts nothing in, and takes nothing out but what it scored low.
LEMMA RerankKeeps ==
  ASSUME NEW hitlist, Listed(hitlist), NEW answer, Listed(answer)
  PROVE  LET rows == InRange(answer, hitlist) IN
         /\ Listed(ApplyRerank(hitlist, rows))
         /\ Sources(ApplyRerank(hitlist, rows)) \subseteq Sources(hitlist)
         /\ RerankReasons(rows) = {} => Sources(hitlist) \subseteq Sources(ApplyRerank(hitlist, rows))
<1> DEFINE rows     == InRange(answer, hitlist)
           fit      == {i \in DOMAIN answer : answer[i].index \in DOMAIN hitlist}
           kept     == {i \in DOMAIN rows : ~rows[i].low}
           chosen   == AtPlaces(rows, kept)
           first    == HitsAt(chosen, hitlist)
           unscored == DOMAIN hitlist \ {rows[i].index : i \in DOMAIN rows}
           rest     == AtPlaces(hitlist, unscored)
           after    == ApplyRerank(hitlist, rows)
<1>1. after = first \o rest
  BY DEF ApplyRerank
<1>2. Listed(rows) /\ \A i \in DOMAIN rows : rows[i].index \in DOMAIN hitlist
  <2>1. fit \in SUBSET DOMAIN answer
    OBVIOUS
  <2>2. rows = AtPlaces(answer, fit)
    BY DEF InRange
  <2> HIDE DEF rows
  <2>3. Listed(rows) /\ \A n \in DOMAIN rows : \E i \in fit : rows[n] = answer[i]
    BY <2>1, <2>2, ListedAtPlaces
  <2>4. QED
    BY <2>3
<1> HIDE DEF rows
<1>3. kept \in SUBSET DOMAIN rows /\ unscored \in SUBSET DOMAIN hitlist
  OBVIOUS
<1>4. /\ Listed(chosen) /\ \A n \in DOMAIN chosen : \E i \in kept : chosen[n] = rows[i]
      /\ \A i \in kept : \E n \in DOMAIN chosen : chosen[n] = rows[i]
  BY <1>2, <1>3, ListedAtPlaces
<1>5. /\ Listed(rest) /\ \A n \in DOMAIN rest : \E i \in unscored : rest[n] = hitlist[i]
      /\ \A i \in unscored : \E n \in DOMAIN rest : rest[n] = hitlist[i]
  BY <1>3, ListedAtPlaces
<1> HIDE DEF chosen, rest
<1>6. DOMAIN first = DOMAIN chosen /\ \A n \in DOMAIN chosen : first[n] = hitlist[chosen[n].index]
  BY DEF HitsAt
<1>7. Listed(first)
  <2>1. Len(chosen) \in Nat /\ DOMAIN chosen = 1 .. Len(chosen)
    BY <1>4, ListedIs
  <2>2. first = [n \in 1 .. Len(chosen) |-> first[n]]
    BY <2>1 DEF HitsAt
  <2> HIDE DEF first
  <2>3. QED
    BY <2>1, <2>2, ListedByLength
<1> HIDE DEF first, kept, unscored
<1>8. Listed(after) /\ Sources(after) = Sources(first) \cup Sources(rest)
  BY <1>1, <1>5, <1>7, SourcesOfBoth
<1> HIDE DEF after
<1>9. Sources(rest) = {hitlist[i].source : i \in unscored}
  BY <1>5 DEF Sources
<1>10. Sources(first) = {hitlist[rows[i].index].source : i \in kept}
  BY <1>4, <1>6 DEF Sources
<1>11. Sources(after) \subseteq Sources(hitlist)
  BY <1>2, <1>3, <1>8, <1>9, <1>10 DEF Sources
<1>12. ASSUME RerankReasons(rows) = {}, NEW j \in DOMAIN hitlist
       PROVE  hitlist[j].source \in Sources(after)
  <2>1. CASE j \in unscored
    BY <1>8, <1>9, <2>1
  <2>2. CASE j \notin unscored
    <3>1. PICK i \in DOMAIN rows : rows[i].index = j
      BY <2>2 DEF unscored
    <3>2. i \in kept
      BY <1>12 DEF RerankReasons, kept
    <3>3. QED
      BY <1>8, <1>10, <3>1, <3>2
  <2>3. QED
    BY <2>1, <2>2
<1>13. RerankReasons(rows) = {} => Sources(hitlist) \subseteq Sources(after)
  BY <1>12 DEF Sources
<1>14. QED
  BY <1>8, <1>11, <1>13 DEF rows, after

\* So does the topicality gate.
LEMMA OnTopicKeeps ==
  ASSUME NEW hitlist, Listed(hitlist), NEW reply
  PROVE  /\ Listed(OnTopic(hitlist, reply)) /\ Len(OnTopic(hitlist, reply)) <= Len(hitlist)
         /\ Sources(OnTopic(hitlist, reply)) \subseteq Sources(hitlist)
         /\ "topicality dropped" \notin TopicalityReasons(hitlist, reply)
              => Sources(hitlist) \subseteq Sources(OnTopic(hitlist, reply))
<1> DEFINE S == NamedBy(reply, hitlist)
<1>1. S \in SUBSET DOMAIN hitlist
  BY DEF NamedBy
<1>2. CASE S = {}
  <2>1. OnTopic(hitlist, reply) = hitlist
    BY <1>2 DEF OnTopic
  <2>2. Len(hitlist) \in Nat
    BY ListedIs
  <2>3. QED
    BY <2>1, <2>2
<1>3. CASE S # {}
  <2>1. OnTopic(hitlist, reply) = AtPlaces(hitlist, S)
    BY <1>3 DEF OnTopic
  <2>2. "topicality dropped" \notin TopicalityReasons(hitlist, reply) => S = DOMAIN hitlist
    BY <1>3 DEF TopicalityReasons
  <2> HIDE DEF S
  <2>3. /\ Listed(AtPlaces(hitlist, S)) /\ Len(AtPlaces(hitlist, S)) <= Len(hitlist)
        /\ Sources(AtPlaces(hitlist, S)) = {hitlist[i].source : i \in S}
    BY <1>1, SourcesAtPlaces
  <2>4. {hitlist[i].source : i \in S} \subseteq Sources(hitlist)
    BY <1>1 DEF Sources
  <2>5. S = DOMAIN hitlist => {hitlist[i].source : i \in S} = Sources(hitlist)
    BY DEF Sources
  <2>6. QED
    BY <2>1, <2>2, <2>3, <2>4, <2>5
<1>4. QED
  BY <1>2, <1>3

-----------------------------------------------------------------------------
(***************************************************************************)
(* The panel, and what a resume makes of its ids.                          *)
(***************************************************************************)
InStore(k, st) == st[k] \in {"heading", "text", "full"}

LEMMA AllPlaces ==
  ASSUME NEW s, Listed(s)
  PROVE  AtPlaces(s, DOMAIN s) = s
<1> DEFINE n == Len(s)
<1>1. n \in Nat /\ DOMAIN s = 1 .. n /\ s = [i \in 1 .. n |-> s[i]]
  BY ListedIs
<1> HIDE DEF n
<1>2. IsFiniteSet(1 .. n) /\ Cardinality(1 .. n) = n /\ 1 .. n \in SUBSET Int
  BY <1>1, FS_Interval
<1>3. ASSUME NEW m \in 1 .. n PROVE Nth(1 .. n, m) = m
  <2>1. Nth(1 .. n, m) \in 1 .. n /\ Cardinality(Lower(1 .. n, Nth(1 .. n, m))) = m - 1
    BY <1>2, PlacesInOrder
  <2> DEFINE j == Nth(1 .. n, m)
  <2>2. Lower(1 .. n, j) = 1 .. j - 1
    BY <1>1, <2>1 DEF Lower
  <2> HIDE DEF j
  <2>3. j \in 1 .. n
    BY <2>1 DEF j
  <2>4. Cardinality(1 .. j - 1) = j - 1
    <3>1. j \in Nat /\ 1 <= j /\ j - 1 \in Int /\ 1 \in Int
      BY <1>1, <2>3
    <3>2. Cardinality(1 .. j - 1) = IF 1 > j - 1 THEN 0 ELSE (j - 1) - 1 + 1
      BY <3>1, FS_Interval
    <3>3. QED
      BY <3>1, <3>2
  <2>5. j - 1 = m - 1
    BY <2>1, <2>2, <2>4 DEF j
  <2>6. j = m
    BY <1>1, <2>3, <2>5
  <2>7. QED
    BY <2>6 DEF j
<1>4. AtPlaces(s, 1 .. n) = [m \in 1 .. n |-> s[Nth(1 .. n, m)]]
  BY <1>2 DEF AtPlaces, Nth, Lower
<1>5. [m \in 1 .. n |-> s[Nth(1 .. n, m)]] = [m \in 1 .. n |-> s[m]]
  BY <1>3
<1>6. QED
  BY <1>1, <1>4, <1>5

\* Lists that agree at some places agree on what stands there.
LEMMA SameAtPlaces ==
  ASSUME NEW s, NEW t, NEW S \in SUBSET Int, IsFiniteSet(S), \A i \in S : s[i] = t[i]
  PROVE  AtPlaces(s, S) = AtPlaces(t, S)
<1>1. \A n \in 1 .. Cardinality(S) : Nth(S, n) \in S
  BY PlacesInOrder
<1>2. /\ AtPlaces(s, S) = [n \in 1 .. Cardinality(S) |-> s[Nth(S, n)]]
      /\ AtPlaces(t, S) = [n \in 1 .. Cardinality(S) |-> t[Nth(S, n)]]
  BY DEF AtPlaces, Nth, Lower
<1>3. QED
  BY <1>1, <1>2

\* What an expert of a hit is.
LEMMA ExpertIs ==
  ASSUME NEW hit, NEW st
  PROVE  LET e == Expert(hit, st) IN
         /\ e = [id |-> e.id, prose |-> e.prose] /\ e.id = hit.source
         /\ InStore(e.id, st) => e.prose = st[e.id] /\ e.prose \notin {"hit", "empty"}
         /\ ~InStore(e.id, st) => e.prose = IF hit.content THEN "hit" ELSE "empty"
<1> DEFINE e == Expert(hit, st)
<1>1. e = [id |-> hit.source, prose |-> Prose(hit, st)]
  BY DEF Expert
<1>2. e.id = hit.source /\ e.prose = Prose(hit, st)
  BY <1>1
<1>3. InStore(hit.source, st) => Prose(hit, st) = st[hit.source]
  BY DEF Prose, InStore
<1>4. ~InStore(hit.source, st) /\ hit.content => Prose(hit, st) = "hit"
  BY DEF Prose, InStore
<1>5. ~InStore(hit.source, st) /\ ~hit.content => Prose(hit, st) = "empty"
  BY DEF Prose, InStore
<1> HIDE DEF e
<1>6. e = [id |-> e.id, prose |-> e.prose]
  BY <1>1, <1>2
<1>7. InStore(e.id, st) => e.prose = st[e.id] /\ e.prose \notin {"hit", "empty"}
  BY <1>2, <1>3 DEF InStore
<1>8. ~InStore(e.id, st) => e.prose = IF hit.content THEN "hit" ELSE "empty"
  BY <1>2, <1>4, <1>5
<1>9. QED
  BY <1>2, <1>6, <1>7, <1>8 DEF e

\* An expert of every source, each once, in the order of the hits.
LEMMA PanelOfHits ==
  ASSUME NEW hitlist, Listed(hitlist), NEW st, Conserved(hitlist, BuildPanel(hitlist, st))
  PROVE  LET built == BuildPanel(hitlist, st) IN
         /\ Listed(built) /\ Len(built) <= Len(hitlist)
         /\ IsInjective(Ids(built)) /\ Range(Ids(built)) = Sources(hitlist)
         /\ \A i \in DOMAIN built : \E h \in Range(hitlist) : built[i] = Expert(h, st)
<1> DEFINE grouped == OnePerSource(hitlist)
           built   == BuildPanel(hitlist, st)
           ids     == {built[i].id : i \in DOMAIN built}
           n       == Len(grouped)
           f       == Ids(built)
<1>1. Listed(grouped) /\ Len(grouped) <= Len(hitlist) /\ Sources(grouped) = Sources(hitlist)
  BY OnePerSourceKeeps
<1>2. \A i \in DOMAIN grouped : grouped[i] \in Range(hitlist)
  <2> DEFINE S == FirstPlaces(hitlist, SameSource)
  <2>1. S \in SUBSET DOMAIN hitlist
    BY DEF FirstPlaces
  <2>2. grouped = AtPlaces(hitlist, S)
    BY DEF OnePerSource
  <2> HIDE DEF S, grouped
  <2>3. \A i \in DOMAIN grouped : \E j \in S : grouped[i] = hitlist[j]
    BY <2>1, <2>2, ListedAtPlaces
  <2>4. QED
    BY <2>1, <2>3 DEF Range
<1>3. built = [i \in DOMAIN grouped |-> Expert(grouped[i], st)]
  BY DEF BuildPanel
<1> HIDE DEF grouped, built
<1>4. n \in Nat /\ DOMAIN grouped = 1 .. n
  BY <1>1, ListedIs
<1>5. built = [i \in 1 .. n |-> built[i]] /\ \A i \in 1 .. n : built[i] = Expert(grouped[i], st)
  BY <1>3, <1>4
<1>6. Listed(built) /\ Len(built) = n /\ DOMAIN built = 1 .. n
  BY <1>4, <1>5, ListedByLength
<1>7. \A i \in 1 .. n : built[i].id = grouped[i].source
  BY <1>5, ExpertIs
<1>8. ids = Sources(hitlist)
  BY <1>1, <1>4, <1>6, <1>7 DEF Sources
<1>9. DOMAIN f = 1 .. n /\ \A i \in 1 .. n : f[i] = built[i].id
  BY <1>6 DEF Ids
<1>10. Range(f) = ids
  BY <1>6, <1>9 DEF Range
<1>11. Cardinality(ids) = n
  BY <1>6 DEF Conserved, built
<1> HIDE DEF f, ids, n
<1>12. f \in Surjection(1 .. n, ids)
  <2>1. f \in [1 .. n -> ids]
    <3>1. f = [i \in 1 .. n |-> f[i]]
      BY <1>9 DEF f, Ids
    <3>2. \A i \in 1 .. n : f[i] \in ids
      BY <1>6, <1>9 DEF ids
    <3>3. QED
      BY <3>1, <3>2
  <2>2. \A k \in ids : \E i \in 1 .. n : f[i] = k
    BY <1>6, <1>9 DEF ids
  <2>3. QED
    BY <2>1, <2>2, Fun_IsSurj
<1>13. IsFiniteSet(1 .. n) /\ Cardinality(1 .. n) = n
  BY <1>4, FS_Interval
<1>14. IsInjective(f)
  <2>1. f \in Injection(1 .. n, ids)
    BY <1>11, <1>12, <1>13, FS_SurjSameCardinalityImpliesInj
  <2>2. QED
    BY <2>1 DEF Injection
<1>15. \A i \in DOMAIN built : \E h \in Range(hitlist) : built[i] = Expert(h, st)
  BY <1>2, <1>4, <1>5, <1>6 DEF n
<1>16. QED
  BY <1>1, <1>6, <1>8, <1>10, <1>14, <1>15 DEF n, f, built

\* A resume finds the experts again that have text in the store.
LEMMA ResumedPanel ==
  ASSUME NEW hitlist, NEW st, NEW built, Listed(built), IsInjective(Ids(built)),
         \A i \in DOMAIN built : \E h \in Range(hitlist) : built[i] = Expert(h, st)
  PROVE  PanelFromIds(Ids(built), st) = AtPlaces(built, {i \in DOMAIN built : built[i].prose \notin {"hit", "empty"}})
<1> DEFINE n     == Len(built)
           ids   == Ids(built)
           found == SyntheticHits(ids)
           again == BuildPanel(found, st)
<1>1. n \in Nat /\ DOMAIN built = 1 .. n
  BY ListedIs
<1>2. DOMAIN ids = 1 .. n /\ \A i \in 1 .. n : ids[i] = built[i].id
  BY <1>1 DEF Ids
<1>3. /\ found = [i \in 1 .. n |-> found[i]]
      /\ \A i \in 1 .. n : found[i].source = ids[i] /\ found[i].content = FALSE
  BY <1>2 DEF SyntheticHits, Hit
<1> HIDE DEF found, ids, n
<1>4. Listed(found) /\ DOMAIN found = 1 .. n
  BY <1>1, <1>3, ListedByLength DEF n
<1>5. FirstPlaces(found, SameSource) = DOMAIN found
  <2>1. ASSUME NEW i \in 1 .. n, NEW j \in 1 .. i - 1 PROVE found[j].source # found[i].source
    <3>1. j \in 1 .. n /\ j # i
      BY <1>1 DEF n
    <3>2. ids[j] # ids[i]
      BY <1>2, <3>1 DEF IsInjective, ids
    <3>3. QED
      BY <1>3, <3>1, <3>2
  <2>2. QED
    BY <1>4, <2>1 DEF FirstPlaces, SameSource
<1>6. OnePerSource(found) = found
  BY <1>4, <1>5, AllPlaces DEF OnePerSource
<1>7. again = [i \in 1 .. n |-> Expert(found[i], st)]
  BY <1>4, <1>6 DEF BuildPanel
<1> HIDE DEF again
<1>8. DOMAIN again = 1 .. n /\ \A i \in 1 .. n : again[i] = Expert(found[i], st)
  BY <1>7
<1>9. ASSUME NEW i \in 1 .. n
      PROVE  /\ again[i].prose # "empty" <=> built[i].prose \notin {"hit", "empty"}
             /\ again[i].prose # "empty" => again[i] = built[i]
  <2>1. PICK h : built[i] = Expert(h, st)
    BY <1>1 DEF n
  <2>2. /\ again[i] = [id |-> again[i].id, prose |-> again[i].prose] /\ again[i].id = ids[i]
        /\ InStore(again[i].id, st) => again[i].prose = st[again[i].id] /\ again[i].prose \notin {"hit", "empty"}
        /\ ~InStore(again[i].id, st) => again[i].prose = "empty"
    BY <1>3, <1>8, ExpertIs
  <2>3. /\ built[i] = [id |-> built[i].id, prose |-> built[i].prose]
        /\ InStore(built[i].id, st) => built[i].prose = st[built[i].id] /\ built[i].prose \notin {"hit", "empty"}
        /\ ~InStore(built[i].id, st) => built[i].prose \in {"hit", "empty"}
    BY <2>1, ExpertIs
  <2>4. again[i].id = built[i].id
    BY <1>2, <2>2
  <2>5. QED
    BY <2>2, <2>3, <2>4
<1> DEFINE S == {i \in DOMAIN built : built[i].prose \notin {"hit", "empty"}}
<1>10. {i \in DOMAIN again : again[i].prose # "empty"} = S
  BY <1>1, <1>8, <1>9 DEF n
<1>11. \A i \in S : again[i] = built[i]
  BY <1>1, <1>9 DEF n
<1>12. S \in SUBSET DOMAIN built
  OBVIOUS
<1> HIDE DEF S
<1>13. S \in SUBSET Int /\ IsFiniteSet(S)
  BY <1>12, PlacesAreFinite
<1>14. AtPlaces(again, S) = AtPlaces(built, S)
  BY <1>11, <1>13, SameAtPlaces
<1>15. PanelFromIds(ids, st) = AtPlaces(again, S)
  BY <1>10 DEF PanelFromIds, WithProse, again, found
<1>16. QED
  BY <1>14, <1>15 DEF S, ids

-----------------------------------------------------------------------------
(***************************************************************************)
(* What the lanes answer.                                                  *)
(***************************************************************************)
LEMMA ClampedIs ==
  ASSUME NEW k \in Int
  PROVE  Clamped(k) \in 1 .. TopKCap /\ Clamped(Clamped(k)) = Clamped(k)
<1>1. TopKCap \in Nat /\ TopKCap >= 1
  BY PanelAssumption
<1>2. ASSUME NEW j \in Int
      PROVE  Clamped(j) \in 1 .. TopKCap /\ (j \in 1 .. TopKCap => Clamped(j) = j)
  <2> DEFINE m == Max({j, 1})
  <2>1. m \in {j, 1} /\ m >= j /\ m >= 1
    BY LargerOfTwo
  <2>2. m \in Int
    BY <2>1
  <2> HIDE DEF m
  <2>3. Min({m, TopKCap}) \in {m, TopKCap} /\ Min({m, TopKCap}) <= m /\ Min({m, TopKCap}) <= TopKCap
    BY <1>1, <2>2, SmallerOfTwo
  <2>4. Clamped(j) = Min({m, TopKCap})
    BY DEF Clamped, m
  <2> DEFINE c == Min({m, TopKCap})
  <2> HIDE DEF c
  <2>5. c \in {m, TopKCap} /\ c <= m /\ c <= TopKCap
    BY <2>3 DEF c
  <2>6. c \in 1 .. TopKCap
    BY <1>1, <2>1, <2>2, <2>5
  <2>7. j \in 1 .. TopKCap => c = j
    BY <1>1, <2>1, <2>2, <2>5
  <2>8. QED
    BY <2>4, <2>6, <2>7 DEF c
<1>3. Clamped(k) \in 1 .. TopKCap
  BY <1>2
<1>4. Clamped(k) \in Int
  BY <1>1, <1>3
<1>5. QED
  BY <1>2, <1>3, <1>4

LEMMA KeysAreFinite == IsFiniteSet(Keys)
<1> DEFINE f == [p \in Papers |-> Key(p)]
           g == [d \in LocalDocs |-> LocalKey(d)]
           S == {Key(p) : p \in Papers}
           T == {LocalKey(d) : d \in LocalDocs}
<1>1. f \in [Papers -> S] /\ \A k \in S : \E p \in Papers : f[p] = k
  OBVIOUS
<1>2. g \in [LocalDocs -> T] /\ \A k \in T : \E d \in LocalDocs : g[d] = k
  OBVIOUS
<1>3. Keys = S \cup T
  BY DEF Keys
<1> HIDE DEF f, g, S, T
<1>4. f \in Surjection(Papers, S) /\ g \in Surjection(LocalDocs, T)
  BY <1>1, <1>2, Fun_IsSurj
<1>5. IsFiniteSet(S) /\ IsFiniteSet(T)
  BY <1>4, PanelAssumption, FS_Surjection
<1>6. QED
  BY <1>3, <1>5, FS_Union

LEMMA StoreAnswersAList ==
  ASSUME NEW n \in Nat
  PROVE  Listed(Nearest(n))
<1> DEFINE c == Cardinality(ChunkRows)
           s == SetToSeq(ChunkRows)
           sorted == ByScore(s, [i \in DOMAIN s |-> Closeness(s[i])])
<1>1. IsFiniteSet(ChunkRows)
  <2>1. IsFiniteSet({1, 2})
    <3>1. IsFiniteSet({} \cup {1})
      BY FS_EmptySet, FS_AddElement
    <3>2. IsFiniteSet(({} \cup {1}) \cup {2})
      BY <3>1, FS_AddElement
    <3>3. ({} \cup {1}) \cup {2} = {1, 2}
      OBVIOUS
    <3>4. QED
      BY <3>2, <3>3
  <2>2. IsFiniteSet(Keys \X {1, 2})
    BY <2>1, KeysAreFinite, FS_Product
  <2>3. ChunkRows \subseteq Keys \X {1, 2}
    BY DEF ChunkRows, Stored
  <2>4. QED
    BY <2>2, <2>3, FS_Subset
<1>2. c \in Nat /\ ExistsBijection(1 .. c, ChunkRows)
  BY <1>1, FS_CardinalityType
<1>3. PICK f : f \in Bijection(1 .. c, ChunkRows)
  BY <1>2 DEF ExistsBijection
<1>4. f \in [1 .. c -> ChunkRows] /\ IsInjective(f)
  BY <1>3 DEF Bijection, Injection
<1>5. s \in [1 .. c -> ChunkRows]
  BY <1>4 DEF SetToSeq
<1> HIDE DEF s, c
<1>6. Listed(s) /\ DOMAIN s = 1 .. c
  BY <1>2, <1>5, ListedByLength
<1>7. sorted = [i \in 1 .. c |-> sorted[i]]
  BY <1>6 DEF ByScore, Sorted
<1>8. Nearest(n) = Take(sorted, n)
  BY DEF Nearest, s
<1> HIDE DEF sorted
<1>9. Listed(sorted)
  BY <1>2, <1>7, ListedByLength
<1>10. QED
  BY <1>8, <1>9, ListedTake

LEMMA StoreHitsAreListed ==
  ASSUME opts \in Options, NEW l
  PROVE  Listed(StoreHits(l))
<1> DEFINE m    == IF l = "internal" THEN TopK ELSE LaneHits
           near == Nearest(m)
<1>1. m \in Nat
  <2>1. opts.topk \in Int /\ TopKCap \in Nat /\ LaneHits \in Nat
    BY PanelAssumption
  <2>2. TopK \in 1 .. TopKCap
    BY <2>1, ClampedIs DEF TopK
  <2>3. QED
    BY <2>1, <2>2
<1> HIDE DEF m
<1>2. Listed(near)
  BY <1>1, StoreAnswersAList
<1> HIDE DEF near
<1>3. Len(near) \in Nat /\ DOMAIN near = 1 .. Len(near)
  BY <1>2, ListedIs
<1>4. StoreHits(l) = [i \in 1 .. Len(near) |-> StoreHits(l)[i]]
  BY <1>3 DEF StoreHits, near, m
<1>5. QED
  BY <1>3, <1>4, ListedByLength

LEMMA S2HitsAreListed ==
  Listed([i \in DOMAIN S2Hits |-> S2Hit(S2Hits[i])])
<1>1. Len(S2Hits) \in Nat /\ DOMAIN S2Hits = 1 .. Len(S2Hits)
  BY PanelAssumption
<1> DEFINE t == [i \in DOMAIN S2Hits |-> S2Hit(S2Hits[i])]
<1>2. t = [i \in 1 .. Len(S2Hits) |-> t[i]]
  BY <1>1
<1> HIDE DEF t
<1>3. Listed(t)
  BY <1>1, <1>2, ListedByLength
<1>4. QED
  BY <1>3 DEF t

\* A lane holds a list of hits; it has a reason only when it is at its end, and its
\* reason is its name.
IsLane(r) ==
  /\ DOMAIN r = {"at", "tries", "todo", "hits", "reasons"} /\ Listed(r.hits)
  /\ r.reasons \subseteq Lanes /\ (r.at # "end" => r.reasons = {})
LanesAreSound == DOMAIN lane = Lanes /\ \A l \in Lanes : IsLane(lane[l])

LEMMA NothingIsListed == Listed(<<>>) /\ Sources(<<>>) = {} /\ Len(<<>>) = 0
<1>1. <<>> \in Seq({}) /\ DOMAIN <<>> = {}
  OBVIOUS
<1>2. QED
  BY <1>1 DEF Listed, Sources

LEMMA IdleLane ==
  /\ IsLane(LaneIdle) /\ LaneIdle.reasons = {}
  /\ \A step : IsLane([LaneIdle EXCEPT !.at = step]) /\ [LaneIdle EXCEPT !.at = step].reasons = {}
  BY NothingIsListed DEF IsLane, LaneIdle, Lanes

\* A step of a lane touches no other; what it has failed with is told.
LEMMA LaneStep ==
  ASSUME opts \in Options, LanesAreSound, NEW l \in Lanes, DOMAIN heard = {"found", "cut", "faults"},
         CallLane(l) \/ PersistNext(l) \/ LeaveStore(l) \/ SearchStore(l)
  PROVE  /\ LanesAreSound' /\ lane' = [lane EXCEPT ![l] = lane'[l]] /\ lane[l].reasons = {}
         /\ DOMAIN heard' = {"found", "cut", "faults"}
         /\ heard'.found = heard.found /\ heard'.cut = heard.cut
         /\ heard'.faults \subseteq heard.faults \cup lane'[l].reasons
<1>1. IsLane(lane[l]) /\ DOMAIN lane = Lanes
  BY DEF LanesAreSound
<1>2. IsLane(Failed(l, l))
  BY <1>1 DEF Failed, IsLane
<1>3. CASE CallLane(l)
  <2>1. lane[l].at = "call"
    BY <1>3 DEF CallLane, InLane
  <2>2. ASSUME NEW answer PROVE IsLane(Heard(l, answer))
    <3>1. CASE answer.says = {}
      BY <1>1, <2>1, <3>1 DEF Heard, IsLane
    <3>2. CASE answer.says # {} /\ LaneMayPass(answer.says) /\ lane[l].tries + 1 < MaxTries
      BY <1>1, <3>2 DEF Heard, IsLane
    <3>3. CASE answer.says # {} /\ ~(LaneMayPass(answer.says) /\ lane[l].tries + 1 < MaxTries)
      BY <1>2, <3>3 DEF Heard
    <3>4. QED
      BY <3>1, <3>2, <3>3
  <2>3. PICK r : IsLane(r) /\ lane' = [lane EXCEPT ![l] = r]
    BY <1>2, <1>3, <2>2 DEF CallLane
  <2>4. heard' = [heard EXCEPT !.faults = @ \cup lane'[l].reasons]
    BY <1>3 DEF CallLane, Fault
  <2>5. QED
    BY <1>1, <2>1, <2>3, <2>4 DEF IsLane, LanesAreSound
<1>4. CASE PersistNext(l)
  <2>1. lane[l].at = "persist" /\ lane' = [lane EXCEPT ![l].todo = Tail(@)] /\ heard' = heard
    BY <1>4 DEF PersistNext, InLane
  <2>2. IsLane([lane[l] EXCEPT !.todo = Tail(@)])
    BY <1>1 DEF IsLane
  <2>3. QED
    BY <1>1, <2>1, <2>2 DEF IsLane, LanesAreSound
<1>5. CASE LeaveStore(l)
  <2>1. lane[l].at = "persist" /\ heard' = heard
    BY <1>5 DEF LeaveStore, InLane
  <2> DEFINE sent == [i \in DOMAIN S2Hits |-> S2Hit(S2Hits[i])]
             r    == IF l = "arxiv" THEN [lane[l] EXCEPT !.at = "store"]
                     ELSE [lane[l] EXCEPT !.at = "end", !.hits = sent]
  <2>2. lane' = [lane EXCEPT ![l] = r]
    BY <1>5 DEF LeaveStore
  <2>3. Listed(sent)
    BY S2HitsAreListed
  <2> HIDE DEF sent
  <2>4. IsLane(r)
    BY <1>1, <2>1, <2>3 DEF IsLane
  <2> HIDE DEF r
  <2>5. QED
    BY <1>1, <2>1, <2>2, <2>4 DEF IsLane, LanesAreSound
<1>6. CASE SearchStore(l)
  <2>1. lane[l].at = "store" /\ heard' = [heard EXCEPT !.faults = @ \cup lane'[l].reasons]
    BY <1>6 DEF SearchStore, InLane, Fault
  <2> DEFINE near == StoreHits(l)
             r    == [lane[l] EXCEPT !.at = "end", !.hits = near]
  <2>2. lane' = [lane EXCEPT ![l] = Failed(l, l)] \/ lane' = [lane EXCEPT ![l] = r]
    BY <1>1, <1>6 DEF SearchStore
  <2>3. Listed(near)
    BY StoreHitsAreListed
  <2> HIDE DEF near
  <2>4. IsLane(r)
    BY <1>1, <2>3 DEF IsLane
  <2> HIDE DEF r
  <2>5. PICK q : IsLane(q) /\ lane' = [lane EXCEPT ![l] = q]
    BY <1>2, <2>2, <2>4
  <2>6. QED
    BY <1>1, <2>1, <2>5 DEF IsLane, LanesAreSound
<1>7. QED
  BY <1>3, <1>4, <1>5, <1>6

-----------------------------------------------------------------------------
(***************************************************************************)
(* The panel that the engine starts with.                                  *)
(***************************************************************************)
HitsAreFound == /\ DOMAIN heard = {"found", "cut", "faults"}
                /\ Listed(hits) /\ Sources(hits) \subseteq heard.found
\* Seeds are not cut to the cap: only a review with seeds resolves any.
HitsAreCapped ==
  /\ at = "seeds" => opts.seeds # <<>>
  /\ at \in {"promote", "gate", "screen", "build", "engine"} /\ opts.seeds = <<>> => Len(hits) <= TopK
HitsIInv == opts \in Options /\ LanesAreSound /\ HitsAreFound /\ HitsAreCapped /\ PanelIsSound

LEMMA AppendedHit ==
  ASSUME NEW s, Listed(s), NEW hit
  PROVE  /\ Listed(OnePerSource(Append(s, hit)))
         /\ Sources(OnePerSource(Append(s, hit))) = Sources(s) \cup {hit.source}
<1> DEFINE u == Append(s, hit)
<1>1. PICK T : s \in Seq(T)
  BY DEF Listed
<1>2. s \in Seq(T \cup {hit}) /\ hit \in T \cup {hit}
  BY <1>1, SeqMonotonic
<1>3. /\ u \in Seq(T \cup {hit}) /\ Len(u) = Len(s) + 1
      /\ \A i \in 1 .. Len(s) : u[i] = s[i]
      /\ u[Len(s) + 1] = hit
  BY <1>2, AppendProperties
<1>4. DOMAIN s = 1 .. Len(s) /\ Len(s) \in Nat /\ DOMAIN u = 1 .. Len(s) + 1
  BY <1>2, <1>3
<1> HIDE DEF u
<1>5. Listed(u)
  BY <1>3 DEF Listed
<1>6. Sources(s) \subseteq Sources(u)
  BY <1>3, <1>4 DEF Sources
<1>7. hit.source \in Sources(u)
  <2>1. Len(s) + 1 \in DOMAIN u
    BY <1>4
  <2>2. QED
    BY <1>3, <2>1 DEF Sources
<1>8. Sources(u) \subseteq Sources(s) \cup {hit.source}
  <2>1. ASSUME NEW i \in DOMAIN u PROVE u[i].source \in Sources(s) \cup {hit.source}
    <3>1. i \in 1 .. Len(s) \/ i = Len(s) + 1
      BY <1>4
    <3>2. QED
      BY <1>3, <1>4, <3>1 DEF Sources
  <2>2. QED
    BY <2>1 DEF Sources
<1>9. QED
  BY <1>5, <1>6, <1>7, <1>8, OnePerSourceKeeps DEF u

LEMMA HitsInit == Init => HitsIInv
<1> SUFFICES ASSUME Init PROVE HitsIInv
  OBVIOUS
<1>1. at = "files" /\ hits = <<>> /\ opts \in Options
  BY DEF Init
<1>2. LanesAreSound
  BY IdleLane DEF Init, LanesAreSound
<1>3. HitsAreFound
  BY <1>1, NothingIsListed DEF Init, HitsAreFound
<1>4. QED
  BY <1>1, <1>2, <1>3 DEF HitsIInv, HitsAreCapped, PanelIsSound

\* Steps that leave the hits alone and neither begin with seeds nor with the engine.
LEMMA HitsStay ==
  ASSUME HitsIInv, opts' = opts, hits' = hits, lane' = lane, DOMAIN heard' = {"found", "cut", "faults"},
         heard.found \subseteq heard'.found, at' # "engine",
         at' = "seeds" => opts.seeds # <<>>,
         at' \in {"promote", "gate", "screen", "build"} /\ opts.seeds = <<>>
           => at \in {"promote", "gate", "screen", "build"} \/ Len(hits) <= TopK
  PROVE  HitsIInv'
<1>1. LanesAreSound' /\ HitsAreFound'
  BY DEF HitsIInv, LanesAreSound, HitsAreFound
<1>2. HitsAreCapped' /\ PanelIsSound'
  BY DEF HitsIInv, HitsAreCapped, PanelIsSound, TopK
<1>3. QED
  BY <1>1, <1>2 DEF HitsIInv

LEMMA SeedKeepsHits == HitsIInv /\ ResolveSeed => HitsIInv'
<1> SUFFICES ASSUME HitsIInv, ResolveSeed PROVE HitsIInv'
  OBVIOUS
<1>1. at = "seeds" /\ at' = at /\ opts' = opts /\ lane' = lane /\ opts.seeds # <<>>
  BY DEF ResolveSeed, HitsIInv, HitsAreCapped
<1>2. CASE hits' = hits /\ (heard' = heard \/ heard' = [heard EXCEPT !.faults = @ \cup {"seeds unresolved"}])
  BY <1>1, <1>2, HitsStay DEF HitsIInv, HitsAreFound
<1>3. CASE \E p, content : /\ hits' = OnePerSource(Append(hits, Hit(Key(p).type, Key(p), content)))
                           /\ heard' = [heard EXCEPT !.found = @ \cup {Key(p)}]
  <2>1. PICK p, content : /\ hits' = OnePerSource(Append(hits, Hit(Key(p).type, Key(p), content)))
                          /\ heard' = [heard EXCEPT !.found = @ \cup {Key(p)}]
    BY <1>3
  <2> DEFINE hit == Hit(Key(p).type, Key(p), content)
  <2>2. hit.source = Key(p)
    BY DEF Hit
  <2> HIDE DEF hit
  <2>3. Listed(hits') /\ Sources(hits') = Sources(hits) \cup {hit.source}
    BY <2>1, AppendedHit DEF hit, HitsIInv, HitsAreFound
  <2>4. HitsAreFound'
    BY <2>1, <2>2, <2>3 DEF HitsIInv, HitsAreFound
  <2>5. LanesAreSound' /\ HitsAreCapped' /\ PanelIsSound'
    BY <1>1 DEF HitsIInv, LanesAreSound, HitsAreCapped, PanelIsSound
  <2>6. QED
    BY <1>1, <2>4, <2>5 DEF HitsIInv
<1>4. QED
  BY <1>2, <1>3 DEF ResolveSeed, Fault

LEMMA LanesKeepHits ==
  ASSUME HitsIInv, NEW l \in Lanes, CallLane(l) \/ PersistNext(l) \/ LeaveStore(l) \/ SearchStore(l)
  PROVE  HitsIInv'
<1>1. opts \in Options /\ LanesAreSound /\ DOMAIN heard = {"found", "cut", "faults"}
  BY DEF HitsIInv, HitsAreFound
<1>2. LanesAreSound' /\ DOMAIN heard' = {"found", "cut", "faults"} /\ heard'.found = heard.found
  BY <1>1, LaneStep
<1>3. at = "lanes" /\ at' = at /\ opts' = opts /\ hits' = hits
  BY DEF CallLane, PersistNext, LeaveStore, SearchStore, InLane, LaneFrame
<1>4. HitsAreFound' /\ HitsAreCapped' /\ PanelIsSound'
  BY <1>2, <1>3 DEF HitsIInv, HitsAreFound, HitsAreCapped, PanelIsSound
<1>5. QED
  BY <1>1, <1>2, <1>3, <1>4 DEF HitsIInv

LEMMA StartOfLanes ==
  ASSUME LanesAreSound, StartLanes
  PROVE  LanesAreSound' /\ (lane' = lane \/ \A l \in Lanes : lane'[l].reasons = {})
<1>1. CASE lane' = lane
  BY <1>1 DEF LanesAreSound
<1>2. CASE lane' # lane
  <2> DEFINE first == IF ~Live \/ opts.warm THEN "store" ELSE "end"
             other == IF Live THEN "call" ELSE "end"
  <2>1. lane' = [l \in Lanes |-> IF l = "internal" THEN [LaneIdle EXCEPT !.at = first]
                                  ELSE [LaneIdle EXCEPT !.at = other]]
    BY <1>2, Zenon DEF StartLanes
  <2> HIDE DEF first, other
  <2>2. /\ IsLane([LaneIdle EXCEPT !.at = first]) /\ [LaneIdle EXCEPT !.at = first].reasons = {}
        /\ IsLane([LaneIdle EXCEPT !.at = other]) /\ [LaneIdle EXCEPT !.at = other].reasons = {}
    BY IdleLane
  <2>3. \A l \in Lanes : lane'[l] \in {[LaneIdle EXCEPT !.at = first], [LaneIdle EXCEPT !.at = other]}
    BY <2>1
  <2>4. \A l \in Lanes : IsLane(lane'[l]) /\ lane'[l].reasons = {}
    BY <2>2, <2>3
  <2>5. DOMAIN lane' = Lanes
    BY <2>1
  <2>6. QED
    BY <2>4, <2>5 DEF LanesAreSound
<1>3. QED
  BY <1>1, <1>2

LEMMA FuseKeepsHits == HitsIInv /\ Fuse => HitsIInv'
<1> SUFFICES ASSUME HitsIInv, Fuse PROVE HitsIInv'
  OBVIOUS
<1> DEFINE a == lane["internal"].hits
           b == lane["arxiv"].hits
           c == lane["s2"].hits
           fused == FuseRrf(<<a, b, c>>)
<1>1. hits' = AboveFloor(fused, <<a, b, c>>) /\ heard' = [heard EXCEPT !.found = Sources(fused)]
  BY DEF Fuse, LaneLists
<1>2. Listed(a) /\ Listed(b) /\ Listed(c)
  BY DEF HitsIInv, LanesAreSound, IsLane, Lanes
<1>3. Listed(fused)
  BY <1>2, FusedIsListed
<1>4. lane' = [l \in Lanes |-> LaneIdle] /\ opts' = opts /\ at' \in {"rerank", "trim"}
  BY DEF Fuse
<1> HIDE DEF a, b, c, fused
<1>5. Listed(hits') /\ Sources(hits') \subseteq Sources(fused)
  BY <1>1, <1>3, FloorKeeps
<1>6. HitsAreFound'
  BY <1>1, <1>5 DEF HitsIInv, HitsAreFound
<1>7. LanesAreSound'
  BY <1>4, IdleLane DEF LanesAreSound
<1>8. HitsAreCapped' /\ PanelIsSound'
  BY <1>4 DEF HitsAreCapped, PanelIsSound
<1>9. QED
  BY <1>4, <1>6, <1>7, <1>8 DEF HitsIInv

\* A reranker and a gate take hits out, and say so.
LEMMA RerankCuts ==
  ASSUME Listed(hits), DOMAIN heard = {"found", "cut", "faults"}, Rerank
  PROVE  /\ Listed(hits') /\ Sources(hits') \subseteq Sources(hits)
         /\ DOMAIN heard' = {"found", "cut", "faults"} /\ heard'.found = heard.found
         /\ \/ /\ notices' = [notices EXCEPT !.fusion = @ \cup {"rerank failed"}]
               /\ heard'.faults = heard.faults \cup {"rerank failed"} /\ heard'.cut = heard.cut
            \/ /\ notices' = [notices EXCEPT !.fusion = @ \cup {"rerank dropped"}]
               /\ heard'.faults = heard.faults
            \/ /\ notices' = [notices EXCEPT !.fusion = @ \cup {}]
               /\ heard'.faults = heard.faults /\ heard'.cut = heard.cut
<1>1. CASE /\ notices' = [notices EXCEPT !.fusion = FoldReason(@, {"rerank failed"})]
           /\ Fault({"rerank failed"}) /\ UNCHANGED hits
  BY <1>1 DEF Fault, FoldReason
<1>2. ASSUME NEW answer \in RerankAnswers,
             hits' = ApplyRerank(hits, InRange(answer, hits)),
             notices' = [notices EXCEPT !.fusion = FoldReason(@, RerankReasons(InRange(answer, hits)))],
             Cut(hits, hits')
      PROVE  /\ Listed(hits') /\ Sources(hits') \subseteq Sources(hits)
             /\ DOMAIN heard' = {"found", "cut", "faults"} /\ heard'.found = heard.found
             /\ heard'.faults = heard.faults
             /\ \/ notices' = [notices EXCEPT !.fusion = @ \cup {"rerank dropped"}]
                \/ notices' = [notices EXCEPT !.fusion = @ \cup {}] /\ heard'.cut = heard.cut
  <2> DEFINE rows == InRange(answer, hits)
  <2>1. Listed(answer)
    BY PanelAssumption DEF Listed
  <2>2. /\ Listed(ApplyRerank(hits, rows)) /\ Sources(ApplyRerank(hits, rows)) \subseteq Sources(hits)
        /\ RerankReasons(rows) = {} => Sources(hits) \subseteq Sources(ApplyRerank(hits, rows))
    BY <2>1, RerankKeeps
  <2>3. RerankReasons(rows) \in {{}, {"rerank dropped"}}
    BY DEF RerankReasons
  <2>4. hits' = ApplyRerank(hits, rows) /\ notices' = [notices EXCEPT !.fusion = @ \cup RerankReasons(rows)]
    BY <1>2 DEF FoldReason
  <2> HIDE DEF rows
  <2>5. /\ DOMAIN heard' = {"found", "cut", "faults"} /\ heard'.found = heard.found
        /\ heard'.faults = heard.faults /\ heard'.cut = heard.cut \cup (Sources(hits) \ Sources(hits'))
    BY <1>2 DEF Cut
  <2>6. RerankReasons(rows) = {} => heard'.cut = heard.cut
    BY <2>2, <2>4, <2>5
  <2>7. QED
    BY <2>2, <2>3, <2>4, <2>5, <2>6
<1>3. QED
  BY <1>1, <1>2 DEF Rerank

LEMMA ScreenCuts ==
  ASSUME Listed(hits), DOMAIN heard = {"found", "cut", "faults"}, Screen
  PROVE  /\ Listed(hits') /\ Sources(hits') \subseteq Sources(hits) /\ Len(hits') <= Len(hits)
         /\ DOMAIN heard' = {"found", "cut", "faults"} /\ heard'.found = heard.found
         /\ \E reasons \in SUBSET Notes :
              /\ notices' = [notices EXCEPT !.topicality = reasons]
              /\ heard'.faults \subseteq heard.faults \cup (reasons \cap {"topicality failed"})
              /\ "topicality dropped" \notin reasons => heard'.cut = heard.cut
<1>0. Len(hits) \in Nat
  BY ListedIs
<1>1. CASE /\ notices' = [notices EXCEPT !.topicality = {"topicality failed"}]
           /\ Fault({"topicality failed"}) /\ UNCHANGED hits
  <2> DEFINE reasons == {"topicality failed"}
  <2>1. reasons \in SUBSET Notes
    BY DEF Notes
  <2>2. /\ notices' = [notices EXCEPT !.topicality = reasons] /\ hits' = hits
        /\ DOMAIN heard' = {"found", "cut", "faults"} /\ heard'.found = heard.found /\ heard'.cut = heard.cut
        /\ heard'.faults \subseteq heard.faults \cup (reasons \cap {"topicality failed"})
    BY <1>1 DEF Fault
  <2> HIDE DEF reasons
  <2>3. Listed(hits') /\ Sources(hits') \subseteq Sources(hits) /\ Len(hits') <= Len(hits)
    <3>1. hits' = hits
      BY <1>1
    <3>2. Listed(hits) /\ Sources(hits) \subseteq Sources(hits) /\ Len(hits) <= Len(hits)
      BY <1>0
    <3>3. QED
      BY <3>1, <3>2, Zenon
  <2>4. \E q \in SUBSET Notes :
           /\ notices' = [notices EXCEPT !.topicality = q]
           /\ heard'.faults \subseteq heard.faults \cup (q \cap {"topicality failed"})
           /\ "topicality dropped" \notin q => heard'.cut = heard.cut
    BY <2>1, <2>2
  <2>5. QED
    BY <2>2, <2>3, <2>4
<1>2. ASSUME NEW reply, hits' = OnTopic(hits, reply), Cut(hits, hits'),
             notices' = [notices EXCEPT !.topicality = TopicalityReasons(hits, reply)]
      PROVE  /\ Listed(hits') /\ Sources(hits') \subseteq Sources(hits) /\ Len(hits') <= Len(hits)
             /\ DOMAIN heard' = {"found", "cut", "faults"} /\ heard'.found = heard.found
             /\ heard'.faults = heard.faults
             /\ TopicalityReasons(hits, reply) \in SUBSET Notes
             /\ "topicality dropped" \notin TopicalityReasons(hits, reply) => heard'.cut = heard.cut
  <2>1. /\ Listed(OnTopic(hits, reply)) /\ Len(OnTopic(hits, reply)) <= Len(hits)
        /\ Sources(OnTopic(hits, reply)) \subseteq Sources(hits)
        /\ "topicality dropped" \notin TopicalityReasons(hits, reply)
             => Sources(hits) \subseteq Sources(OnTopic(hits, reply))
    BY OnTopicKeeps
  <2>2. TopicalityReasons(hits, reply) \in SUBSET Notes
    BY DEF TopicalityReasons, Notes
  <2>3. /\ DOMAIN heard' = {"found", "cut", "faults"} /\ heard'.found = heard.found
        /\ heard'.faults = heard.faults /\ heard'.cut = heard.cut \cup (Sources(hits) \ Sources(hits'))
    BY <1>2 DEF Cut
  <2>4. QED
    BY <1>2, <2>1, <2>2, <2>3
<1>3. QED
  BY <1>1, <1>2 DEF Screen

LEMMA TrimKeepsHits == HitsIInv /\ Trim => HitsIInv'
<1> SUFFICES ASSUME HitsIInv, Trim PROVE HitsIInv'
  OBVIOUS
<1>1. /\ hits' = Take(hits, TopK) /\ opts' = opts /\ lane' = lane /\ heard' = heard
      /\ at' \in {"done", "promote", "gate"}
  BY DEF Trim, Bail
<1>2. TopK \in Nat
  <2>1. opts.topk \in Int /\ TopKCap \in Nat
    BY PanelAssumption DEF HitsIInv
  <2>2. QED
    BY <2>1, ClampedIs DEF TopK
<1>3. /\ Listed(hits') /\ Len(hits') <= TopK
      /\ \A i \in DOMAIN hits' : i \in DOMAIN hits /\ hits'[i] = hits[i]
  BY <1>1, <1>2, ListedTake DEF HitsIInv, HitsAreFound
<1>4. Sources(hits') \subseteq Sources(hits)
  BY <1>3 DEF Sources
<1>5. HitsAreFound'
  BY <1>1, <1>3, <1>4 DEF HitsIInv, HitsAreFound
<1>6. HitsAreCapped'
  BY <1>1, <1>3 DEF HitsAreCapped, TopK
<1>7. LanesAreSound' /\ PanelIsSound'
  BY <1>1 DEF HitsIInv, LanesAreSound, PanelIsSound
<1>8. QED
  BY <1>1, <1>5, <1>6, <1>7 DEF HitsIInv

\* What was written down is read as it was meant.
LEMMA ProfileIsRestored ==
  ASSUME NEW p \in Profiles
  PROVE  ParseProfile(ProfileStr(p)) = p
<1>1. /\ ProfileStr("V1Delphi") = "v1/delphi" /\ ProfileStr("V2LitReview") = "v2/lit-review"
      /\ ProfileStr("V3LitReviewLong") = "v3/lit-review-long"
  BY DEF ProfileStr
<1>2. \A q \in Profiles : ProfileStr(q) = ProfileStr(p) => q = p
  BY <1>1 DEF Profiles
<1>3. QED
  BY <1>2 DEF ParseProfile

LEMMA RecordIsRestored ==
  ASSUME opts \in Options, NEW ids
  PROVE  /\ Recorded(ids).ids = ids
         /\ Restored(Recorded(ids)) = [profile |-> opts.profile, scope |-> opts.scope, topk |-> TopK, seeds |-> opts.seeds]
<1>1. opts.profile \in Profiles /\ opts.topk \in Int
  BY PanelAssumption
<1>2. ParseProfile(ProfileStr(opts.profile)) = opts.profile
  BY <1>1, ProfileIsRestored
<1>3. Clamped(TopK) = TopK
  BY <1>1, ClampedIs DEF TopK
<1> DEFINE rec == Recorded(ids)
<1>4. /\ rec.ids = ids /\ rec.profile = ProfileStr(opts.profile) /\ rec.scope = opts.scope
      /\ rec.top_k = TopK /\ rec.seeds = opts.seeds
  BY DEF Recorded
<1> HIDE DEF rec
<1>5. Restored(rec) = [profile |-> opts.profile, scope |-> opts.scope, topk |-> TopK, seeds |-> opts.seeds]
  BY <1>2, <1>3, <1>4 DEF Restored
<1>6. QED
  BY <1>4, <1>5 DEF rec

LEMMA BuildIsSound == HitsIInv /\ Build => HitsIInv'
<1> SUFFICES ASSUME HitsIInv, Build PROVE HitsIInv'
  OBVIOUS
<1>1. /\ at = "build" /\ opts' = opts /\ hits' = hits /\ lane' = lane /\ heard' = heard /\ store' = store
      /\ at' \in {"done", "engine"}
  BY DEF Build, Bail
<1>2. Listed(hits) /\ opts \in Options /\ Sources(hits) \subseteq heard.found
  BY DEF HitsIInv, HitsAreFound
<1>3. LanesAreSound' /\ HitsAreFound' /\ HitsAreCapped'
  BY <1>1 DEF HitsIInv, LanesAreSound, HitsAreFound, HitsAreCapped, TopK
<1>4. CASE at' # "engine"
  BY <1>1, <1>2, <1>3, <1>4 DEF HitsIInv, PanelIsSound
<1>5. CASE at' = "engine"
  <2> DEFINE built == BuildPanel(hits, store)
             ids   == Ids(built)
             texts == {i \in DOMAIN built : built[i].prose \notin {"hit", "empty"}}
  <2>1. Conserved(hits, built) /\ built # <<>> /\ panel' = built /\ record' \in {Recorded(ids), NoRecord}
    BY <1>5 DEF Build, Bail
  <2>2. /\ Listed(built) /\ Len(built) <= Len(hits) /\ IsInjective(ids) /\ Range(ids) = Sources(hits)
        /\ \A i \in DOMAIN built : \E h \in Range(hits) : built[i] = Expert(h, store)
    BY <1>2, <2>1, PanelOfHits
  <2>3. PanelFromIds(ids, store) = AtPlaces(built, texts)
    BY <2>2, ResumedPanel
  <2>4. opts.seeds = <<>> => Len(built) <= TopK
    <3>1. opts.seeds = <<>> => Len(hits) <= TopK
      BY <1>1 DEF HitsIInv, HitsAreCapped
    <3>2. Len(hits) \in Nat /\ Len(built) \in Nat
      BY <1>2, <2>2, ListedIs
    <3>3. TopK \in Int
      <4>1. opts.topk \in Int /\ TopKCap \in Nat
        BY <1>2, PanelAssumption
      <4>2. QED
        BY <4>1, ClampedIs DEF TopK
    <3> HIDE DEF built
    <3>4. QED
      BY <2>2, <3>1, <3>2, <3>3
  <2>5. record' # NoRecord =>
          /\ record'.ids = ids
          /\ Restored(record') = [profile |-> opts.profile, scope |-> opts.scope, topk |-> TopK, seeds |-> opts.seeds]
    BY <1>2, <2>1, RecordIsRestored
  <2>6. Ids(panel') = ids /\ AtPlaces(panel', {i \in DOMAIN panel' : panel'[i].prose \notin {"hit", "empty"}})
                               = AtPlaces(built, texts)
    BY <2>1
  <2>7. Restored(record)' = Restored(record')
    BY DEF Restored, Clamped
  <2> HIDE DEF built, ids, texts
  <2>8. PanelIsSound'
    BY <1>1, <1>2, <2>1, <2>2, <2>3, <2>4, <2>5, <2>6, <2>7 DEF PanelIsSound, TopK
  <2>9. QED
    BY <1>1, <1>2, <1>3, <2>8 DEF HitsIInv
<1>6. QED
  BY <1>4, <1>5

LEMMA HitsStep == HitsIInv /\ [Next]_vars => HitsIInv'
<1> SUFFICES ASSUME HitsIInv, [Next]_vars PROVE HitsIInv'
  OBVIOUS
<1>0. /\ opts \in Options /\ LanesAreSound /\ DOMAIN heard = {"found", "cut", "faults"} /\ Listed(hits)
      /\ Sources(hits) \subseteq heard.found
  BY DEF HitsIInv, HitsAreFound
<1>1. CASE UNCHANGED <<opts, at, store, indexed, left, x, lane, todo, hits, notices, panel, record, result, heard>>
  BY <1>1 DEF HitsIInv, LanesAreSound, HitsAreFound, HitsAreCapped, PanelIsSound, TopK
<1>2. CASE IngestFile \/ Submit \/ SeedsResolved \/ Decompose \/ Explored
  <2>1. /\ opts' = opts /\ hits' = hits /\ lane' = lane /\ heard' = heard /\ at' # "engine"
        /\ at' = "seeds" => opts.seeds # <<>>
        /\ at' \in {"promote", "gate", "screen", "build"} /\ opts.seeds = <<>>
             => at \in {"promote", "gate", "screen", "build"}
    BY <1>2 DEF IngestFile, Submit, ToEmbed, SeedsResolved, Bail, Decompose, Explored, HitsIInv, HitsAreCapped
  <2>2. QED
    BY <1>0, <2>1, HitsStay
<1>3. CASE SearchSeeds \/ PickSeeds \/ VisitSeed \/ FollowEdge \/ Descend
  <2>1. opts' = opts /\ hits' = hits /\ lane' = lane /\ heard' = heard /\ at' = at /\ at = "explore"
    BY <1>3 DEF SearchSeeds, PickSeeds, VisitSeed, FollowEdge, Descend, ExploreFrame, Exploring
  <2>2. QED
    BY <1>0, <2>1, HitsStay
<1>4. CASE ResolveSeed
  BY <1>4, SeedKeepsHits
<1>5. CASE StartLanes
  <2>1. LanesAreSound'
    BY <1>0, <1>5, StartOfLanes
  <2>2. opts' = opts /\ hits' = hits /\ heard' = heard /\ at' \in {"lanes", "done"}
    BY <1>5 DEF StartLanes, Bail
  <2>3. HitsAreFound' /\ HitsAreCapped' /\ PanelIsSound'
    BY <1>0, <2>2 DEF HitsAreFound, HitsAreCapped, PanelIsSound
  <2>4. QED
    BY <1>0, <2>1, <2>2, <2>3 DEF HitsIInv
<1>6. ASSUME NEW l \in Lanes, CallLane(l) \/ PersistNext(l) \/ LeaveStore(l) \/ SearchStore(l)
      PROVE  HitsIInv'
  BY <1>6, LanesKeepHits
<1>7. CASE Fuse
  BY <1>7, FuseKeepsHits
<1>8. CASE Rerank
  <2>1. /\ Listed(hits') /\ Sources(hits') \subseteq Sources(hits)
        /\ DOMAIN heard' = {"found", "cut", "faults"} /\ heard'.found = heard.found
    BY <1>0, <1>8, RerankCuts
  <2>2. opts' = opts /\ lane' = lane /\ at' = "trim"
    BY <1>8 DEF Rerank
  <2>3. LanesAreSound' /\ HitsAreFound' /\ HitsAreCapped' /\ PanelIsSound'
    BY <1>0, <2>1, <2>2 DEF LanesAreSound, HitsAreFound, HitsAreCapped, PanelIsSound
  <2>4. QED
    BY <1>0, <2>2, <2>3 DEF HitsIInv
<1>9. CASE Trim
  BY <1>9, TrimKeepsHits
<1>10. CASE Promote \/ OpenGate
  <2>1. /\ opts' = opts /\ hits' = hits /\ lane' = lane /\ heard' = heard
        /\ at \in {"promote", "gate"} /\ at' \in {"gate", "screen", "build"}
    BY <1>10 DEF Promote, OpenGate
  <2>2. QED
    BY <1>0, <2>1, HitsStay
<1>11. CASE Screen
  <2>1. /\ Listed(hits') /\ Sources(hits') \subseteq Sources(hits) /\ Len(hits') <= Len(hits)
        /\ DOMAIN heard' = {"found", "cut", "faults"} /\ heard'.found = heard.found
    BY <1>0, <1>11, ScreenCuts
  <2>2. opts' = opts /\ lane' = lane /\ at = "screen" /\ at' = "build"
    BY <1>11 DEF Screen, Answered
  <2>3. HitsAreCapped'
    <3>1. opts.topk \in Int /\ TopKCap \in Nat
      BY <1>0, PanelAssumption
    <3>2. TopK \in Int /\ Len(hits) \in Nat /\ Len(hits') \in Nat
      BY <1>0, <2>1, <3>1, ClampedIs, ListedIs DEF TopK
    <3>3. opts.seeds = <<>> => Len(hits') <= TopK
      BY <2>1, <2>2, <3>2 DEF HitsIInv, HitsAreCapped
    <3>4. QED
      BY <2>2, <3>3 DEF HitsAreCapped, TopK
  <2>4. LanesAreSound' /\ HitsAreFound' /\ PanelIsSound'
    BY <1>0, <2>1, <2>2 DEF LanesAreSound, HitsAreFound, PanelIsSound
  <2>5. QED
    BY <1>0, <2>2, <2>3, <2>4 DEF HitsIInv
<1>12. CASE Build
  BY <1>12, BuildIsSound
<1>13. CASE RunEngine
  <2>1. opts' = opts /\ hits' = hits /\ lane' = lane /\ heard' = heard /\ at' \in {"done", "failed"}
    BY <1>13 DEF RunEngine
  <2>2. QED
    BY <1>0, <2>1, HitsStay
<1>14. CASE Send \/ Over \/ UNCHANGED vars
  BY <1>1, <1>14 DEF Send, Over, vars
<1>15. QED
  BY <1>2, <1>3, <1>4, <1>5, <1>6, <1>7, <1>8, <1>9, <1>10, <1>11, <1>12, <1>13, <1>14 DEF Next, Lanes

\* Whatever the lanes find, the model answers and the store does meanwhile: the engine
\* starts with one expert for each source that is left, all of them retrieved, within the
\* cap, and the record gives the same review back (pipeline.rs, adapter).
THEOREM PanelStandsOnItsHits == Spec => []PanelIsSound
<1>1. HitsIInv => PanelIsSound
  BY DEF HitsIInv
<1>2. QED
  BY <1>1, HitsInit, HitsStep, PTL DEF Spec

-----------------------------------------------------------------------------
(***************************************************************************)
(* The notice.                                                             *)
(***************************************************************************)
\* Where a fault is kept: with its lane until the fusion, in the notices from then on.
IsTold(r) ==
  (\E l \in Lanes : r \in lane[l].reasons) \/ r \in notices.fusion \/ r \in notices.topicality \/ r \in notices.seed
NoticesAreSound ==
  /\ DOMAIN notices = {"fusion", "topicality", "seed"}
  /\ notices.fusion \cap Notes = {} /\ notices.topicality \subseteq Notes
  /\ notices.seed \subseteq {"seeds unresolved"}
  /\ at \in {"files", "seeds", "decompose", "explore", "embed", "lanes"} => notices.fusion = {}
  /\ at \notin {"build", "engine", "done", "failed"} => notices.topicality = {}
\* A cut is told at once; a review has a panel from the engine on.
NothingIsLost ==
  /\ \A r \in heard.faults : IsTold(r)
  /\ heard.cut # {} => "rerank dropped" \in notices.fusion \/ "topicality dropped" \in notices.topicality
  /\ at # "lanes" => \A l \in Lanes : lane[l].reasons = {}
  /\ at \notin {"engine", "done", "failed"} => panel = <<>>
  /\ at = "engine" => panel # <<>>
LossIInv == NoticesAreSound /\ NothingIsLost /\ LossIsTold

LEMMA LossInit == Init => LossIInv
<1> SUFFICES ASSUME Init PROVE LossIInv
  OBVIOUS
<1>1. /\ at = "files" /\ panel = <<>>
      /\ notices = [fusion |-> {}, topicality |-> {}, seed |-> {}]
      /\ heard = [found |-> {}, cut |-> {}, faults |-> {}] /\ lane = [l \in Lanes |-> LaneIdle]
  BY DEF Init
<1>2. \A l \in Lanes : lane[l].reasons = {}
  BY <1>1, IdleLane
<1>3. NoticesAreSound
  BY <1>1 DEF NoticesAreSound
<1>4. NothingIsLost /\ LossIsTold
  BY <1>1, <1>2 DEF NothingIsLost, LossIsTold
<1>5. QED
  BY <1>3, <1>4 DEF LossIInv

\* Steps that neither fail nor cut, and go on.
LEMMA LossStays ==
  ASSUME LossIInv, notices' = notices, lane' = lane, heard' = heard, panel' = panel,
         at \notin {"lanes", "build", "engine", "done", "failed"},
         at' \notin {"lanes", "engine", "done", "failed"},
         at' \in {"files", "seeds", "decompose", "explore", "embed"}
           => at \in {"files", "seeds", "decompose", "explore", "embed"}
  PROVE  LossIInv'
  BY DEF LossIInv, NoticesAreSound, NothingIsLost, IsTold, LossIsTold

\* Steps that end a review without a panel, for a reason of its own.
LEMMA LossEnds ==
  ASSUME LossIInv, notices' = notices, lane' = lane, heard' = heard, panel' = panel,
         at \notin {"lanes", "engine", "done", "failed"}, NEW reasons, Bail(reasons), reasons \ Notes # {}
  PROVE  LossIInv'
<1>1. at' = "done" /\ panel' = <<>> /\ result' = [degraded |-> TRUE, told |-> reasons]
  BY DEF Bail, LossIInv, NothingIsLost
<1>2. NoticesAreSound' /\ NothingIsLost'
  BY <1>1 DEF LossIInv, NoticesAreSound, NothingIsLost, IsTold
<1>3. LossIsTold'
  BY <1>1 DEF LossIsTold
<1>4. QED
  BY <1>2, <1>3 DEF LossIInv

\* What is shown of the reasons of the engine degrades.
LEMMA ShownDegrades ==
  ASSUME NEW reasons \in Seq(STRING \ Notes)
  PROVE  Shown(reasons) \cap Notes = {}
<1> DEFINE S      == FirstPlaces(reasons, LAMBDA q, r : q = r)
           unique == AtPlaces(reasons, S)
           first  == Take(unique, ShownReasons)
<1>1. Listed(reasons) /\ \A i \in DOMAIN reasons : reasons[i] \notin Notes
  BY DEF Listed
<1>2. S \in SUBSET DOMAIN reasons
  BY DEF FirstPlaces
<1>3. Shown(reasons) = Range(first) \cup (IF Len(unique) > ShownReasons THEN {"and more"} ELSE {})
  BY DEF Shown
<1> HIDE DEF S
<1>4. Listed(unique) /\ \A n \in DOMAIN unique : \E i \in S : unique[n] = reasons[i]
  BY <1>1, <1>2, ListedAtPlaces
<1> HIDE DEF unique
<1>5. \A i \in DOMAIN first : i \in DOMAIN unique /\ first[i] = unique[i]
  BY <1>4, PanelAssumption, ListedTake
<1> HIDE DEF first
<1>6. \A r \in Range(first) : r \notin Notes
  BY <1>1, <1>2, <1>4, <1>5 DEF Range
<1>7. "and more" \notin Notes
  BY DEF Notes
<1>8. QED
  BY <1>3, <1>6, <1>7

LEMMA SeedsAreTold == HitsIInv /\ LossIInv /\ (ResolveSeed \/ SeedsResolved) => LossIInv'
<1> SUFFICES ASSUME HitsIInv, LossIInv, ResolveSeed \/ SeedsResolved PROVE LossIInv'
  OBVIOUS
<1>1. CASE SeedsResolved
  <2>1. /\ at = "seeds" /\ notices' = notices /\ lane' = lane /\ heard' = heard /\ panel' = panel
        /\ Bail({"no seeds"} \cup notices.seed) \/ at' \in {"promote", "build"}
    BY <1>1 DEF SeedsResolved
  <2>2. "no seeds" \notin Notes
    BY DEF Notes
  <2>3. ({"no seeds"} \cup notices.seed) \ Notes # {}
    BY <2>2
  <2>4. QED
    BY <2>1, <2>3, LossStays, LossEnds
<1>2. CASE ResolveSeed
  <2>1. at = "seeds" /\ at' = at /\ lane' = lane /\ panel' = panel
    BY <1>2 DEF ResolveSeed
  <2>2. DOMAIN heard = {"found", "cut", "faults"} /\ DOMAIN notices = {"fusion", "topicality", "seed"}
    BY DEF HitsIInv, HitsAreFound, LossIInv, NoticesAreSound
  <2>3. \/ notices' = notices /\ heard' = heard
        \/ notices' = notices /\ \E k : heard' = [heard EXCEPT !.found = @ \cup {k}]
        \/ notices' = [notices EXCEPT !.seed = {"seeds unresolved"}]
           /\ heard' = [heard EXCEPT !.faults = @ \cup {"seeds unresolved"}]
    BY <1>2 DEF ResolveSeed, Fault
  <2>4. /\ DOMAIN notices' = {"fusion", "topicality", "seed"}
        /\ notices'.fusion = notices.fusion /\ notices'.topicality = notices.topicality
        /\ notices.seed \subseteq notices'.seed /\ notices'.seed \subseteq {"seeds unresolved"}
        /\ heard'.cut = heard.cut /\ heard'.faults \subseteq heard.faults \cup notices'.seed
    BY <2>2, <2>3 DEF LossIInv, NoticesAreSound
  <2>5. QED
    BY <2>1, <2>4 DEF LossIInv, NoticesAreSound, NothingIsLost, IsTold, LossIsTold
<1>3. QED
  BY <1>1, <1>2

LEMMA LanesAreTold ==
  ASSUME HitsIInv, LossIInv, NEW l \in Lanes, CallLane(l) \/ PersistNext(l) \/ LeaveStore(l) \/ SearchStore(l)
  PROVE  LossIInv'
<1>1. opts \in Options /\ LanesAreSound /\ DOMAIN heard = {"found", "cut", "faults"}
  BY DEF HitsIInv, HitsAreFound
<1>2. /\ lane' = [lane EXCEPT ![l] = lane'[l]] /\ lane[l].reasons = {}
      /\ heard'.cut = heard.cut /\ heard'.faults \subseteq heard.faults \cup lane'[l].reasons
  BY <1>1, LaneStep
<1>3. at = "lanes" /\ at' = at /\ notices' = notices /\ panel' = panel
  BY DEF CallLane, PersistNext, LeaveStore, SearchStore, InLane, LaneFrame
<1>4. \A m \in Lanes : lane[m].reasons \subseteq lane'[m].reasons
  BY <1>1, <1>2 DEF LanesAreSound
<1>5. (\A r : IsTold(r) => IsTold(r)') /\ \A r \in lane'[l].reasons : IsTold(r)'
  BY <1>3, <1>4 DEF IsTold
<1>6. NoticesAreSound' /\ LossIsTold'
  BY <1>3 DEF LossIInv, NoticesAreSound, LossIsTold
<1>7. NothingIsLost'
  BY <1>2, <1>3, <1>5 DEF LossIInv, NothingIsLost
<1>8. QED
  BY <1>6, <1>7 DEF LossIInv

LEMMA FusionIsTold == HitsIInv /\ LossIInv /\ Fuse => LossIInv'
<1> SUFFICES ASSUME HitsIInv, LossIInv, Fuse PROVE LossIInv'
  OBVIOUS
<1> DEFINE fused   == FuseRrf(LaneLists)
           reasons == GateReasons(fused, LaneLists, LaneReasons)
<1>1. /\ at = "lanes" /\ at' \in {"rerank", "trim"} /\ panel' = panel /\ lane' = [l \in Lanes |-> LaneIdle]
      /\ notices' = [notices EXCEPT !.fusion = reasons] /\ heard' = [heard EXCEPT !.found = Sources(fused)]
  BY DEF Fuse
<1>2. LaneReasons \subseteq reasons /\ reasons \cap Notes = {}
  <2>1. LaneReasons \cap Notes = {}
    BY DEF LaneReasons, HitsIInv, LanesAreSound, IsLane, Lanes, Notes
  <2>2. QualityReasons(AboveFloor(fused, LaneLists), LaneLists) \cap Notes = {}
    <3>1. QualityReasons(AboveFloor(fused, LaneLists), LaneLists) \subseteq {"no hits", "mean", "concentration", "unique"}
      BY DEF QualityReasons
    <3>2. QED
      BY <3>1 DEF Notes
  <2>3. QED
    BY <2>1, <2>2 DEF GateReasons
<1> HIDE DEF reasons, fused
<1>3. /\ notices.fusion = {} /\ notices.topicality = {} /\ DOMAIN notices = {"fusion", "topicality", "seed"}
      /\ DOMAIN heard = {"found", "cut", "faults"}
  BY <1>1 DEF LossIInv, NoticesAreSound, HitsIInv, HitsAreFound
<1>4. /\ DOMAIN notices' = {"fusion", "topicality", "seed"} /\ notices'.fusion = reasons
      /\ notices'.topicality = {} /\ notices'.seed = notices.seed
      /\ heard'.cut = heard.cut /\ heard'.faults = heard.faults
  BY <1>1, <1>3
<1>5. NoticesAreSound' /\ LossIsTold'
  BY <1>1, <1>2, <1>4 DEF LossIInv, NoticesAreSound, LossIsTold
<1>6. \A l \in Lanes : lane'[l].reasons = {}
  BY <1>1, IdleLane
<1>7. ASSUME NEW r, IsTold(r) PROVE IsTold(r)'
  <2>1. r \in LaneReasons \/ r \in notices.seed
    BY <1>3, <1>7 DEF IsTold, LaneReasons
  <2>2. QED
    BY <1>2, <1>4, <2>1 DEF IsTold
<1>8. NothingIsLost'
  BY <1>1, <1>3, <1>4, <1>6, <1>7 DEF LossIInv, NothingIsLost
<1>9. QED
  BY <1>5, <1>8 DEF LossIInv

LEMMA RerankIsTold == HitsIInv /\ LossIInv /\ Rerank => LossIInv'
<1> SUFFICES ASSUME HitsIInv, LossIInv, Rerank PROVE LossIInv'
  OBVIOUS
<1>1. at = "rerank" /\ at' = "trim" /\ panel' = panel /\ lane' = lane
  BY DEF Rerank
<1>2. DOMAIN heard = {"found", "cut", "faults"} /\ Listed(hits) /\ DOMAIN notices = {"fusion", "topicality", "seed"}
  BY DEF HitsIInv, HitsAreFound, LossIInv, NoticesAreSound
<1>3. PICK more \in {{}, {"rerank failed"}, {"rerank dropped"}} :
        /\ notices' = [notices EXCEPT !.fusion = @ \cup more]
        /\ heard'.faults \subseteq heard.faults \cup more
        /\ "rerank dropped" \notin more => heard'.cut = heard.cut
  BY <1>2, RerankCuts
<1>4. more \cap Notes = {}
  BY DEF Notes
<1>5. /\ DOMAIN notices' = {"fusion", "topicality", "seed"} /\ notices'.fusion = notices.fusion \cup more
      /\ notices'.topicality = notices.topicality /\ notices'.seed = notices.seed
  BY <1>2, <1>3
<1>6. NoticesAreSound' /\ LossIsTold'
  BY <1>1, <1>4, <1>5 DEF LossIInv, NoticesAreSound, LossIsTold
<1>7. NothingIsLost'
  BY <1>1, <1>3, <1>5 DEF LossIInv, NothingIsLost, IsTold
<1>8. QED
  BY <1>6, <1>7 DEF LossIInv

LEMMA ScreenIsTold == HitsIInv /\ LossIInv /\ Screen => LossIInv'
<1> SUFFICES ASSUME HitsIInv, LossIInv, Screen PROVE LossIInv'
  OBVIOUS
<1>1. at = "screen" /\ at' = "build" /\ panel' = panel /\ lane' = lane
  BY DEF Screen, Answered
<1>2. /\ DOMAIN heard = {"found", "cut", "faults"} /\ Listed(hits)
      /\ DOMAIN notices = {"fusion", "topicality", "seed"} /\ notices.topicality = {}
  BY <1>1 DEF HitsIInv, HitsAreFound, LossIInv, NoticesAreSound
<1>3. PICK reasons \in SUBSET Notes :
        /\ notices' = [notices EXCEPT !.topicality = reasons]
        /\ heard'.faults \subseteq heard.faults \cup (reasons \cap {"topicality failed"})
        /\ "topicality dropped" \notin reasons => heard'.cut = heard.cut
  BY <1>2, ScreenCuts
<1>4. /\ DOMAIN notices' = {"fusion", "topicality", "seed"} /\ notices'.fusion = notices.fusion
      /\ notices'.topicality = reasons /\ notices'.seed = notices.seed
  BY <1>2, <1>3
<1>5. NoticesAreSound' /\ LossIsTold'
  BY <1>1, <1>4 DEF LossIInv, NoticesAreSound, LossIsTold
<1>6. NothingIsLost'
  BY <1>1, <1>2, <1>3, <1>4 DEF LossIInv, NothingIsLost, IsTold
<1>7. QED
  BY <1>5, <1>6 DEF LossIInv

LEMMA EngineIsTold == HitsIInv /\ LossIInv /\ RunEngine => LossIInv'
<1> SUFFICES ASSUME HitsIInv, LossIInv, RunEngine PROVE LossIInv'
  OBVIOUS
<1>1. PICK end \in EngineEnds : result' = Compose(end) /\ at' = IF end.failed THEN "failed" ELSE "done"
  BY DEF RunEngine
<1>2. at = "engine" /\ UNCHANGED <<lane, notices, panel, heard>> /\ panel # <<>>
  BY DEF RunEngine, LossIInv, NothingIsLost
<1>3. NoticesAreSound' /\ NothingIsLost'
  BY <1>1, <1>2 DEF LossIInv, NoticesAreSound, NothingIsLost, IsTold
<1>4. CASE at' # "done"
  BY <1>3, <1>4 DEF LossIInv, LossIsTold
<1>5. CASE at' = "done"
  <2> DEFINE degrading == notices.fusion \cup Shown(end.reasons) \cup Coverage
  <2>1. result'.degraded = (degrading # {}) /\ result'.told = degrading \cup notices.topicality \cup notices.seed
    BY <1>1, <1>5 DEF Compose
  <2>2. Shown(end.reasons) \cap Notes = {}
    BY PanelAssumption, ShownDegrades
  <2>3. Coverage \cap Notes = {}
    BY DEF Coverage, Notes
  <2>4. /\ notices.fusion \cap Notes = {} /\ notices.topicality \subseteq Notes /\ notices.seed \subseteq Notes
        /\ notices.fusion \subseteq degrading
    BY DEF LossIInv, NoticesAreSound, Notes
  <2>5. degrading \cap Notes = {}
    BY <2>2, <2>3, <2>4
  <2> HIDE DEF degrading
  <2>6. result'.degraded <=> result'.told \ Notes # {}
    BY <2>1, <2>4, <2>5
  <2>7. heard.faults \subseteq result'.told
    <3>1. \A l \in Lanes : lane[l].reasons = {}
      BY <1>2 DEF LossIInv, NothingIsLost
    <3>2. \A r : IsTold(r) => r \in result'.told
      BY <2>1, <2>4, <3>1 DEF IsTold
    <3>3. QED
      BY <3>2 DEF LossIInv, NothingIsLost
  <2>8. heard.cut # {} => result'.told \cap {"rerank dropped", "topicality dropped"} # {}
    BY <2>1, <2>4 DEF LossIInv, NothingIsLost
  <2>9. LossIsTold'
    BY <1>2, <2>6, <2>7, <2>8 DEF LossIsTold
  <2>10. QED
    BY <1>3, <2>9 DEF LossIInv
<1>6. QED
  BY <1>4, <1>5

LEMMA LossStep == HitsIInv /\ LossIInv /\ [Next]_vars => LossIInv'
<1> SUFFICES ASSUME HitsIInv, LossIInv, [Next]_vars PROVE LossIInv'
  OBVIOUS
<1>1. CASE UNCHANGED <<at, lane, notices, panel, result, heard>>
  BY <1>1 DEF LossIInv, NoticesAreSound, NothingIsLost, IsTold, LossIsTold
<1>2. CASE IngestFile \/ Submit \/ Decompose \/ Explored
  <2>1. /\ notices' = notices /\ lane' = lane /\ heard' = heard /\ panel' = panel
        /\ at \in {"files", "decompose", "explore"}
        /\ at' \in {"files", "seeds", "decompose", "explore", "embed", "refused"}
    BY <1>2 DEF IngestFile, Submit, ToEmbed, Decompose, Answered, Explored
  <2>2. QED
    BY <2>1, LossStays
<1>3. CASE SearchSeeds \/ PickSeeds \/ VisitSeed \/ FollowEdge \/ Descend
  <2>1. notices' = notices /\ lane' = lane /\ heard' = heard /\ panel' = panel /\ at' = at /\ at = "explore"
    BY <1>3 DEF SearchSeeds, PickSeeds, VisitSeed, FollowEdge, Descend, ExploreFrame, Exploring
  <2>2. QED
    BY <2>1, LossStays
<1>4. CASE ResolveSeed \/ SeedsResolved
  BY <1>4, SeedsAreTold
<1>5. CASE StartLanes
  <2>1. /\ at = "embed" /\ notices' = notices /\ heard' = heard /\ panel' = panel
        /\ (at' = "lanes" \/ (lane' = lane /\ Bail({"embedding"})))
    BY <1>5 DEF StartLanes, Answered
  <2>2. CASE lane' = lane /\ Bail({"embedding"})
    <3>1. "embedding" \notin Notes
      BY DEF Notes
    <3>2. {"embedding"} \ Notes # {}
      BY <3>1
    <3>3. QED
      BY <2>1, <2>2, <3>2, LossEnds
  <2>3. CASE at' = "lanes"
    <3>1. \A l \in Lanes : lane[l].reasons = {}
      BY <2>1 DEF LossIInv, NothingIsLost
    <3>2. \A r : IsTold(r) => IsTold(r)'
      BY <2>1, <3>1 DEF IsTold
    <3>3. NoticesAreSound' /\ NothingIsLost' /\ LossIsTold'
      BY <2>1, <2>3, <3>2 DEF LossIInv, NoticesAreSound, NothingIsLost, LossIsTold
    <3>4. QED
      BY <3>3 DEF LossIInv
  <2>4. QED
    BY <2>1, <2>2, <2>3
<1>6. ASSUME NEW l \in Lanes, CallLane(l) \/ PersistNext(l) \/ LeaveStore(l) \/ SearchStore(l)
      PROVE  LossIInv'
  BY <1>6, LanesAreTold
<1>7. CASE Fuse
  BY <1>7, FusionIsTold
<1>8. CASE Rerank
  BY <1>8, RerankIsTold
<1>9. CASE Trim
  <2> DEFINE reasons == IF notices.fusion = {} THEN {"no sources"} ELSE notices.fusion
  <2>1. /\ at = "trim" /\ notices' = notices /\ lane' = lane /\ heard' = heard /\ panel' = panel
        /\ Bail(reasons) \/ at' \in {"promote", "gate"}
    BY <1>9 DEF Trim
  <2>2. reasons \ Notes # {}
    <3>1. "no sources" \notin Notes
      BY DEF Notes
    <3>2. notices.fusion \cap Notes = {}
      BY DEF LossIInv, NoticesAreSound
    <3>3. QED
      BY <3>1, <3>2
  <2> HIDE DEF reasons
  <2>3. QED
    BY <2>1, <2>2, LossStays, LossEnds
<1>10. CASE Promote \/ OpenGate
  <2>1. /\ notices' = notices /\ lane' = lane /\ heard' = heard /\ panel' = panel
        /\ at \in {"promote", "gate"} /\ at' \in {"gate", "screen", "build"}
    BY <1>10 DEF Promote, OpenGate
  <2>2. QED
    BY <2>1, LossStays
<1>11. CASE Screen
  BY <1>11, ScreenIsTold
<1>12. CASE Build
  <2>1. /\ at = "build" /\ notices' = notices /\ lane' = lane /\ heard' = heard
        /\ (Bail({"build_panel"}) /\ panel' = panel) \/ (at' = "engine" /\ panel' # <<>>)
    BY <1>12 DEF Build
  <2>2. CASE Bail({"build_panel"}) /\ panel' = panel
    <3>1. "build_panel" \notin Notes
      BY DEF Notes
    <3>2. {"build_panel"} \ Notes # {}
      BY <3>1
    <3>3. QED
      BY <2>1, <2>2, <3>2, LossEnds
  <2>3. CASE at' = "engine" /\ panel' # <<>>
    BY <2>1, <2>3 DEF LossIInv, NoticesAreSound, NothingIsLost, IsTold, LossIsTold
  <2>4. QED
    BY <2>1, <2>2, <2>3
<1>13. CASE RunEngine
  BY <1>13, EngineIsTold
<1>14. CASE Send \/ Over \/ UNCHANGED vars
  BY <1>1, <1>14 DEF Send, Over, vars
<1>15. QED
  BY <1>2, <1>3, <1>4, <1>5, <1>6, <1>7, <1>8, <1>9, <1>10, <1>11, <1>12, <1>13, <1>14 DEF Next, Lanes

\* Whichever lane, reranker, gate or seed fails, whatever a judgement takes away, and
\* wherever a review ends, its notice says so, and degrades for more than notes
\* (pipeline.rs: PreNotices, fold_reason, the final composition).
THEOREM EveryLossReachesTheNotice == Spec => []LossIsTold
<1>1. LossIInv => LossIsTold
  BY DEF LossIInv
<1>2. QED
  BY <1>1, HitsInit, HitsStep, LossInit, LossStep, PTL DEF Spec

-----------------------------------------------------------------------------
(***************************************************************************)
(* The exploration.  First its lists: what a stable sort returns, what the *)
(* filters keep, and that the vector at a place of the answer belongs to   *)
(* the paper at that place, in whatever order the rows came.               *)
(***************************************************************************)
LEMMA ListedIn ==
  ASSUME NEW s, NEW T, Listed(s), \A i \in DOMAIN s : s[i] \in T
  PROVE  s \in Seq(T)
<1>1. Len(s) \in Nat /\ DOMAIN s = 1 .. Len(s) /\ s = [i \in 1 .. Len(s) |-> s[i]]
  BY ListedIs
<1>2. s \in [1 .. Len(s) -> T]
  BY <1>1
<1>3. QED
  BY <1>1, <1>2, SeqDef

LEMMA RangeIs ==
  ASSUME NEW T, NEW s \in Seq(T)
  PROVE  Listed(s) /\ Range(s) = {s[i] : i \in DOMAIN s} /\ Range(s) \subseteq T
<1>1. Listed(s)
  BY DEF Listed
<1>2. \A i \in DOMAIN s : s[i] \in T
  OBVIOUS
<1>3. QED
  BY <1>1, <1>2 DEF Range

LEMMA AheadDiffer ==
  ASSUME NEW n \in Nat, NEW key \in [1 .. n -> Int], NEW i \in 1 .. n, NEW k \in 1 .. n,
         key[i] < key[k] \/ (key[i] = key[k] /\ i < k)
  PROVE  Cardinality(Ahead(key, i)) < Cardinality(Ahead(key, k))
<1>1. Ahead(key, i) \in SUBSET Ahead(key, k) /\ i \in Ahead(key, k) /\ i \notin Ahead(key, i)
  <2>1. \A j \in 1 .. n : key[j] \in Int /\ j \in Int
    OBVIOUS
  <2>2. DOMAIN key = 1 .. n
    OBVIOUS
  <2>3. \A j \in 1 .. n : (key[j] < key[i] \/ (key[j] = key[i] /\ j < i))
                            => (key[j] < key[k] \/ (key[j] = key[k] /\ j < k))
    BY <2>1
  <2>4. QED
    BY <2>1, <2>2, <2>3 DEF Ahead
<1>2. IsFiniteSet(1 .. n) /\ Ahead(key, i) \in SUBSET 1 .. n /\ Ahead(key, k) \in SUBSET 1 .. n
  <2>1. IsFiniteSet(1 .. n) /\ DOMAIN key = 1 .. n
    BY FS_Interval
  <2>2. QED
    BY <2>1 DEF Ahead
<1>3. IsFiniteSet(Ahead(key, k)) /\ IsFiniteSet(Ahead(key, i))
  BY <1>2, FS_Subset
<1>4. /\ Cardinality(Ahead(key, i)) <= Cardinality(Ahead(key, k))
      /\ Cardinality(Ahead(key, k)) = Cardinality(Ahead(key, i)) => Ahead(key, k) = Ahead(key, i)
  BY <1>1, <1>3, FS_Subset
<1>5. Cardinality(Ahead(key, k)) \in Nat /\ Cardinality(Ahead(key, i)) \in Nat
  BY <1>3, FS_CardinalityType
<1>6. QED
  BY <1>1, <1>4, <1>5

\* The place of each element in the sorted list is its own.
LEMMA EveryTurnIsTaken ==
  ASSUME NEW n \in Nat, NEW key \in [1 .. n -> Int]
  PROVE  \A r \in 0 .. n - 1 : \E i \in 1 .. n : Cardinality(Ahead(key, i)) = r
<1> DEFINE rank == [i \in 1 .. n |-> Cardinality(Ahead(key, i))]
<1>1. IsFiniteSet(1 .. n) /\ Cardinality(1 .. n) = n
  BY FS_Interval
<1>2. ASSUME NEW i \in 1 .. n PROVE Cardinality(Ahead(key, i)) \in 0 .. n - 1
  <2>1. Ahead(key, i) \in SUBSET 1 .. n /\ i \notin Ahead(key, i)
    <3>1. ~(key[i] < key[i]) /\ ~(i < i)
      OBVIOUS
    <3>2. QED
      BY <3>1 DEF Ahead
  <2>2. /\ IsFiniteSet(Ahead(key, i)) /\ Cardinality(Ahead(key, i)) <= n
        /\ n = Cardinality(Ahead(key, i)) => 1 .. n = Ahead(key, i)
    BY <1>1, <2>1, FS_Subset
  <2>3. Cardinality(Ahead(key, i)) \in Nat
    BY <2>2, FS_CardinalityType
  <2>4. QED
    BY <2>1, <2>2, <2>3
<1>3. rank \in [1 .. n -> 0 .. n - 1]
  BY <1>2
<1>4. \A i, k \in 1 .. n : rank[i] = rank[k] => i = k
  <2> SUFFICES ASSUME NEW i \in 1 .. n, NEW k \in 1 .. n, i # k PROVE rank[i] # rank[k]
    OBVIOUS
  <2> DEFINE Leads(a, b) == key[a] < key[b] \/ (key[a] = key[b] /\ a < b)
  <2>1. Leads(i, k) \/ Leads(k, i)
    <3>1. key[i] \in Int /\ key[k] \in Int
      OBVIOUS
    <3>2. QED
      BY <3>1
  <2>2. rank[i] \in Int /\ rank[k] \in Int
    BY <1>3
  <2>3. Leads(i, k) => rank[i] < rank[k]
    BY AheadDiffer
  <2>4. Leads(k, i) => rank[k] < rank[i]
    BY AheadDiffer
  <2> HIDE DEF rank, Leads
  <2>5. QED
    BY <2>1, <2>2, <2>3, <2>4
<1>5. IsFiniteSet(0 .. n - 1) /\ Cardinality(0 .. n - 1) = n
  BY FS_Interval
<1> HIDE DEF rank
<1>6. rank \in Injection(1 .. n, 0 .. n - 1)
  BY <1>3, <1>4, Fun_IsInj
<1>7. rank \in Surjection(1 .. n, 0 .. n - 1)
  BY <1>1, <1>5, <1>6, FS_Injection
<1>8. \A r \in 0 .. n - 1 : \E i \in 1 .. n : rank[i] = r
  BY <1>7 DEF Surjection
<1>9. QED
  BY <1>8 DEF rank

LEMMA SortedIs ==
  ASSUME NEW T, NEW s \in Seq(T), NEW key \in [DOMAIN s -> Int]
  PROVE  /\ Sorted(s, key) \in Seq(T) /\ Len(Sorted(s, key)) = Len(s)
         /\ \A n \in DOMAIN s : \E i \in DOMAIN s :
              Sorted(s, key)[n] = s[i] /\ Cardinality(Ahead(key, i)) = n - 1
<1> DEFINE m == Len(s)
           t == Sorted(s, key)
           pick(n) == CHOOSE i \in DOMAIN s : Cardinality(Ahead(key, i)) = n - 1
<1>1. m \in Nat /\ DOMAIN s = 1 .. m
  OBVIOUS
<1>2. ASSUME NEW n \in 1 .. m PROVE pick(n) \in DOMAIN s /\ Cardinality(Ahead(key, pick(n))) = n - 1
  <2>1. key \in [1 .. m -> Int] /\ n - 1 \in 0 .. m - 1
    BY <1>1
  <2>2. \E i \in 1 .. m : Cardinality(Ahead(key, i)) = n - 1
    BY <1>1, <2>1, EveryTurnIsTaken
  <2>3. QED
    BY <1>1, <2>2
<1>3. t = [n \in 1 .. m |-> s[pick(n)]]
  BY <1>1 DEF Sorted
<1> HIDE DEF t, m, pick
<1>4. \A n \in 1 .. m : t[n] = s[pick(n)]
  BY <1>3
<1>5. t = [n \in 1 .. m |-> t[n]]
  BY <1>3
<1>6. Listed(t) /\ Len(t) = m /\ DOMAIN t = 1 .. m
  BY <1>1, <1>5, ListedByLength
<1>7. \A n \in DOMAIN t : t[n] \in T
  BY <1>1, <1>2, <1>4, <1>6
<1>8. t \in Seq(T)
  BY <1>6, <1>7, ListedIn
<1>9. QED
  BY <1>1, <1>2, <1>4, <1>6, <1>8 DEF t, m

LEMMA ByScoreIs ==
  ASSUME NEW T, NEW s \in Seq(T), NEW score, \A i \in DOMAIN s : score[i] \in Int
  PROVE  ByScore(s, score) \in Seq(T) /\ \A i \in DOMAIN ByScore(s, score) : \E j \in DOMAIN s : ByScore(s, score)[i] = s[j]
<1> DEFINE key == [i \in DOMAIN s |-> -score[i]]
<1>1. key \in [DOMAIN s -> Int]
  OBVIOUS
<1>2. ByScore(s, score) = Sorted(s, key)
  BY DEF ByScore
<1> HIDE DEF key
<1>3. /\ Sorted(s, key) \in Seq(T) /\ Len(Sorted(s, key)) = Len(s)
      /\ \A n \in DOMAIN s : \E i \in DOMAIN s : Sorted(s, key)[n] = s[i]
  BY <1>1, SortedIs
<1>4. DOMAIN Sorted(s, key) = DOMAIN s
  BY <1>3
<1>5. QED
  BY <1>2, <1>3, <1>4

LEMMA TakeIs ==
  ASSUME NEW T, NEW s \in Seq(T), NEW n \in Nat
  PROVE  Take(s, n) \in Seq(T) /\ \A i \in DOMAIN Take(s, n) : i \in DOMAIN s /\ Take(s, n)[i] = s[i]
<1>1. Listed(s) /\ \A i \in DOMAIN s : s[i] \in T
  BY DEF Listed
<1>2. Listed(Take(s, n)) /\ \A i \in DOMAIN Take(s, n) : i \in DOMAIN s /\ Take(s, n)[i] = s[i]
  BY <1>1, ListedTake
<1>3. QED
  BY <1>1, <1>2, ListedIn

LEMMA AtPlacesIn ==
  ASSUME NEW s, NEW T, Listed(s), NEW S \in SUBSET DOMAIN s, \A i \in S : s[i] \in T
  PROVE  AtPlaces(s, S) \in Seq(T) /\ \A n \in DOMAIN AtPlaces(s, S) : \E i \in S : AtPlaces(s, S)[n] = s[i]
<1>1. /\ Listed(AtPlaces(s, S))
      /\ \A n \in DOMAIN AtPlaces(s, S) : \E i \in S : AtPlaces(s, S)[n] = s[i]
  BY ListedAtPlaces
<1>2. QED
  BY <1>1, ListedIn

LEMMA FullIs ==
  ASSUME NEW entries \in Seq(Papers \cup {None})
  PROVE  Full(entries) \in Seq(Papers) /\ Range(Full(entries)) \subseteq Range(entries)
<1> DEFINE S == {i \in DOMAIN entries : entries[i] # None}
           t == Full(entries)
<1>1. Listed(entries) /\ \A i \in S : entries[i] \in Papers
  BY DEF Listed
<1>2. t = AtPlaces(entries, S) /\ S \in SUBSET DOMAIN entries
  BY DEF Full
<1> HIDE DEF t, S
<1>3. t \in Seq(Papers) /\ \A n \in DOMAIN t : \E i \in S : t[n] = entries[i]
  BY <1>1, <1>2, AtPlacesIn
<1>4. QED
  BY <1>2, <1>3 DEF t, Range

LEMMA UnseenIs ==
  ASSUME NEW list \in Seq(Papers), NEW known
  PROVE  Unseen(list, known) \in Seq(Papers) /\ Range(Unseen(list, known)) \subseteq Range(list)
<1> DEFINE S == {i \in DOMAIN list : list[i] \notin known}
           t == Unseen(list, known)
<1>1. Listed(list) /\ S \in SUBSET DOMAIN list /\ \A i \in S : list[i] \in Papers
  BY DEF Listed
<1>2. t = AtPlaces(list, S)
  BY DEF Unseen
<1> HIDE DEF t, S
<1>3. t \in Seq(Papers) /\ \A n \in DOMAIN t : \E i \in S : t[n] = list[i]
  BY <1>1, <1>2, AtPlacesIn
<1>4. QED
  BY <1>1, <1>3 DEF t, Range

\* Where the first k batches end.
Upto(g, k) == Min({k * MaxBatch, Len(g)})
Batches(g) == (Len(g) + MaxBatch - 1) \div MaxBatch

LEMMA SmallerIs ==
  ASSUME NEW a \in Int, NEW b \in Int
  PROVE  Min({a, b}) = IF a <= b THEN a ELSE b
  BY SmallerOfTwo

LEMMA BatchesFit ==
  ASSUME NEW g \in Seq(Papers)
  PROVE  /\ Batches(g) \in Nat /\ Upto(g, 0) = 0 /\ Upto(g, Batches(g)) = Len(g)
         /\ \A k \in 1 .. Batches(g) :
              /\ Upto(g, k - 1) = (k - 1) * MaxBatch /\ Upto(g, k - 1) \in Nat /\ Upto(g, k) \in Nat
              /\ Upto(g, k - 1) < Upto(g, k) /\ Upto(g, k) <= Len(g)
<1> DEFINE m == MaxBatch
           n == Len(g)
           K == Batches(g)
<1>1. m \in Nat /\ m > 0 /\ n \in Nat
  BY ExploreAssumption
<1> HIDE DEF m, n
<1>2. n + m - 1 \in Nat
  BY <1>1
<1>3. K = (n + m - 1) \div m
  BY DEF Batches, m, n
<1> HIDE DEF K
<1>4. K \in Nat /\ K * m <= n + m - 1 /\ n + m - 1 < K * m + m
  BY <1>1, <1>2, <1>3
<1>5. \A k : Upto(g, k) = Min({k * m, n})
  BY DEF Upto, m, n
<1>6. Upto(g, 0) = 0
  <2>1. 0 * m = 0 /\ 0 <= n
    BY <1>1
  <2>2. Upto(g, 0) = Min({0, n})
    BY <1>5, <2>1
  <2>3. QED
    BY <1>1, <2>1, <2>2, SmallerIs
<1>7. Upto(g, K) = n
  <2> DEFINE c == K * m
  <2>1. c \in Nat /\ n <= c
    BY <1>1, <1>4
  <2>2. Upto(g, K) = Min({c, n})
    BY <1>5
  <2> HIDE DEF c
  <2>3. Min({c, n}) = IF c <= n THEN c ELSE n
    BY <1>1, <2>1, SmallerIs
  <2>4. QED
    BY <1>1, <2>1, <2>2, <2>3
<1>8. ASSUME NEW k \in 1 .. K
      PROVE  /\ Upto(g, k - 1) = (k - 1) * m /\ Upto(g, k - 1) \in Nat /\ Upto(g, k) \in Nat
             /\ Upto(g, k - 1) < Upto(g, k) /\ Upto(g, k) <= n
  <2>1. k \in Nat /\ K \in Nat /\ k <= K /\ k - 1 \in Nat
    BY <1>4
  <2>2. k * m <= K * m
    BY <1>1, <2>1
  <2>3. k * m \in Nat /\ (k - 1) * m \in Nat /\ (k - 1) * m = k * m - m
    BY <1>1, <2>1
  <2> DEFINE a == k * m
             b == (k - 1) * m
             c == K * m
  <2>4. a \in Nat /\ b \in Nat /\ b = a - m /\ a <= c /\ c <= n + m - 1 /\ c \in Nat
    BY <1>1, <1>4, <2>2, <2>3
  <2>5. Upto(g, k) = Min({a, n}) /\ Upto(g, k - 1) = Min({b, n})
    BY <1>5
  <2> HIDE DEF a, b, c
  <2>6. b < n /\ b < a
    BY <1>1, <2>4
  <2>7. Min({a, n}) = (IF a <= n THEN a ELSE n) /\ Min({b, n}) = b
    BY <1>1, <2>4, <2>6, SmallerIs
  <2>8. QED
    BY <1>1, <2>4, <2>5, <2>6, <2>7 DEF b
<1>9. QED
  BY <1>4, <1>6, <1>7, <1>8 DEF K, n, m

LEMMA BatchIs ==
  ASSUME NEW g \in Seq(Papers), NEW k \in 1 .. Batches(g)
  PROVE  LET batch == ChunksOf(g, MaxBatch)[k]
         IN  /\ batch \in Seq(Papers) /\ Len(batch) = Upto(g, k) - Upto(g, k - 1)
             /\ \A i \in 1 .. Len(batch) : batch[i] = g[Upto(g, k - 1) + i]
<1> DEFINE batch == ChunksOf(g, MaxBatch)[k]
           lo == Upto(g, k - 1)
           hi == Upto(g, k)
<1>1. /\ lo = (k - 1) * MaxBatch /\ lo \in Nat /\ hi \in Nat /\ lo < hi /\ hi <= Len(g) /\ Len(g) \in Nat
  BY BatchesFit
<1>2. batch = SubSeq(g, (k - 1) * MaxBatch + 1, Min({k * MaxBatch, Len(g)}))
  BY DEF ChunksOf, Batches
<1>3. batch = SubSeq(g, lo + 1, hi)
  BY <1>1, <1>2 DEF Upto
<1> HIDE DEF batch, lo, hi
<1>4. /\ batch \in Seq(Papers) /\ Len(batch) = hi - lo
      /\ \A i \in 1 .. Len(batch) : batch[i] = g[lo + i]
  <2>1. lo + 1 \in 1 .. Len(g) + 1 /\ hi \in lo .. Len(g) /\ lo + 1 <= hi + 1
    BY <1>1
  <2>2. \A i \in lo + 1 .. hi : g[i] \in Papers
    BY <1>1
  <2>3. /\ batch \in Seq(Papers)
        /\ Len(batch) = IF lo + 1 <= hi THEN hi - (lo + 1) + 1 ELSE 0
        /\ \A i \in 1 .. hi - (lo + 1) + 1 : batch[i] = g[lo + 1 + i - 1]
    <3>1. lo + 1 \in Int /\ hi \in Int
      BY <2>1
    <3>2. QED
      BY <1>3, <2>2, <3>1, SubSeqProperties
  <2>4. hi - (lo + 1) + 1 = hi - lo /\ \A i \in Int : lo + 1 + i - 1 = lo + i
    BY <1>1
  <2>5. Len(batch) = hi - lo /\ \A i \in 1 .. hi - lo : batch[i] = g[lo + i]
    <3>1. lo + 1 <= hi
      BY <1>1
    <3>2. Len(batch) = hi - (lo + 1) + 1
      BY <2>3, <3>1, Zenon
    <3>3. ASSUME NEW i \in 1 .. hi - lo PROVE batch[i] = g[lo + i]
      <4>1. i \in Int /\ i \in 1 .. hi - (lo + 1) + 1
        BY <2>4
      <4>2. batch[i] = g[lo + 1 + i - 1]
        BY <2>3, <4>1, Zenon
      <4>3. QED
        BY <2>4, <4>1, <4>2
    <3>4. QED
      BY <2>4, <3>2, <3>3
  <2>6. QED
    BY <2>3, <2>5
<1>5. QED
  BY <1>4 DEF batch, lo, hi

LEMMA VectorsInPlace ==
  ASSUME NEW batch \in Seq(Papers), NEW backwards
  PROVE  /\ Listed(Vectors(Rows(batch, backwards))) /\ Len(Vectors(Rows(batch, backwards))) = Len(batch)
         /\ \A m \in 1 .. Len(batch) : Vectors(Rows(batch, backwards))[m] = Similar[batch[m]]
         /\ Len(Rows(batch, backwards)) = Len(batch)
<1> DEFINE n == Len(batch)
           own(i) == IF backwards THEN n + 1 - i ELSE i
           rows == Rows(batch, backwards)
           T    == {rows[i] : i \in 1 .. n}
           key  == [i \in DOMAIN rows |-> rows[i].index]
<1>1. n \in Nat
  OBVIOUS
<1>2. rows = [i \in 1 .. n |-> [index |-> own(i), vector |-> Similar[batch[own(i)]]]]
  BY Zenon DEF Rows
<1> HIDE DEF n, rows
<1>3. \A i \in 1 .. n : rows[i].index = own(i) /\ rows[i].vector = Similar[batch[own(i)]] /\ own(i) \in 1 .. n
  BY <1>1, <1>2
<1>4. rows = [i \in 1 .. n |-> rows[i]]
  BY <1>2
<1>5. Listed(rows) /\ Len(rows) = n /\ DOMAIN rows = 1 .. n
  BY <1>1, <1>4, ListedByLength
<1>6. rows \in Seq(T)
  BY <1>5, ListedIn
<1>7. key \in [DOMAIN rows -> Int] /\ \A i \in 1 .. n : key[i] = own(i)
  BY <1>1, <1>3, <1>5
<1>8. InOrder(rows) = Sorted(rows, key)
  BY DEF InOrder
<1> HIDE DEF T
<1>9. ASSUME NEW i \in 1 .. n PROVE Cardinality(Ahead(key, i)) = own(i) - 1
  <2>1. DOMAIN key = 1 .. n
    BY <1>5
  <2> HIDE DEF key
  <2>2. Ahead(key, i) = {j \in 1 .. n : own(j) < own(i) \/ (own(j) = own(i) /\ j < i)}
    BY <1>7, <2>1 DEF Ahead
  <2>3. CASE backwards
    <3>1. \A j \in 1 .. n : (own(j) < own(i) \/ (own(j) = own(i) /\ j < i)) <=> j \in i + 1 .. n
      BY <1>1, <2>3
    <3>2. Ahead(key, i) = i + 1 .. n
      <4>1. i + 1 .. n \in SUBSET 1 .. n
        BY <1>1
      <4> HIDE DEF own
      <4>2. QED
        BY <2>2, <3>1, <4>1
    <3>3. Cardinality(i + 1 .. n) = n - i
      BY <1>1, FS_Interval
    <3>4. QED
      BY <1>1, <2>3, <3>2, <3>3
  <2>4. CASE ~backwards
    <3>1. \A j \in 1 .. n : (own(j) < own(i) \/ (own(j) = own(i) /\ j < i)) <=> j \in 1 .. i - 1
      BY <1>1, <2>4
    <3>2. Ahead(key, i) = 1 .. i - 1
      <4>1. 1 .. i - 1 \in SUBSET 1 .. n
        BY <1>1
      <4> HIDE DEF own
      <4>2. QED
        BY <2>2, <3>1, <4>1
    <3>3. Cardinality(1 .. i - 1) = i - 1
      BY <1>1, FS_Interval
    <3>4. QED
      BY <2>4, <3>2, <3>3
  <2>5. QED
    BY <2>3, <2>4
<1> DEFINE sorted == InOrder(rows)
<1>10. /\ sorted \in Seq(T) /\ Len(sorted) = n
       /\ \A m \in 1 .. n : \E i \in 1 .. n : sorted[m] = rows[i] /\ Cardinality(Ahead(key, i)) = m - 1
  <2>1. key \in [DOMAIN rows -> Int] /\ sorted = Sorted(rows, key)
    BY <1>7, <1>8
  <2> HIDE DEF key, sorted
  <2>2. /\ Sorted(rows, key) \in Seq(T) /\ Len(Sorted(rows, key)) = Len(rows)
        /\ \A m \in DOMAIN rows : \E i \in DOMAIN rows :
             Sorted(rows, key)[m] = rows[i] /\ Cardinality(Ahead(key, i)) = m - 1
    BY <1>6, <2>1, SortedIs
  <2>3. QED
    BY <1>5, <2>1, <2>2
<1> HIDE DEF sorted
<1>11. ASSUME NEW m \in 1 .. n PROVE sorted[m].vector = Similar[batch[m]]
  <2>1. PICK i \in 1 .. n : sorted[m] = rows[i] /\ Cardinality(Ahead(key, i)) = m - 1
    BY <1>10
  <2>2. own(i) = m
    BY <1>1, <1>3, <1>9, <2>1
  <2>3. QED
    BY <1>3, <2>1, <2>2
<1> DEFINE v == Vectors(rows)
<1>12. v = [m \in 1 .. n |-> sorted[m].vector]
  BY <1>1, <1>10 DEF Vectors, sorted
<1> HIDE DEF v
<1>13. v = [m \in 1 .. n |-> v[m]] /\ \A m \in 1 .. n : v[m] = Similar[batch[m]]
  BY <1>11, <1>12
<1>14. Listed(v) /\ Len(v) = n
  BY <1>1, <1>13, ListedByLength
<1>15. QED
  BY <1>5, <1>13, <1>14 DEF v, rows, n

LEMMA ConcatIs ==
  ASSUME NEW s, NEW t, Listed(s), Listed(t)
  PROVE  /\ Listed(s \o t) /\ Len(s \o t) = Len(s) + Len(t)
         /\ \A i \in 1 .. Len(s) + Len(t) : (s \o t)[i] = IF i <= Len(s) THEN s[i] ELSE t[i - Len(s)]
<1>1. PICK S, T : s \in Seq(S) /\ t \in Seq(T)
  BY DEF Listed
<1>2. s \in Seq(S \cup T) /\ t \in Seq(S \cup T)
  BY <1>1, SeqMonotonic
<1>3. /\ s \o t \in Seq(S \cup T) /\ Len(s \o t) = Len(s) + Len(t)
      /\ \A i \in 1 .. Len(s) + Len(t) : (s \o t)[i] = IF i <= Len(s) THEN s[i] ELSE t[i - Len(s)]
  BY <1>2, ConcatProperties
<1>4. QED
  BY <1>3 DEF Listed

Flattens(seqs, n, f) == f = [i \in 1 .. n |-> IF i = 1 THEN seqs[i] ELSE f[i - 1] \o seqs[i]]

Flattened(seqs, n) == \E f : Flattens(seqs, n, f)

LEMMA FlatteningExists ==
  ASSUME NEW seqs, NEW n \in Nat
  PROVE  Flattened(seqs, n)
<1>1. Flattened(seqs, 0)
  <2> DEFINE f == [i \in 1 .. 0 |-> seqs[i]]
  <2>1. f = [i \in 1 .. 0 |-> IF i = 1 THEN seqs[i] ELSE f[i - 1] \o seqs[i]]
    OBVIOUS
  <2>2. QED
    BY <2>1 DEF Flattened, Flattens
<1>2. ASSUME NEW m \in Nat, Flattened(seqs, m)
      PROVE  Flattened(seqs, m + 1)
  <2>1. PICK f : f = [i \in 1 .. m |-> IF i = 1 THEN seqs[i] ELSE f[i - 1] \o seqs[i]]
    BY <1>2 DEF Flattened, Flattens
  <2> DEFINE h == [i \in 1 .. m + 1 |-> IF i = 1 THEN seqs[i] ELSE f[i - 1] \o seqs[i]]
  <2>2. ASSUME NEW i \in 1 .. m PROVE h[i] = f[i]
    <3>1. h[i] = IF i = 1 THEN seqs[i] ELSE f[i - 1] \o seqs[i]
      OBVIOUS
    <3> HIDE DEF h
    <3>2. f[i] = IF i = 1 THEN seqs[i] ELSE f[i - 1] \o seqs[i]
      BY <2>1
    <3>3. QED
      BY <3>1, <3>2
  <2>3. \A i \in 1 .. m + 1 : i # 1 => i - 1 \in 1 .. m
    OBVIOUS
  <2>4. h = [i \in 1 .. m + 1 |-> IF i = 1 THEN seqs[i] ELSE h[i - 1] \o seqs[i]]
    BY <2>2, <2>3
  <2>5. QED
    BY <2>4 DEF Flattened, Flattens
<1> DEFINE Good == {m \in 0 .. n : Flattened(seqs, m)}
<1>3. 0 \in Good /\ \A m \in 0 .. n - 1 : m \in Good => m + 1 \in Good
  <2>1. \A m \in 0 .. n - 1 : m \in Nat /\ m + 1 \in 0 .. n
    OBVIOUS
  <2>2. QED
    BY <1>1, <1>2, <2>1
<1>4. n \in Good
  <2> HIDE DEF Good
  <2>1. QED
    BY <1>3, CountingUp
<1>5. QED
  BY <1>4

LEMMA ScoresInPlace ==
  ASSUME NEW w, w.gathered \in Seq(Papers), w.gathered # <<>>, NEW backwards
  PROVE  Scores(w, backwards) = [i \in 1 .. Len(w.gathered) |-> Similar[w.gathered[i]]]
<1> DEFINE g       == w.gathered
           K       == Batches(g)
           batches == ChunksOf(g, MaxBatch)
           answers == [k \in DOMAIN batches |-> Rows(batches[k], backwards)]
           vec     == [k \in DOMAIN answers |-> Vectors(answers[k])]
           sims(k) == [i \in 1 .. Upto(g, k) |-> Similar[g[i]]]
           f       == CHOOSE h : Flattens(vec, K, h)
<1> HIDE DEF g
<1>1. g \in Seq(Papers) /\ Len(g) \in Nat /\ g # <<>> /\ Len(g) # 0
  BY DEF g
<1>2. /\ K \in Nat /\ Upto(g, 0) = 0 /\ Upto(g, K) = Len(g)
      /\ \A k \in 1 .. K : /\ Upto(g, k - 1) \in Nat /\ Upto(g, k) \in Nat
                            /\ Upto(g, k - 1) < Upto(g, k) /\ Upto(g, k) <= Len(g)
  BY <1>1, BatchesFit
<1>3. DOMAIN batches = 1 .. K
  BY DEF ChunksOf, Batches
<1>4. ASSUME NEW k \in 1 .. K
      PROVE  LET batch == batches[k]
             IN  /\ batch \in Seq(Papers) /\ Len(batch) = Upto(g, k) - Upto(g, k - 1)
                 /\ \A i \in 1 .. Len(batch) : batch[i] = g[Upto(g, k - 1) + i]
  BY <1>1, BatchIs
<1> HIDE DEF K, batches
<1>5. ASSUME NEW k \in 1 .. K
      PROVE  /\ answers[k] # <<>> /\ Listed(vec[k]) /\ Len(vec[k]) = Upto(g, k) - Upto(g, k - 1)
             /\ \A i \in 1 .. Len(vec[k]) : vec[k][i] = Similar[g[Upto(g, k - 1) + i]]
  <2> DEFINE batch == batches[k]
             rows  == Rows(batch, backwards)
             v     == Vectors(rows)
  <2>1. answers[k] = rows /\ vec[k] = v
    BY <1>3
  <2>2. /\ batch \in Seq(Papers) /\ Len(batch) = Upto(g, k) - Upto(g, k - 1)
        /\ \A i \in 1 .. Len(batch) : batch[i] = g[Upto(g, k - 1) + i]
    BY <1>4
  <2> HIDE DEF batch
  <2>3. /\ Listed(v) /\ Len(v) = Len(batch) /\ Len(rows) = Len(batch)
        /\ \A m \in 1 .. Len(batch) : v[m] = Similar[batch[m]]
    BY <2>2, VectorsInPlace
  <2>4. Len(rows) # 0
    BY <1>2, <2>2, <2>3
  <2> HIDE DEF rows, v, answers, vec
  <2>5. rows # <<>>
    BY <2>4
  <2>6. QED
    BY <2>1, <2>2, <2>3, <2>5
<1>6. DOMAIN answers = 1 .. K /\ DOMAIN vec = 1 .. K /\ vec = [k \in 1 .. K |-> vec[k]]
  BY <1>3
<1>7. Scores(w, backwards) = FlattenSeq(vec)
  <2>1. Scores(w, backwards) = Embedded(answers)
    BY DEF Scores, batches, g
  <2>2. Embedded(answers) = FlattenSeq(vec)
    BY <1>5, <1>6 DEF Embedded
  <2>3. QED
    BY <2>1, <2>2
<1> HIDE DEF vec, answers
<1>8. Len(vec) = K
  BY <1>2, <1>6, ListedByLength
<1>9. K # 0
  BY <1>1, <1>2
<1>10. Flattens(vec, K, f)
  BY <1>2, FlatteningExists DEF Flattened
<1>11. FlattenSeq(vec) = f[K]
  BY <1>8, <1>9 DEF FlattenSeq, Flattens
<1> HIDE DEF f
<1> DEFINE Good == {k \in 0 .. K : k = 0 \/ f[k] = sims(k)}
<1>12. ASSUME NEW k \in 0 .. K - 1, k \in Good PROVE k + 1 \in Good
  <2> DEFINE before == IF k = 0 THEN <<>> ELSE f[k]
             lo     == Upto(g, k)
             hi     == Upto(g, k + 1)
             v      == vec[k + 1]
  <2>1. k + 1 \in 1 .. K /\ (k + 1) - 1 = k /\ (k + 1 = 1 <=> k = 0) /\ k \in Nat
    BY <1>2
  <2>2. lo \in Nat /\ hi \in Nat /\ lo < hi /\ hi <= Len(g)
    BY <1>2, <2>1
  <2>3. /\ Listed(v) /\ Len(v) = hi - lo
        /\ \A i \in 1 .. Len(v) : v[i] = Similar[g[lo + i]]
    BY <1>5, <2>1
  <2>4. f[k + 1] = IF k = 0 THEN v ELSE f[k] \o v
    BY <1>10, <2>1 DEF Flattens
  <2>5. before = [i \in 1 .. lo |-> Similar[g[i]]]
    <3>1. CASE k = 0
      <4>1. lo = 0
        BY <1>2, <3>1
      <4>2. QED
        BY <3>1, <4>1
    <3>2. CASE k # 0
      BY <1>12, <3>2 DEF lo
    <3>3. QED
      BY <3>1, <3>2
  <2>6. f[k + 1] = before \o v
    <3>1. <<>> \o v = v
      BY <2>3 DEF Listed
    <3>2. QED
      BY <2>4, <3>1
  <2> HIDE DEF before, lo, hi, v
  <2>7. before = [i \in 1 .. lo |-> before[i]]
    BY <2>5
  <2>8. Listed(before) /\ Len(before) = lo
    BY <2>2, <2>7, ListedByLength
  <2> DEFINE all == before \o v
  <2>9. /\ Listed(all) /\ Len(all) = hi
        /\ \A i \in 1 .. hi : all[i] = IF i <= lo THEN before[i] ELSE v[i - lo]
    <3>1. /\ Listed(all) /\ Len(all) = Len(before) + Len(v)
          /\ \A i \in 1 .. Len(before) + Len(v) :
               all[i] = IF i <= Len(before) THEN before[i] ELSE v[i - Len(before)]
      BY <2>3, <2>8, ConcatIs
    <3>2. lo + (hi - lo) = hi
      BY <2>2
    <3> HIDE DEF all
    <3>3. QED
      BY <2>3, <2>8, <3>1, <3>2
  <2> HIDE DEF all
  <2>10. ASSUME NEW i \in 1 .. hi PROVE all[i] = Similar[g[i]]
    <3>1. CASE i <= lo
      BY <2>2, <2>5, <2>9, <3>1
    <3>2. CASE ~(i <= lo)
      <4>1. i - lo \in 1 .. hi - lo /\ lo + (i - lo) = i
        BY <2>2, <3>2
      <4>2. QED
        BY <2>3, <2>9, <3>2, <4>1
    <3>3. QED
      BY <3>1, <3>2
  <2>11. all = [i \in 1 .. hi |-> all[i]]
    BY <2>9, ListedIs
  <2>12. f[k + 1] = [i \in 1 .. hi |-> Similar[g[i]]]
    BY <2>6, <2>10, <2>11 DEF all
  <2>13. QED
    BY <2>1, <2>12 DEF hi
<1>13. K \in Good
  <2>1. 0 \in Good /\ K \in 0 .. K
    BY <1>2
  <2>2. \A k \in 0 .. K - 1 : k \in Good => k + 1 \in Good
    BY <1>12
  <2> HIDE DEF Good
  <2>3. QED
    BY <1>2, <2>1, <2>2, CountingUp
<1>14. f[K] = sims(K)
  BY <1>9, <1>13
<1>15. QED
  BY <1>2, <1>7, <1>11, <1>14 DEF g

\* What goes one level down was gathered, and resembles the question.
LEMMA WinnersAreNear ==
  ASSUME NEW w, w.gathered \in Seq(Papers), w.gathered # <<>>, NEW backwards
  PROVE  LET won == Winners(w, Scores(w, backwards))
         IN  /\ won \in Seq(Papers) /\ Range(won) \subseteq Range(w.gathered)
             /\ \A p \in Range(won) : Similar[p] >= MinRelevance
<1> DEFINE g      == w.gathered
           scores == Scores(w, backwards)
           near   == Near(w, scores)
           some   == AtPlaces(g, near)
           keys   == AtPlaces(scores, near)
           sorted == ByScore(some, keys)
           won    == Winners(w, scores)
           Fit    == {p \in Range(g) : Similar[p] >= MinRelevance}
<1>1. g \in Seq(Papers) /\ Listed(g) /\ Len(g) \in Nat /\ DOMAIN g = 1 .. Len(g)
  BY DEF Listed
<1>2. scores = [i \in 1 .. Len(g) |-> Similar[g[i]]]
  BY ScoresInPlace
<1>3. near \in SUBSET DOMAIN g /\ near = {i \in DOMAIN g : scores[i] >= MinRelevance}
  BY DEF Near
<1>4. won = Take(sorted, PerLevel)
  BY DEF Winners
<1> HIDE DEF g, scores, near, won
<1>5. \A i \in near : g[i] \in Fit
  BY <1>1, <1>2, <1>3 DEF Range
<1>6. \A i \in DOMAIN g : scores[i] \in Int
  BY <1>1, <1>2, ExploreAssumption
<1>7. near \in SUBSET Int /\ IsFiniteSet(near)
  BY <1>1, <1>3, PlacesAreFinite
<1>8. /\ Listed(some) /\ DOMAIN some = 1 .. Cardinality(near)
      /\ \A n \in 1 .. Cardinality(near) : Nth(near, n) \in near /\ some[n] = g[Nth(near, n)]
  BY <1>7, AtPlacesIs
<1>9. \A n \in 1 .. Cardinality(near) : keys[n] = scores[Nth(near, n)]
  BY <1>7, AtPlacesIs
<1> HIDE DEF some, keys, Fit
<1>10. some \in Seq(Fit) /\ \A n \in DOMAIN some : keys[n] \in Int
  <2>1. \A n \in DOMAIN some : some[n] \in Fit
    BY <1>5, <1>8
  <2>2. \A n \in DOMAIN some : keys[n] \in Int
    BY <1>3, <1>6, <1>8, <1>9
  <2>3. QED
    BY <1>8, <2>1, <2>2, ListedIn
<1>11. sorted \in Seq(Fit)
  BY <1>10, ByScoreIs
<1> HIDE DEF sorted
<1>12. won \in Seq(Fit)
  BY <1>4, <1>11, TakeIs, ExploreAssumption
<1>13. Fit \subseteq Papers /\ Fit \subseteq Range(g) /\ \A p \in Fit : Similar[p] >= MinRelevance
  BY <1>1, RangeIs DEF Fit
<1>14. Range(won) \subseteq Fit /\ won \in Seq(Papers)
  BY <1>12, <1>13, RangeIs, SeqMonotonic
<1>15. QED
  BY <1>13, <1>14 DEF won, scores, g

-----------------------------------------------------------------------------
(***************************************************************************)
(* What is within n links: one link more, each time.                       *)
(***************************************************************************)
Balls(papers, n, f) == f = [m \in 0 .. n |-> IF m = 0 THEN papers ELSE Neighbours(f[m - 1])]

Ballooned(papers, n) == \E f : Balls(papers, n, f)

LEMMA BallsExist ==
  ASSUME NEW papers, NEW n \in Nat
  PROVE  Ballooned(papers, n)
<1>1. Ballooned(papers, 0)
  <2> DEFINE f == [m \in 0 .. 0 |-> papers]
  <2>1. \A m \in 0 .. 0 : m = 0
    OBVIOUS
  <2>2. f = [m \in 0 .. 0 |-> IF m = 0 THEN papers ELSE Neighbours(f[m - 1])]
    BY <2>1
  <2>3. QED
    BY <2>2 DEF Ballooned, Balls
<1>2. ASSUME NEW k \in Nat, Ballooned(papers, k)
      PROVE  Ballooned(papers, k + 1)
  <2>1. PICK f : f = [m \in 0 .. k |-> IF m = 0 THEN papers ELSE Neighbours(f[m - 1])]
    BY <1>2 DEF Ballooned, Balls
  <2> DEFINE h == [m \in 0 .. k + 1 |-> IF m = 0 THEN papers ELSE Neighbours(f[m - 1])]
  <2>2. ASSUME NEW m \in 0 .. k PROVE h[m] = f[m]
    <3>1. h[m] = IF m = 0 THEN papers ELSE Neighbours(f[m - 1])
      OBVIOUS
    <3> HIDE DEF h
    <3>2. f[m] = IF m = 0 THEN papers ELSE Neighbours(f[m - 1])
      BY <2>1
    <3>3. QED
      BY <3>1, <3>2
  <2>3. \A m \in 0 .. k + 1 : m # 0 => m - 1 \in 0 .. k
    OBVIOUS
  <2>4. h = [m \in 0 .. k + 1 |-> IF m = 0 THEN papers ELSE Neighbours(h[m - 1])]
    BY <2>2, <2>3
  <2>5. QED
    BY <2>4 DEF Ballooned, Balls
<1> DEFINE Good == {m \in 0 .. n : Ballooned(papers, m)}
<1>3. 0 \in Good /\ \A m \in 0 .. n - 1 : m \in Good => m + 1 \in Good
  <2>1. \A m \in 0 .. n - 1 : m \in Nat /\ m + 1 \in 0 .. n
    OBVIOUS
  <2>2. QED
    BY <1>1, <1>2, <2>1
<1>4. n \in Good
  <2> HIDE DEF Good
  <2>1. QED
    BY <1>3, CountingUp
<1>5. QED
  BY <1>4

LEMMA AroundIs ==
  ASSUME NEW papers, NEW n \in Nat
  PROVE  Around(papers, 0) = papers /\ Around(papers, n + 1) = Neighbours(Around(papers, n))
<1> DEFINE ball(k) == CHOOSE f : Balls(papers, k, f)
<1>1. ASSUME NEW k \in Nat
      PROVE  Balls(papers, k, ball(k)) /\ Around(papers, k) = ball(k)[k]
  <2>1. \E f : Balls(papers, k, f)
    BY BallsExist DEF Ballooned
  <2>2. Around(papers, k) = ball(k)[k]
    BY DEF Around, Balls
  <2>3. QED
    BY <2>1, <2>2
<1> HIDE DEF ball
<1>2. ASSUME NEW k \in Nat, NEW m \in 0 .. k
      PROVE  ball(k)[m] = IF m = 0 THEN papers ELSE Neighbours(ball(k)[m - 1])
  BY <1>1 DEF Balls
<1>3. Around(papers, 0) = papers
  BY <1>1, <1>2
<1> DEFINE Good == {m \in 0 .. n : ball(n)[m] = ball(n + 1)[m]}
<1>4. 0 \in Good
  <2>1. 0 \in 0 .. n /\ 0 \in 0 .. n + 1 /\ n + 1 \in Nat
    OBVIOUS
  <2>2. ball(n)[0] = papers /\ ball(n + 1)[0] = papers
    BY <1>2, <2>1
  <2>3. QED
    BY <2>1, <2>2
<1>5. ASSUME NEW m \in 0 .. n - 1, m \in Good PROVE m + 1 \in Good
  <2>1. m + 1 \in 0 .. n /\ m + 1 \in 0 .. n + 1 /\ n + 1 \in Nat /\ m + 1 # 0 /\ (m + 1) - 1 = m
    OBVIOUS
  <2>2. ball(n)[m + 1] = Neighbours(ball(n)[m]) /\ ball(n + 1)[m + 1] = Neighbours(ball(n + 1)[m])
    BY <1>2, <2>1
  <2>3. QED
    BY <1>5, <2>1, <2>2
<1>6. n \in Good
  <2> HIDE DEF Good
  <2>1. QED
    BY <1>4, <1>5, CountingUp
<1>7. ball(n + 1)[n + 1] = Neighbours(ball(n + 1)[n])
  <2>1. n + 1 \in 0 .. n + 1 /\ n + 1 \in Nat /\ n + 1 # 0 /\ (n + 1) - 1 = n
    OBVIOUS
  <2>2. QED
    BY <1>2, <2>1
<1>8. QED
  BY <1>1, <1>3, <1>6, <1>7

LEMMA NextDoor ==
  ASSUME NEW papers, NEW p \in papers
  PROVE  /\ papers \subseteq Neighbours(papers)
         /\ Range(References[p]) \subseteq Neighbours(papers) /\ Range(Citations[p]) \subseteq Neighbours(papers)
<1> DEFINE out == Range(References[p]) \cup Range(Citations[p])
           outs == {Range(References[q]) \cup Range(Citations[q]) : q \in papers}
<1>1. out \in outs
  OBVIOUS
<1>2. Neighbours(papers) = papers \cup UNION outs
  BY DEF Neighbours
<1> HIDE DEF outs
<1>3. out \subseteq UNION outs
  BY <1>1
<1>4. QED
  BY <1>2, <1>3

LEMMA AroundGrows ==
  ASSUME NEW papers, NEW n \in Nat, NEW m \in Nat, n <= m
  PROVE  Around(papers, n) \subseteq Around(papers, m)
<1> DEFINE Good == {k \in 0 .. m - n : Around(papers, n) \subseteq Around(papers, n + k)}
<1>1. m - n \in Nat
  OBVIOUS
<1>2. 0 \in Good
  <2>1. n + 0 = n /\ 0 \in 0 .. m - n
    BY <1>1
  <2>2. QED
    BY <2>1
<1>3. ASSUME NEW k \in 0 .. (m - n) - 1, k \in Good PROVE k + 1 \in Good
  <2>1. k + 1 \in 0 .. m - n /\ n + k \in Nat /\ n + (k + 1) = (n + k) + 1
    BY <1>1
  <2>2. Around(papers, (n + k) + 1) = Neighbours(Around(papers, n + k))
    BY <2>1, AroundIs
  <2>3. Around(papers, n + k) \subseteq Neighbours(Around(papers, n + k))
    BY NextDoor
  <2>4. QED
    BY <1>3, <2>1, <2>2, <2>3
<1>4. m - n \in Good
  <2> HIDE DEF Good
  <2>1. m - n \in 0 .. m - n
    BY <1>1
  <2>2. QED
    BY <1>1, <1>2, <1>3, <2>1, CountingUp
<1>5. n + (m - n) = m
  OBVIOUS
<1>6. QED
  BY <1>4, <1>5

-----------------------------------------------------------------------------
(***************************************************************************)
(* The walk.  Where it stands, and what the store owes to it.              *)
(***************************************************************************)
Fields == {"at", "queries", "found", "seeds", "seed", "depth", "level", "edge", "gathered", "seen",
           "visited", "exhausted", "calls", "cached"}

IsWalk(w) ==
  /\ DOMAIN w = Fields
  /\ w.queries \in Seq(DOMAIN SearchHits)
  /\ w.found \in Seq(Papers) /\ w.seeds \in Seq(Papers)
  /\ w.seed \in Nat \ {0} /\ w.calls \in Nat

\* The level at hand is fewer than depth links away, what it leads to no more than depth.
Reached(w) ==
  w.at = "edge" =>
    /\ w.level \in Seq(Papers) /\ w.gathered \in Seq(Papers) /\ w.edge \in Nat \ {0}
    /\ w.depth \in 1 .. EffectiveDepth(w)
    /\ Range(w.level) \subseteq Around(Range(w.seeds), w.depth - 1)
    /\ Range(w.gathered) \subseteq Around(Range(w.seeds), w.depth)

Justifies(w, p) ==
  /\ p \in w.visited
  /\ p \in Range(w.seeds) \/ Similar[p] >= MinRelevance
  /\ p \in Around(Range(w.seeds), EffectiveDepth(w))
Justified(st, w) == \A k \in Keys : k.type # "local" /\ st[k] # "absent" => Justifies(w, k.of)
Untouched(st)    == \A k \in Keys : k.type # "local" => st[k] = "absent"

WalkIInv ==
  at \in {"files", "decompose", "explore"} =>
    /\ DOMAIN store = Keys /\ DOMAIN left = {"arxiv", "s2"} /\ left.s2 \in Nat
    /\ at # "explore" => Untouched(store) /\ left.s2 = S2Budget
    /\ at = "explore" => /\ IsWalk(x) /\ Reached(x) /\ Justified(store, x)
                         /\ x.calls + left.s2 = S2Budget
                         /\ x.at = "search" => Untouched(store)

LEMMA DepthIs ==
  ASSUME NEW w, IsWalk(w)
  PROVE  EffectiveDepth(w) \in Nat
<1>1. MaxDepth \in Nat /\ MaxDepth \in Int /\ 1 \in Int
  BY ExploreAssumption
<1>2. Min({MaxDepth, 1}) \in {MaxDepth, 1}
  BY <1>1, SmallerOfTwo
<1>3. QED
  BY <1>1, <1>2 DEF EffectiveDepth

LEMMA CalledKeeps ==
  ASSUME NEW w, IsWalk(w), NEW keys, NEW written
  PROVE  LET v == Called(w, keys, written)
         IN  /\ IsWalk(v) /\ v.calls = w.calls + 1 /\ v.at = w.at
             /\ v.queries = w.queries /\ v.found = w.found /\ v.seeds = w.seeds /\ v.seed = w.seed
             /\ v.depth = w.depth /\ v.level = w.level /\ v.edge = w.edge /\ v.gathered = w.gathered
             /\ v.seen = w.seen /\ v.visited = w.visited /\ v.exhausted = w.exhausted
  BY DEF Called, IsWalk, Fields

LEMMA NextSeedKeeps ==
  ASSUME NEW w, IsWalk(w)
  PROVE  LET v == NextSeed(w)
         IN  /\ IsWalk(v) /\ Reached(v) /\ v.at = "seed"
             /\ v.seeds = w.seeds /\ v.visited = w.visited /\ v.calls = w.calls
<1> DEFINE v == NextSeed(w)
<1>1. DOMAIN v = Fields /\ v.at = "seed" /\ v.seed = w.seed + 1
  BY DEF NextSeed, IsWalk, Fields
<1>2. v.queries = w.queries /\ v.found = w.found /\ v.seeds = w.seeds /\ v.visited = w.visited /\ v.calls = w.calls
  BY DEF NextSeed, IsWalk, Fields
<1> HIDE DEF v
<1>3. IsWalk(v) /\ Reached(v)
  BY <1>1, <1>2 DEF IsWalk, Reached
<1>4. QED
  BY <1>1, <1>2, <1>3 DEF v

LEMMA LevelKeeps ==
  ASSUME NEW w, IsWalk(w), NEW papers \in Seq(Papers), NEW d \in Nat \ {0},
         Range(papers) \subseteq Around(Range(w.seeds), d - 1)
  PROVE  LET v == Level(w, papers, d)
         IN  /\ IsWalk(v) /\ Reached(v) /\ v.at \in {"seed", "edge"}
             /\ v.seeds = w.seeds /\ v.visited = w.visited /\ v.calls = w.calls
<1> DEFINE v == Level(w, papers, d)
<1>1. CASE papers = <<>> \/ d > EffectiveDepth(w)
  <2>1. v = NextSeed(w)
    BY <1>1 DEF Level
  <2>2. QED
    BY <2>1, NextSeedKeeps
<1>2. CASE papers # <<>> /\ d <= EffectiveDepth(w)
  <2>1. EffectiveDepth(w) \in Nat
    BY DepthIs
  <2>2. v = [w EXCEPT !.at = "edge", !.level = papers, !.depth = d, !.edge = 1, !.gathered = <<>>]
    BY <1>2, <2>1 DEF Level
  <2> HIDE DEF v
  <2>3. DOMAIN v = Fields /\ v.at = "edge" /\ v.level = papers /\ v.depth = d /\ v.edge = 1 /\ v.gathered = <<>>
    BY <2>2 DEF IsWalk, Fields
  <2>4. v.queries = w.queries /\ v.found = w.found /\ v.seeds = w.seeds /\ v.seed = w.seed
        /\ v.visited = w.visited /\ v.calls = w.calls
    BY <2>2 DEF IsWalk, Fields
  <2>5. IsWalk(v)
    BY <2>3, <2>4 DEF IsWalk
  <2>6. EffectiveDepth(v) = EffectiveDepth(w)
    BY <2>4 DEF EffectiveDepth
  <2>7. Range(v.gathered) = {} /\ v.gathered \in Seq(Papers)
    BY <2>3 DEF Range
  <2>8. Reached(v)
    BY <1>2, <2>1, <2>3, <2>4, <2>6, <2>7 DEF Reached
  <2>9. QED
    BY <2>3, <2>4, <2>5, <2>8 DEF v
<1>3. QED
  <2>1. EffectiveDepth(w) \in Nat
    BY DepthIs
  <2>2. QED
    BY <1>1, <1>2, <2>1

\* Of these sources at most new ones are more than before.
Gains(st, st2, new) == \A k \in Keys : st2[k] # "absent" => st[k] # "absent" \/ k.of \in new

LEMMA IngestedOnly ==
  ASSUME NEW st, DOMAIN st = Keys, NEW papers, NEW whole
  PROVE  DOMAIN Ingest(st, papers, whole) = Keys /\ Gains(st, Ingest(st, papers, whole), papers)
<1> DEFINE new == {p \in papers : st[Key(p)] = "absent"}
           t   == Ingest(st, papers, whole)
<1>1. t = [k \in Keys |-> IF k.of \notin new \/ k # Key(k.of) THEN st[k]
                          ELSE IF k.of \in whole THEN Persisted(k.of)
                          ELSE IF st[k] = "absent" THEN "row" ELSE st[k]]
  BY DEF Ingest, Persist
<1>2. new \subseteq papers
  OBVIOUS
<1> HIDE DEF t, new
<1>3. DOMAIN t = Keys /\ Gains(st, t, papers)
  BY <1>1, <1>2 DEF Gains
<1>4. QED
  BY <1>3 DEF t

LEMMA StaysJustified ==
  ASSUME NEW st, NEW st2, NEW w, NEW v, NEW new, Justified(st, w), Gains(st, st2, new),
         v.seeds = w.seeds, w.visited \subseteq v.visited, \A p \in new : Justifies(v, p)
  PROVE  Justified(st2, v)
<1>1. EffectiveDepth(v) = EffectiveDepth(w)
  BY DEF EffectiveDepth
<1>2. \A p : Justifies(w, p) => Justifies(v, p)
  BY <1>1 DEF Justifies
<1>3. QED
  BY <1>2 DEF Justified, Gains

LEMMA WalkInit == Init => WalkIInv
<1> SUFFICES ASSUME Init PROVE WalkIInv
  OBVIOUS
<1>1. at = "files" /\ store = [k \in Keys |-> "absent"] /\ left = [arxiv |-> ArxivBudget, s2 |-> S2Budget]
  BY DEF Init
<1>2. DOMAIN store = Keys /\ \A k \in Keys : store[k] = "absent"
  BY <1>1
<1>3. DOMAIN left = {"arxiv", "s2"} /\ left.s2 = S2Budget
  BY <1>1
<1>4. QED
  BY <1>1, <1>2, <1>3, PanelAssumption DEF WalkIInv, Untouched

LEMMA ListingIs ==
  ASSUME NEW on, NEW reply, NEW entries \in Seq(Papers \cup {None})
  PROVE  /\ Listing(on, reply, entries).found \in Seq(Papers)
         /\ Range(Listing(on, reply, entries).found) \subseteq Range(entries)
<1> DEFINE found == Listing(on, reply, entries).found
<1>1. found = <<>> \/ found = Full(entries)
  BY DEF Listing
<1>2. <<>> \in Seq(Papers) /\ Range(<<>>) = {}
  BY DEF Range
<1>3. Full(entries) \in Seq(Papers) /\ Range(Full(entries)) \subseteq Range(entries)
  BY FullIs
<1> HIDE DEF found
<1>4. CASE found = <<>>
  BY <1>2, <1>4 DEF found
<1>5. CASE found = Full(entries)
  BY <1>3, <1>5 DEF found
<1>6. QED
  BY <1>1, <1>4, <1>5

\* Before the exploration the store holds files only.
LEMMA FilesAreLocal == WalkIInv /\ IngestFile => WalkIInv'
<1> SUFFICES ASSUME WalkIInv, IngestFile PROVE WalkIInv'
  OBVIOUS
<1> DEFINE k == LocalKey(Head(todo))
<1>1. at = "files" /\ at' = "files" /\ left' = left
  BY DEF IngestFile
<1>2. store' = store \/ \E v : store' = [store EXCEPT ![k] = v]
  BY DEF IngestFile
<1>3. k.type = "local"
  BY DEF LocalKey
<1> HIDE DEF k
<1>4. DOMAIN store = Keys /\ DOMAIN left = {"arxiv", "s2"} /\ left.s2 \in Nat /\ Untouched(store) /\ left.s2 = S2Budget
  BY <1>1 DEF WalkIInv
<1>5. DOMAIN store' = Keys /\ \A j \in Keys : j.type # "local" => store'[j] = store[j]
  BY <1>2, <1>3, <1>4
<1>6. Untouched(store')
  BY <1>4, <1>5 DEF Untouched
<1>7. QED
  BY <1>1, <1>4, <1>5, <1>6 DEF WalkIInv

LEMMA ExplorationStarts == WalkIInv /\ Decompose => WalkIInv'
<1> SUFFICES ASSUME WalkIInv, Decompose PROVE WalkIInv'
  OBVIOUS
<1>1. PICK reply \in Decompositions \cup {<<>>} : x' = Start(SeedQueries(reply))
  BY DEF Decompose
<1>2. at = "decompose" /\ at' = "explore" /\ store' = store /\ left' = left
  BY DEF Decompose, Answered
<1>3. DOMAIN store = Keys /\ DOMAIN left = {"arxiv", "s2"} /\ left.s2 \in Nat /\ Untouched(store) /\ left.s2 = S2Budget
  BY <1>2 DEF WalkIInv
<1> DEFINE queries == SeedQueries(reply)
<1>4. queries \in Seq(DOMAIN SearchHits)
  <2>1. /\ <<RawQuestion>> \in Seq(DOMAIN SearchHits) /\ MaxSeedQueries \in Nat
        /\ Decompositions \subseteq Seq(DOMAIN SearchHits)
    BY PanelAssumption
  <2>2. CASE reply = <<>>
    BY <2>1, <2>2 DEF SeedQueries
  <2>3. CASE reply # <<>>
    <3>1. reply \in Seq(DOMAIN SearchHits)
      BY <2>1, <2>3
    <3>2. Take(reply, MaxSeedQueries) \in Seq(DOMAIN SearchHits)
      BY <2>1, <3>1, TakeIs
    <3>3. QED
      BY <2>3, <3>2 DEF SeedQueries
  <2>4. QED
    BY <2>2, <2>3
<1> HIDE DEF queries
<1>5. /\ DOMAIN x' = Fields /\ x'.at = "search" /\ x'.queries = queries /\ x'.found = <<>> /\ x'.seeds = <<>>
      /\ x'.seed = 1 /\ x'.calls = 0
  BY <1>1 DEF Start, Fields, queries
<1>6. IsWalk(x') /\ Reached(x')
  BY <1>4, <1>5 DEF IsWalk, Reached
<1>7. Justified(store', x')
  BY <1>2, <1>3 DEF Justified, Untouched
<1>8. QED
  BY <1>2, <1>3, <1>5, <1>6, <1>7 DEF WalkIInv

\* What an exploring step has to show.
Walks ==
  /\ DOMAIN store = Keys /\ DOMAIN left = {"arxiv", "s2"} /\ left.s2 \in Nat
  /\ IsWalk(x) /\ Reached(x) /\ Justified(store, x)
  /\ x.calls + left.s2 = S2Budget
  /\ x.at = "search" => Untouched(store)

LEMMA Strolling ==
  ASSUME at = "explore"
  PROVE  WalkIInv <=> Walks
  BY DEF WalkIInv, Walks

LEMMA ExhaustedKeeps ==
  ASSUME NEW w, IsWalk(w)
  PROVE  LET v == Exhausted(w)
         IN  /\ IsWalk(v) /\ v.at = w.at /\ v.calls = w.calls
             /\ v.queries = w.queries /\ v.found = w.found /\ v.seeds = w.seeds /\ v.seed = w.seed
             /\ v.depth = w.depth /\ v.level = w.level /\ v.edge = w.edge /\ v.gathered = w.gathered
             /\ v.seen = w.seen /\ v.visited = w.visited
  BY DEF Exhausted, IsWalk, Fields

LEMMA SameReach ==
  ASSUME NEW w, NEW v, Reached(w), v.at = w.at, v.seeds = w.seeds, v.depth = w.depth, v.level = w.level,
         v.edge = w.edge, v.gathered = w.gathered
  PROVE  Reached(v)
<1>1. EffectiveDepth(v) = EffectiveDepth(w)
  BY DEF EffectiveDepth
<1>2. QED
  BY <1>1 DEF Reached

LEMMA SameJustice ==
  ASSUME NEW st, NEW w, NEW v, Justified(st, w), v.seeds = w.seeds, v.visited = w.visited
  PROVE  Justified(st, v)
<1>1. EffectiveDepth(v) = EffectiveDepth(w)
  BY DEF EffectiveDepth
<1>2. QED
  BY <1>1 DEF Justified, Justifies

LEMMA OneSlot ==
  ASSUME Walks, Granted
  PROVE  DOMAIN left' = {"arxiv", "s2"} /\ left'.s2 \in Nat /\ x.calls + 1 + left'.s2 = S2Budget
<1>1. DOMAIN left' = {"arxiv", "s2"} /\ left'.s2 = left.s2 - 1 /\ left.s2 > 0
  BY DEF Walks, Granted
<1>2. x.calls \in Nat /\ left.s2 \in Nat /\ x.calls + left.s2 = S2Budget
  BY DEF Walks, IsWalk
<1>3. QED
  BY <1>1, <1>2

LEMMA SearchWalks ==
  ASSUME Walks, SearchSeeds
  PROVE  Walks'
<1>1. store' = store /\ x.at = "search" /\ x.queries # <<>> /\ Untouched(store) /\ IsWalk(x)
  BY DEF SearchSeeds, Exploring, QueriesLeft, Walks
<1>2. CASE Refused /\ x' = Exhausted(x)
  <2>1. left' = left
    BY <1>2 DEF Refused
  <2>2. /\ IsWalk(x') /\ x'.at = x.at /\ x'.calls = x.calls /\ x'.seeds = x.seeds /\ x'.depth = x.depth
        /\ x'.level = x.level /\ x'.edge = x.edge /\ x'.gathered = x.gathered /\ x'.visited = x.visited
    BY <1>1, <1>2, ExhaustedKeeps
  <2>3. Reached(x') /\ Justified(store, x')
    BY <2>2, SameReach, SameJustice DEF Walks
  <2>4. QED
    BY <1>1, <2>1, <2>2, <2>3 DEF Walks
<1>3. ASSUME Granted, NEW reply, NEW written \in BOOLEAN,
             LET answer == SearchPapers(opts.s2, reply, SearchHits[Head(x.queries)])
             IN  x' = IF answer.ok THEN Searched(x, answer.found, written) ELSE SearchFailed(x)
      PROVE  Walks'
  <2> DEFINE entries == SearchHits[Head(x.queries)]
             answer  == SearchPapers(opts.s2, reply, entries)
             list    == answer.found
             keys    == IF answer.ok THEN PaperKeys(list) ELSE {}
             writes  == IF answer.ok THEN written ELSE FALSE
             q       == Called(x, keys, writes)
             new     == IF answer.ok THEN Unseen(list, Range(x.found)) ELSE <<>>
  <2>1. Tail(x.queries) \in Seq(DOMAIN SearchHits) /\ Head(x.queries) \in DOMAIN SearchHits
    <3> DEFINE Q == DOMAIN SearchHits
    <3>1. x.queries \in Seq(Q) /\ x.queries # <<>>
      BY <1>1 DEF IsWalk
    <3> HIDE DEF Q
    <3>2. Tail(x.queries) \in Seq(Q) /\ Head(x.queries) \in Q
      BY <3>1
    <3>3. QED
      BY <3>2 DEF Q
  <2>2. entries \in Seq(Papers \cup {None})
    BY <2>1, ExploreAssumption
  <2>3. list \in Seq(Papers)
    <3> HIDE DEF entries
    <3>1. QED
      BY <2>2, ListingIs DEF SearchPapers
  <2>4. x' = IF answer.ok THEN [q EXCEPT !.queries = Tail(@), !.found = @ \o Unseen(list, Range(@))]
                          ELSE [q EXCEPT !.queries = Tail(@)]
    BY <1>3 DEF Searched, SearchFailed
  <2> HIDE DEF entries
  <2>5. /\ IsWalk(q) /\ q.calls = x.calls + 1 /\ q.at = x.at /\ q.queries = x.queries /\ q.found = x.found
        /\ q.seeds = x.seeds /\ q.seed = x.seed /\ q.visited = x.visited
    <3> HIDE DEF keys, writes
    <3>1. QED
      BY <1>1, CalledKeeps
  <2>6. Unseen(list, Range(x.found)) \in Seq(Papers)
    BY <2>3, UnseenIs
  <2> HIDE DEF q, list, answer
  <2>7. /\ DOMAIN x' = Fields /\ x'.at = "search" /\ x'.queries = Tail(x.queries) /\ x'.seeds = x.seeds
        /\ x'.seed = x.seed /\ x'.calls = x.calls + 1 /\ x'.visited = x.visited
        /\ x'.found = IF answer.ok THEN x.found \o Unseen(list, Range(x.found)) ELSE x.found
    BY <1>1, <2>4, <2>5 DEF IsWalk, Fields
  <2>8. x'.found \in Seq(Papers)
    BY <1>1, <2>6, <2>7 DEF IsWalk
  <2>9. IsWalk(x') /\ Reached(x')
    BY <1>1, <2>1, <2>7, <2>8 DEF IsWalk, Reached
  <2>10. Justified(store, x')
    BY <2>7, SameJustice DEF Walks
  <2>11. DOMAIN left' = {"arxiv", "s2"} /\ left'.s2 \in Nat /\ x.calls + 1 + left'.s2 = S2Budget
    BY <1>3, OneSlot
  <2>12. QED
    BY <1>1, <2>7, <2>9, <2>10, <2>11 DEF Walks
<1>4. QED
  BY <1>2, <1>3 DEF SearchSeeds

LEMMA PickWalks ==
  ASSUME Walks, PickSeeds
  PROVE  Walks'
<1>1. store' = store /\ left' = left /\ x.at = "search" /\ Untouched(store) /\ IsWalk(x) /\ x' = Picked(x)
  BY DEF PickSeeds, Exploring, Walks
<1> DEFINE score == [i \in DOMAIN x.found |-> Count[x.found[i]]]
           best  == Take(ByScore(x.found, score), NumSeeds)
<1>2. best \in Seq(Papers)
  <2>1. \A i \in DOMAIN x.found : score[i] \in Int
    BY <1>1, ExploreAssumption DEF IsWalk
  <2> HIDE DEF score
  <2>2. ByScore(x.found, score) \in Seq(Papers)
    BY <1>1, <2>1, ByScoreIs DEF IsWalk
  <2>3. QED
    BY <2>2, TakeIs, ExploreAssumption
<1>3. x' = IF x.found = <<>> THEN [x EXCEPT !.at = "end"] ELSE [x EXCEPT !.at = "seed", !.seeds = best]
  BY <1>1 DEF Picked
<1> HIDE DEF best
<1>4. /\ DOMAIN x' = Fields /\ x'.at \in {"seed", "end"} /\ x'.queries = x.queries /\ x'.found = x.found
      /\ x'.seeds \in {best, x.seeds} /\ x'.seed = x.seed /\ x'.calls = x.calls
  BY <1>1, <1>3 DEF IsWalk, Fields
<1>5. IsWalk(x') /\ Reached(x')
  BY <1>1, <1>2, <1>4 DEF IsWalk, Reached
<1>6. Justified(store, x')
  BY <1>1 DEF Justified, Untouched
<1>7. QED
  BY <1>1, <1>4, <1>5, <1>6 DEF Walks

LEMMA VisitWalks ==
  ASSUME Walks, VisitSeed
  PROVE  Walks'
<1>1. left' = left /\ x.at = "seed" /\ x.seed <= Len(x.seeds) /\ IsWalk(x) /\ DOMAIN store = Keys /\ Justified(store, x)
  BY DEF VisitSeed, Exploring, MoreSeeds, Walks
<1>2. CASE x' = NextSeed(x) /\ store' = store
  <2>1. /\ IsWalk(x') /\ Reached(x') /\ x'.at = "seed"
        /\ x'.seeds = x.seeds /\ x'.visited = x.visited /\ x'.calls = x.calls
    BY <1>1, <1>2, NextSeedKeeps
  <2>2. Justified(store, x')
    BY <1>1, <2>1, SameJustice
  <2>3. QED
    BY <1>1, <1>2, <2>1, <2>2 DEF Walks
<1>3. ASSUME x' = Seeded(x), NEW whole, store' = Ingest(store, {x.seeds[x.seed]}, whole)
      PROVE  Walks'
  <2> DEFINE s == x.seeds[x.seed]
             w == [x EXCEPT !.visited = @ \cup {s}, !.seen = {s}]
  <2>1. s \in Papers /\ s \in Range(x.seeds)
    <3>1. x.seed \in DOMAIN x.seeds
      BY <1>1 DEF IsWalk
    <3>2. QED
      BY <1>1, <3>1 DEF IsWalk, Range
  <2>2. x' = Level(w, <<s>>, 1)
    BY <1>3 DEF Seeded
  <2> HIDE DEF s
  <2>3. /\ DOMAIN w = Fields /\ w.visited = x.visited \cup {s} /\ w.seeds = x.seeds /\ w.calls = x.calls
        /\ w.queries = x.queries /\ w.found = x.found /\ w.seed = x.seed
    BY <1>1 DEF IsWalk, Fields
  <2> HIDE DEF w
  <2>4. IsWalk(w)
    BY <1>1, <2>3 DEF IsWalk
  <2>5. <<s>> \in Seq(Papers) /\ Range(<<s>>) = {s}
    BY <2>1 DEF Range
  <2>6. Around(Range(x.seeds), 0) = Range(x.seeds)
    BY AroundIs
  <2>7. Range(<<s>>) \subseteq Around(Range(w.seeds), 1 - 1)
    BY <2>1, <2>3, <2>5, <2>6
  <2>8. /\ IsWalk(x') /\ Reached(x') /\ x'.at \in {"seed", "edge"}
        /\ x'.seeds = w.seeds /\ x'.visited = w.visited /\ x'.calls = w.calls
    <3>1. 1 \in Nat \ {0}
      OBVIOUS
    <3>2. QED
      BY <2>2, <2>4, <2>5, <2>7, <3>1, LevelKeeps
  <2>9. Justifies(x', s)
    <3>1. EffectiveDepth(x') \in Nat
      BY <2>8, DepthIs
    <3>2. s \in Around(Range(x.seeds), EffectiveDepth(x'))
      BY <2>1, <2>6, <3>1, AroundGrows
    <3>3. QED
      BY <2>1, <2>3, <2>8, <3>2 DEF Justifies
  <2>10. /\ DOMAIN store' = Keys
         /\ Gains(store, store', {s})
    BY <1>1, <1>3, IngestedOnly DEF s
  <2>11. Justified(store', x')
    <3>1. x'.seeds = x.seeds /\ x.visited \subseteq x'.visited
      BY <2>3, <2>8
    <3>2. \A p \in {s} : Justifies(x', p)
      BY <2>9
    <3>3. QED
      BY <1>1, <2>10, <3>1, <3>2, StaysJustified
  <2>12. QED
    BY <1>1, <2>3, <2>8, <2>10, <2>11 DEF Walks
<1>4. QED
  BY <1>2, <1>3 DEF VisitSeed

\* A list of what is one link from the level at hand.
LEMMA GatheredKeeps ==
  ASSUME NEW w, IsWalk(w), Reached(w), w.at = "edge", NEW list \in Seq(Papers),
         Range(list) \subseteq Around(Range(w.seeds), w.depth)
  PROVE  LET v == Gathered(w, list)
         IN  /\ IsWalk(v) /\ Reached(v) /\ v.at = "edge"
             /\ v.seeds = w.seeds /\ v.visited = w.visited /\ v.calls = w.calls
<1> DEFINE new == Unseen(list, w.seen \cup w.visited)
           v   == Gathered(w, list)
<1>1. v = [w EXCEPT !.edge = @ + 1, !.gathered = @ \o new, !.seen = @ \cup Range(new)]
  BY DEF Gathered
<1>2. new \in Seq(Papers) /\ Range(new) \subseteq Range(list)
  BY UnseenIs
<1> HIDE DEF new, v
<1>3. /\ DOMAIN v = Fields /\ v.at = "edge" /\ v.queries = w.queries /\ v.found = w.found /\ v.seeds = w.seeds
      /\ v.seed = w.seed /\ v.depth = w.depth /\ v.level = w.level /\ v.edge = w.edge + 1
      /\ v.gathered = w.gathered \o new /\ v.visited = w.visited /\ v.calls = w.calls
  BY <1>1 DEF IsWalk, Fields
<1>4. IsWalk(v)
  BY <1>3 DEF IsWalk
<1>5. /\ w.level \in Seq(Papers) /\ w.gathered \in Seq(Papers) /\ w.edge \in Nat \ {0}
      /\ w.depth \in 1 .. EffectiveDepth(w)
      /\ Range(w.level) \subseteq Around(Range(w.seeds), w.depth - 1)
      /\ Range(w.gathered) \subseteq Around(Range(w.seeds), w.depth)
  BY DEF Reached
<1>6. EffectiveDepth(v) = EffectiveDepth(w)
  BY <1>3 DEF EffectiveDepth
<1>7. v.gathered \in Seq(Papers) /\ Range(v.gathered) \subseteq Range(w.gathered) \cup Range(new)
  <2>1. Joins(w.gathered \o new, w.gathered, new)
    BY <1>2, <1>5, RangeIs, ListedConcat
  <2>2. w.gathered \o new \in Seq(Papers)
    BY <1>2, <1>5
  <2>3. QED
    BY <1>3, <2>1, <2>2 DEF Joins, Range
<1>8. Reached(v)
  <2>1. Range(v.gathered) \subseteq Around(Range(v.seeds), v.depth)
    BY <1>2, <1>3, <1>5, <1>7
  <2>2. v.edge \in Nat \ {0}
    BY <1>3, <1>5
  <2>3. QED
    BY <1>3, <1>5, <1>6, <1>7, <2>1, <2>2 DEF Reached
<1>9. QED
  BY <1>3, <1>4, <1>8 DEF v

LEMMA LinksOfTheLevel ==
  ASSUME NEW w, IsWalk(w), Reached(w), w.at = "edge", EdgesLeft(w)
  PROVE  /\ EdgeEntries(w) \in Seq(Papers \cup {None})
         /\ Range(EdgeEntries(w)) \subseteq Around(Range(w.seeds), w.depth)
<1> DEFINE i == (w.edge + 1) \div 2
           p == w.level[i]
           near == Around(Range(w.seeds), w.depth - 1)
<1>1. /\ w.level \in Seq(Papers) /\ w.edge \in Nat \ {0} /\ w.depth \in 1 .. EffectiveDepth(w)
      /\ Range(w.level) \subseteq near
  BY DEF Reached
<1>2. w.edge <= 2 * Len(w.level)
  BY DEF EdgesLeft
<1>3. i \in 1 .. Len(w.level)
  <2>1. Len(w.level) \in Nat
    BY <1>1
  <2>2. QED
    BY <1>1, <1>2, <2>1
<1>4. p \in Papers /\ p \in near
  BY <1>1, <1>3 DEF Range
<1>5. EdgeEntries(w) \in {References[p], Citations[p]}
  BY DEF EdgeEntries, EdgeOf
<1> HIDE DEF i, p, near
<1>6. Range(EdgeEntries(w)) \subseteq Neighbours(near)
  BY <1>4, <1>5, NextDoor
<1>7. Neighbours(near) = Around(Range(w.seeds), w.depth)
  <2>1. EffectiveDepth(w) \in Nat
    BY DepthIs
  <2>2. w.depth - 1 \in Nat /\ (w.depth - 1) + 1 = w.depth
    BY <1>1, <2>1
  <2>3. QED
    BY <2>2, AroundIs DEF near
<1>8. EdgeEntries(w) \in Seq(Papers \cup {None})
  BY <1>4, <1>5, ExploreAssumption
<1>9. QED
  BY <1>6, <1>7, <1>8

LEMMA FollowWalks ==
  ASSUME Walks, FollowEdge
  PROVE  Walks'
<1>1. /\ store' = store /\ x.at = "edge" /\ EdgesLeft(x) /\ IsWalk(x) /\ Reached(x)
      /\ DOMAIN store = Keys /\ Justified(store, x)
  BY DEF FollowEdge, Exploring, EdgesOpen, Walks
<1> DEFINE entries == EdgeEntries(x)
           near    == Around(Range(x.seeds), x.depth)
<1>2. entries \in Seq(Papers \cup {None}) /\ Range(entries) \subseteq near
  BY <1>1, LinksOfTheLevel
<1> HIDE DEF entries
\* Whatever was heard, and whether a slot was paid for it.
<1>3. ASSUME NEW w, IsWalk(w), Reached(w), w.at = "edge", w.seeds = x.seeds, w.depth = x.depth,
             w.visited = x.visited,
             NEW list \in Seq(Papers), Range(list) \subseteq near, x' = Gathered(w, list)
      PROVE  /\ IsWalk(x') /\ Reached(x') /\ x'.at = "edge" /\ x'.calls = w.calls /\ Justified(store', x')
  <2>1. /\ IsWalk(x') /\ Reached(x') /\ x'.at = "edge"
        /\ x'.seeds = w.seeds /\ x'.visited = w.visited /\ x'.calls = w.calls
    BY <1>3, GatheredKeeps
  <2>2. Justified(store, x')
    BY <1>1, <1>3, <2>1, SameJustice
  <2>3. QED
    BY <1>1, <2>1, <2>2
<1>4. CASE EdgeCached(x) /\ x' = Gathered(x, Full(entries)) /\ left' = left
  <2>1. Full(entries) \in Seq(Papers) /\ Range(Full(entries)) \subseteq near
    BY <1>2, FullIs
  <2>2. /\ IsWalk(x') /\ Reached(x') /\ x'.at = "edge" /\ x'.calls = x.calls /\ Justified(store', x')
    BY <1>1, <1>3, <1>4, <2>1
  <2>3. QED
    BY <1>1, <1>4, <2>2 DEF Walks
<1>5. CASE Refused /\ x' = Exhausted(x)
  <2>1. left' = left
    BY <1>5 DEF Refused
  <2>2. /\ IsWalk(x') /\ x'.at = x.at /\ x'.calls = x.calls /\ x'.seeds = x.seeds /\ x'.depth = x.depth
        /\ x'.level = x.level /\ x'.edge = x.edge /\ x'.gathered = x.gathered /\ x'.visited = x.visited
    BY <1>1, <1>5, ExhaustedKeeps
  <2>3. Reached(x') /\ Justified(store, x')
    BY <1>1, <2>2, SameReach, SameJustice
  <2>4. QED
    BY <1>1, <2>1, <2>2, <2>3 DEF Walks
<1>6. ASSUME Granted, NEW reply, NEW written \in BOOLEAN,
             LET answer == EdgeAnswer(x, opts.s2, reply)
             IN  x' = IF answer.ok THEN Fetched(x, answer.found, written) ELSE FetchFailed(x)
      PROVE  Walks'
  <2> DEFINE answer == EdgeAnswer(x, opts.s2, reply)
             list   == IF answer.ok THEN answer.found ELSE <<>>
             keys   == IF answer.ok THEN PaperKeys(answer.found) \cup {EdgeKey(EdgeKind(x), EdgeOf(x))} ELSE {}
             writes == IF answer.ok THEN written ELSE FALSE
             w      == Called(x, keys, writes)
  <2>1. x' = Gathered(w, list)
    BY <1>6 DEF Fetched, FetchFailed
  <2>2. answer = Listing(opts.s2, reply, entries)
    BY DEF EdgeAnswer, GetReferences, GetCitations, entries
  <2>3. answer.found \in Seq(Papers) /\ Range(answer.found) \subseteq near
    BY <1>2, <2>2, ListingIs
  <2> HIDE DEF answer, keys, writes
  <2>4. list \in Seq(Papers) /\ Range(list) \subseteq near
    <3>1. <<>> \in Seq(Papers) /\ Range(<<>>) = {}
      BY DEF Range
    <3> HIDE DEF near
    <3>2. QED
      BY <2>3, <3>1
  <2>5. /\ IsWalk(w) /\ w.calls = x.calls + 1 /\ w.at = x.at
        /\ w.seeds = x.seeds /\ w.depth = x.depth /\ w.level = x.level /\ w.edge = x.edge
        /\ w.gathered = x.gathered /\ w.visited = x.visited
    BY <1>1, CalledKeeps
  <2> HIDE DEF w, list, near
  <2>6. Reached(w) /\ w.at = "edge"
    BY <1>1, <2>5, SameReach
  <2>7. /\ IsWalk(x') /\ Reached(x') /\ x'.at = "edge" /\ x'.calls = w.calls /\ Justified(store', x')
    BY <1>3, <2>1, <2>4, <2>5, <2>6
  <2>8. DOMAIN left' = {"arxiv", "s2"} /\ left'.s2 \in Nat /\ x.calls + 1 + left'.s2 = S2Budget
    BY <1>6, OneSlot
  <2>9. QED
    BY <1>1, <2>5, <2>7, <2>8 DEF Walks
<1>7. QED
  BY <1>4, <1>5, <1>6 DEF FollowEdge, entries

LEMMA DescendedKeeps ==
  ASSUME NEW w, IsWalk(w), Reached(w), w.at = "edge", NEW papers \in Seq(Papers),
         Range(papers) \subseteq Range(w.gathered), \A p \in Range(papers) : Similar[p] >= MinRelevance
  PROVE  LET v == Descended(w, papers)
         IN  /\ IsWalk(v) /\ Reached(v) /\ v.at \in {"seed", "edge"} /\ v.seeds = w.seeds
             /\ v.calls = w.calls /\ w.visited \subseteq v.visited
             /\ \A p \in Range(papers) : Justifies(v, p)
<1> DEFINE q == [w EXCEPT !.visited = @ \cup Range(papers)]
           v == Descended(w, papers)
           near == Around(Range(w.seeds), w.depth)
<1>1. v = Level(q, papers, w.depth + 1)
  BY DEF Descended
<1>2. /\ DOMAIN q = Fields /\ q.queries = w.queries /\ q.found = w.found /\ q.seeds = w.seeds /\ q.seed = w.seed
      /\ q.calls = w.calls /\ q.visited = w.visited \cup Range(papers)
  BY DEF IsWalk, Fields
<1> HIDE DEF q, v, near
<1>3. IsWalk(q)
  BY <1>2 DEF IsWalk
<1>4. EffectiveDepth(w) \in Nat /\ w.depth \in 1 .. EffectiveDepth(w) /\ Range(w.gathered) \subseteq near
  BY DepthIs DEF Reached, near
<1>5. w.depth + 1 \in Nat \ {0} /\ (w.depth + 1) - 1 = w.depth /\ w.depth \in Nat /\ w.depth <= EffectiveDepth(w)
  BY <1>4
<1>6. Range(papers) \subseteq Around(Range(q.seeds), (w.depth + 1) - 1)
  BY <1>2, <1>4, <1>5 DEF near
<1>7. /\ IsWalk(v) /\ Reached(v) /\ v.at \in {"seed", "edge"}
      /\ v.seeds = q.seeds /\ v.visited = q.visited /\ v.calls = q.calls
  BY <1>1, <1>3, <1>5, <1>6, LevelKeeps
<1>8. near \subseteq Around(Range(w.seeds), EffectiveDepth(w))
  BY <1>4, <1>5, AroundGrows DEF near
<1>9. EffectiveDepth(v) = EffectiveDepth(w)
  BY <1>2, <1>7 DEF EffectiveDepth
<1>10. \A p \in Range(papers) : Justifies(v, p)
  BY <1>2, <1>4, <1>7, <1>8, <1>9 DEF Justifies
<1>11. QED
  BY <1>2, <1>7, <1>10 DEF v

LEMMA DescendWalks ==
  ASSUME Walks, Descend
  PROVE  Walks'
<1>1. /\ x.at = "edge" /\ IsWalk(x) /\ Reached(x) /\ DOMAIN store = Keys /\ Justified(store, x)
      /\ DOMAIN left = {"arxiv", "s2"} /\ left.s2 \in Nat /\ x.calls + left.s2 = S2Budget
  BY DEF Descend, Exploring, Walks
<1>2. CASE x' = NextSeed(x) /\ left' = left /\ store' = store
  <2>1. /\ IsWalk(x') /\ Reached(x') /\ x'.at = "seed"
        /\ x'.seeds = x.seeds /\ x'.visited = x.visited /\ x'.calls = x.calls
    BY <1>1, <1>2, NextSeedKeeps
  <2>2. Justified(store, x')
    BY <1>1, <2>1, SameJustice
  <2>3. QED
    BY <1>1, <1>2, <2>1, <2>2 DEF Walks
<1>3. CASE Refused /\ x' = NextSeed(Exhausted(x)) /\ store' = store
  <2> DEFINE w == Exhausted(x)
  <2>1. IsWalk(w) /\ w.calls = x.calls /\ w.seeds = x.seeds /\ w.visited = x.visited
    BY <1>1, ExhaustedKeeps
  <2> HIDE DEF w
  <2>2. /\ IsWalk(x') /\ Reached(x') /\ x'.at = "seed"
        /\ x'.seeds = x.seeds /\ x'.visited = x.visited /\ x'.calls = x.calls
    BY <1>3, <2>1, NextSeedKeeps DEF w
  <2>3. Justified(store, x') /\ left' = left
    BY <1>1, <1>3, <2>2, SameJustice DEF Refused
  <2>4. QED
    BY <1>1, <1>3, <2>2, <2>3 DEF Walks
\* The level found, whether it was paid for or not.
<1>4. ASSUME NEW w, IsWalk(w), Reached(w), w.at = "edge", w.seeds = x.seeds, w.visited = x.visited,
             w.gathered = x.gathered, NEW papers \in Seq(Papers), Range(papers) \subseteq Range(x.gathered),
             \A p \in Range(papers) : Similar[p] >= MinRelevance,
             x' = Descended(w, papers), NEW whole, store' = Ingest(store, Range(papers), whole)
      PROVE  /\ IsWalk(x') /\ Reached(x') /\ x'.at # "search" /\ x'.calls = w.calls
             /\ DOMAIN store' = Keys /\ Justified(store', x')
  <2>1. /\ IsWalk(x') /\ Reached(x') /\ x'.at \in {"seed", "edge"} /\ x'.seeds = w.seeds
        /\ x'.calls = w.calls /\ w.visited \subseteq x'.visited
        /\ \A p \in Range(papers) : Justifies(x', p)
    BY <1>4, DescendedKeeps
  <2>2. /\ DOMAIN store' = Keys
        /\ Gains(store, store', Range(papers))
    BY <1>1, <1>4, IngestedOnly
  <2>3. x'.seeds = x.seeds /\ x.visited \subseteq x'.visited
    BY <1>4, <2>1
  <2>4. Justified(store', x')
    BY <1>1, <2>1, <2>2, <2>3, StaysJustified
  <2>5. QED
    BY <2>1, <2>2, <2>4
<1>5. ASSUME x.gathered # <<>>, NEW backwards \in BOOLEAN,
             LET won     == Winners(x, Scores(x, backwards))
                 missing == Missing(x, won)
             IN \/ /\ missing = {} /\ UNCHANGED left
                   /\ x' = Descended(x, won)
                   /\ \E whole \in Wholes(Range(won)) : store' = Ingest(store, Range(won), whole)
                \/ /\ missing # {} /\ Granted
                   /\ \E reply \in Replies, known \in SUBSET missing, written \in BOOLEAN :
                        LET got    == Range(GetPapersBatch(opts.s2, reply, SetToSeq(missing), known).found)
                            papers == Unseen(won, missing \ got)
                        IN
                        /\ x' = Descended(Called(x, {PaperKey(p) : p \in got}, written), papers)
                        /\ \E whole \in Wholes(Range(papers)) : store' = Ingest(store, Range(papers), whole)
      PROVE  Walks'
  <2> DEFINE won     == Winners(x, Scores(x, backwards))
             missing == Missing(x, won)
  <2>1. x.gathered \in Seq(Papers)
    BY <1>1 DEF Reached
  <2>2. /\ won \in Seq(Papers) /\ Range(won) \subseteq Range(x.gathered)
        /\ \A p \in Range(won) : Similar[p] >= MinRelevance
    BY <1>5, <2>1, WinnersAreNear
  <2>3. \/ /\ left' = left /\ x' = Descended(x, won)
           /\ \E whole : store' = Ingest(store, Range(won), whole)
        \/ /\ Granted
           /\ \E got, keys, written, whole :
                LET papers == Unseen(won, missing \ got)
                IN  /\ x' = Descended(Called(x, keys, written), papers)
                    /\ store' = Ingest(store, Range(papers), whole)
    BY <1>5, Zenon
  <2> HIDE DEF won, missing
  <2>4. ASSUME left' = left, x' = Descended(x, won), NEW whole, store' = Ingest(store, Range(won), whole)
        PROVE  Walks'
    <3>1. /\ IsWalk(x') /\ Reached(x') /\ x'.at # "search" /\ x'.calls = x.calls
          /\ DOMAIN store' = Keys /\ Justified(store', x')
      BY <1>1, <1>4, <2>2, <2>4
    <3>2. QED
      BY <1>1, <2>4, <3>1 DEF Walks
  <2>5. ASSUME Granted, NEW got, NEW keys, NEW written, NEW whole,
               LET papers == Unseen(won, missing \ got)
               IN  /\ x' = Descended(Called(x, keys, written), papers)
                   /\ store' = Ingest(store, Range(papers), whole)
        PROVE  Walks'
    <3> DEFINE papers == Unseen(won, missing \ got)
               w      == Called(x, keys, written)
    <3>1. x' = Descended(w, papers) /\ store' = Ingest(store, Range(papers), whole)
      BY <2>5
    <3>2. papers \in Seq(Papers) /\ Range(papers) \subseteq Range(won)
      BY <2>2, UnseenIs
    <3>3. /\ IsWalk(w) /\ w.calls = x.calls + 1 /\ w.at = x.at
          /\ w.seeds = x.seeds /\ w.depth = x.depth /\ w.level = x.level /\ w.edge = x.edge
          /\ w.gathered = x.gathered /\ w.visited = x.visited
      BY <1>1, CalledKeeps
    <3> HIDE DEF w, papers
    <3>4. Reached(w) /\ w.at = "edge"
      BY <1>1, <3>3, SameReach
    <3>5. Range(papers) \subseteq Range(x.gathered) /\ \A p \in Range(papers) : Similar[p] >= MinRelevance
      BY <2>2, <3>2
    <3>6. /\ IsWalk(x') /\ Reached(x') /\ x'.at # "search" /\ x'.calls = w.calls
          /\ DOMAIN store' = Keys /\ Justified(store', x')
      BY <1>4, <3>1, <3>2, <3>3, <3>4, <3>5
    <3>7. DOMAIN left' = {"arxiv", "s2"} /\ left'.s2 \in Nat /\ x.calls + 1 + left'.s2 = S2Budget
      BY <2>5, OneSlot
    <3>8. QED
      BY <3>3, <3>6, <3>7 DEF Walks
  <2>6. QED
    BY <2>3, <2>4, <2>5
<1>6. QED
  <2> DEFINE Told(b) == LET missing == Missing(x, Winners(x, Scores(x, b)))
                        IN  missing # {} /\ Refused /\ x' = NextSeed(Exhausted(x)) /\ UNCHANGED store
             Found(b) == LET won     == Winners(x, Scores(x, b))
                             missing == Missing(x, won)
                         IN \/ /\ missing = {} /\ UNCHANGED left
                               /\ x' = Descended(x, won)
                               /\ \E whole \in Wholes(Range(won)) : store' = Ingest(store, Range(won), whole)
                            \/ /\ missing # {} /\ Granted
                               /\ \E reply \in Replies, known \in SUBSET missing, written \in BOOLEAN :
                                    LET got    == Range(GetPapersBatch(opts.s2, reply, SetToSeq(missing), known).found)
                                        papers == Unseen(won, missing \ got)
                                    IN
                                    /\ x' = Descended(Called(x, {PaperKey(p) : p \in got}, written), papers)
                                    /\ \E whole \in Wholes(Range(papers)) : store' = Ingest(store, Range(papers), whole)
  <2>1. \/ x' = NextSeed(x) /\ UNCHANGED <<left, store>>
        \/ x.gathered # <<>> /\ \E b \in BOOLEAN : Told(b) \/ Found(b)
    BY ZenonT(60) DEF Descend
  <2>2. ASSUME NEW b \in BOOLEAN, Told(b) PROVE Refused /\ x' = NextSeed(Exhausted(x)) /\ store' = store
    BY <2>2
  <2>3. ASSUME x.gathered # <<>>, NEW b \in BOOLEAN, Found(b) PROVE Walks'
    BY <1>5, <2>3, Zenon
  <2> HIDE DEF Told, Found
  <2>4. QED
    BY <1>2, <1>3, <2>1, <2>2, <2>3

LEMMA WalkStep == WalkIInv /\ [Next]_vars => WalkIInv'
<1> SUFFICES ASSUME WalkIInv, [Next]_vars PROVE WalkIInv'
  OBVIOUS
<1>1. CASE IngestFile
  BY <1>1, FilesAreLocal
<1>2. CASE Decompose
  BY <1>2, ExplorationStarts
<1>3. CASE SearchSeeds \/ PickSeeds \/ VisitSeed \/ FollowEdge \/ Descend
  <2>1. at = "explore" /\ at' = "explore"
    BY <1>3 DEF SearchSeeds, PickSeeds, VisitSeed, FollowEdge, Descend, ExploreFrame, Exploring
  <2>2. Walks
    BY <2>1, Strolling
  <2>3. Walks'
    BY <1>3, <2>2, SearchWalks, PickWalks, VisitWalks, FollowWalks, DescendWalks
  <2>4. QED
    BY <2>1, <2>3 DEF WalkIInv, Walks
<1>4. CASE Submit
  <2>1. at = "files" /\ at' # "explore" /\ store' = store /\ left' = left
    BY <1>4 DEF Submit, ToEmbed
  <2>2. QED
    BY <2>1 DEF WalkIInv
<1>5. CASE Send \/ Over \/ UNCHANGED vars
  BY <1>5 DEF Send, Over, vars, WalkIInv
<1>6. CASE at' \notin {"files", "decompose", "explore"}
  BY <1>6 DEF WalkIInv
<1>7. CASE ResolveSeed \/ SeedsResolved \/ Explored \/ StartLanes \/ Fuse \/ Rerank \/ Trim
  <2>1. at' \in {"seeds", "done", "promote", "build", "embed", "lanes", "rerank", "trim", "gate"}
    BY <1>7 DEF ResolveSeed, SeedsResolved, Bail, Explored, ToEmbed, StartLanes, Answered, Fuse, Rerank, Trim
  <2>2. QED
    BY <1>6, <2>1
<1>8. CASE Promote \/ OpenGate \/ Screen \/ Build \/ RunEngine
  <2>1. at' \in {"gate", "build", "screen", "engine", "done", "failed"}
    BY <1>8 DEF Promote, OpenGate, Screen, Build, Bail, RunEngine
  <2>2. QED
    BY <1>6, <2>1
<1>9. ASSUME NEW l \in Lanes, CallLane(l) \/ PersistNext(l) \/ LeaveStore(l) \/ SearchStore(l)
      PROVE  WalkIInv'
  <2>1. at' = "lanes"
    BY <1>9 DEF CallLane, PersistNext, LeaveStore, SearchStore, InLane, LaneFrame
  <2>2. QED
    BY <1>6, <2>1
<1>10. QED
  BY <1>1, <1>2, <1>3, <1>4, <1>5, <1>7, <1>8, <1>9 DEF Next, Lanes

\* Stage 0 books every call it makes, and what it leaves in the store is a seed or
\* resembles the question, was visited, and is no more links away from the seeds than
\* the depth it may go (lit_explore.rs: explore).
THEOREM StageZeroStaysNear == Spec => []ExploreStaysNear
<1>1. WalkIInv => ExploreStaysNear
  BY DEF WalkIInv, Justified, Justifies, ExploreStaysNear
<1>2. QED
  BY <1>1, WalkInit, WalkStep, PTL DEF Spec
=============================================================================
