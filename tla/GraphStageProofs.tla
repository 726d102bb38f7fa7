-------------------------- MODULE GraphStageProofs --------------------------
(***************************************************************************)
(* Theorems about GraphStage, for any panel, papers, texts, answers,       *)
(* permits, steps and faults: the semaphore, what a sibling's failure      *)
(* leaves alone, what "verified" and "hard fail" are worth when they are   *)
(* read, and what the refresh does to the panel.                           *)
(***************************************************************************)
EXTENDS GraphStage, FiniteSetTheorems, TLAPS

LEMMA Panel == IsFiniteSet(Expert) /\ Expert # {} /\ Expert \subseteq Paper /\ None \notin Paper
  BY GraphAssumption, FS_Subset

LEMMA Sizes == Rounds \in Nat /\ 0 \in 0 .. Rounds /\ Permits \in Nat /\ Cap \in Nat
  BY GraphAssumption

LEMMA Enough ==
  ASSUME NEW ps \in SUBSET Paper
  PROVE  \A k \in 1 .. Cardinality(ps) : k \in 1 .. Cardinality(Paper)
<1>1. Cardinality(ps) \in Nat /\ Cardinality(Paper) \in Nat /\ Cardinality(ps) <= Cardinality(Paper)
  BY GraphAssumption, FS_Subset, FS_CardinalityType
<1>2. QED
  BY <1>1

LEMMA OneMoreStep ==
  ASSUME NEW n \in 0 .. Rounds, n < Rounds
  PROVE  n + 1 \in 0 .. Rounds
  BY Sizes

Held == {e \in Expert : task[e] = "running"}

LEMMA HeldFinite == IsFiniteSet(Held) /\ Cardinality(Held) \in Nat
<1>1. Held \subseteq Expert
  BY DEF Held
<1>2. QED
  BY <1>1, Panel, FS_Subset, FS_CardinalityType
-----------------------------------------------------------------------------
(***************************************************************************)
(* What each action does to the nodes.                                     *)
(***************************************************************************)
LEMMA MergeAdds ==
  ASSUME NEW ns, NEW more, NEW after \in Merges(ns, more)
  PROVE  ns \subseteq after /\ after \subseteq ns \cup more /\ Ids(after) = Ids(ns) \cup Ids(more)
<1>1. PICK pick \in SUBSET {n \in more : n.id \notin Ids(ns)} :
        after = ns \cup pick /\ Ids(pick) = Ids({n \in more : n.id \notin Ids(ns)})
  BY DEF Merges
<1>2. Ids(more) \subseteq Ids(ns) \cup Ids(pick)
  BY <1>1 DEF Ids
<1>3. QED
  BY <1>1, <1>2 DEF Ids

LEMMA ExtractedIs ==
  ASSUME NEW e \in Expert, NEW answer \in Answers[e]
  PROVE  /\ Extracted(e, answer) \subseteq Node
         /\ \A n \in Extracted(e, answer) : n.status = "none"
<1>1. answer \subseteq [id : Id, quote : Passage \cup {None}] /\ Scope[e] \in [Id -> Id]
  BY GraphAssumption
<1>2. e \in Paper /\ 0 \in 0 .. Rounds
  BY GraphAssumption
<1>3. QED
  BY <1>1, <1>2 DEF Extracted, Node, Status

Stamped(n) ==
  [n EXCEPT !.status =
     IF n.quote = None THEN "unverified"
     ELSE QuoteStatus(n.quote, IF n.source \in Expert THEN Prose[n.source] ELSE {})]

LEMMA StampedIs ==
  ASSUME NEW n \in Node
  PROVE  /\ Stamped(n) \in Node /\ Stamped(n).id = n.id /\ Stamped(n).source = n.source
         /\ Stamped(n).status = "verified" =>
              /\ Stamped(n).quote # None
              /\ Stamped(n).source \in Expert /\ Stamped(n).quote \in Prose[Stamped(n).source]
  BY DEF Stamped, Node, QuoteStatus, Status

LEMMA VerifiedIs ==
  ASSUME NEW ns \in SUBSET Node
  PROVE  /\ Verified(ns) \subseteq Node /\ Ids(Verified(ns)) = Ids(ns)
         /\ \A n \in Verified(ns) : n.status = "verified" =>
              n.quote # None /\ n.source \in Expert /\ n.quote \in Prose[n.source]
<1>1. Verified(ns) = {Stamped(n) : n \in ns}
  BY DEF Verified, Stamped
<1>2. Ids(Verified(ns)) = {Stamped(n).id : n \in ns}
  BY <1>1 DEF Ids
<1>3. \A n \in ns : Stamped(n).id = n.id
  BY StampedIs
<1>4. Ids(Verified(ns)) = Ids(ns)
  BY <1>2, <1>3 DEF Ids
<1>5. QED
  BY <1>1, <1>4, StampedIs

Rechecked(n, found) ==
  IF n.quote = None THEN n
  ELSE [n EXCEPT !.status = IF n.source \in found THEN QuoteStatus(n.quote, Stored[n.source])
                            ELSE "absent"]

LEMMA RecheckedIs ==
  ASSUME NEW n \in Node, NEW found \in SUBSET Paper,
         n.status = "verified" => n.quote # None
  PROVE  /\ Rechecked(n, found) \in Node
         /\ Rechecked(n, found).id = n.id /\ Rechecked(n, found).source = n.source
         /\ Rechecked(n, found).status = "verified" =>
              /\ Rechecked(n, found).quote # None /\ Rechecked(n, found).source \in Paper
              /\ Rechecked(n, found).quote \in Stored[Rechecked(n, found).source]
  BY DEF Rechecked, Node, QuoteStatus, Status

LEMMA RecheckTyped ==
  ASSUME NEW ns \in SUBSET Node, NEW found \in SUBSET Paper
  PROVE  Recheck(ns, found) \subseteq Node /\ Ids(Recheck(ns, found)) = Ids(ns)
<1>1. \A n \in ns : Rechecked(n, found) \in Node /\ Rechecked(n, found).id = n.id
  BY DEF Rechecked, Node, QuoteStatus, Status
<1>2. Recheck(ns, found) = {Rechecked(n, found) : n \in ns}
  BY DEF Recheck, Rechecked
<1>3. Ids(Recheck(ns, found)) = {Rechecked(n, found).id : n \in ns}
  BY <1>2 DEF Ids
<1>4. QED
  BY <1>1, <1>2, <1>3 DEF Ids

LEMMA RecheckIs ==
  ASSUME NEW ns \in SUBSET Node, NEW found \in SUBSET Paper,
         \A n \in ns : n.status = "verified" => n.quote # None
  PROVE  \A n \in Recheck(ns, found) : n.status = "verified" =>
           n.quote # None /\ n.source \in Paper /\ n.quote \in Stored[n.source]
<1>1. Recheck(ns, found) = {Rechecked(n, found) : n \in ns}
  BY DEF Recheck, Rechecked
<1>2. QED
  BY <1>1, RecheckedIs

LEMMA AddedIs ==
  ASSUME TypeOK, NEW more \in Added
  PROVE  more \subseteq Node /\ \A n \in more : n.status = "none"
<1>1. NewId \in Id /\ retrieved \subseteq Paper /\ round \in 0 .. Rounds
  BY GraphAssumption DEF TypeOK
<1>2. [id : {NewId}, source : retrieved \cup {None}, quote : {None}, status : {"none"},
       round : {round}] \subseteq Node
  BY <1>1 DEF Node, Status
<1>3. QED
  BY <1>2 DEF Added

LEMMA RestatedIs ==
  ASSUME NEW n \in Node, NEW guess \in Guesses
  PROVE  Restated(n, guess) \in Node /\ Restated(n, guess).status = "none"
<1>1. guess.quote \in Passage \cup {None}
  BY GraphAssumption
<1>2. QED
  BY <1>1 DEF Restated, Node, Status
-----------------------------------------------------------------------------
(***************************************************************************)
(* Type correctness, and the order of the phases that it needs: a verdict  *)
(* is asked for only while a step is left, the store is looked at last.    *)
(***************************************************************************)
Ordered ==
  /\ phase = "judged" => round < Rounds
  /\ looked => phase \in {"reverified", "done"}

OTyped == TypeOK /\ Ordered

LEMMA TypedInit == Init => OTyped
<1>1. Profiles \subseteq {"v1", "lit"}
  BY GraphAssumption
<1>2. QED
  BY <1>1, Sizes DEF Init, OTyped, TypeOK, Ordered, Phase

LEMMA ExtractTyped ==
  ASSUME OTyped, NEW e \in Expert, Acquire(e) \/ Extract(e) \/ ExtractFail(e)
  PROVE  OTyped'
<1> USE DEF OTyped, TypeOK, Ordered, Phase
<1>1. CASE Acquire(e)
  BY <1>1 DEF Acquire
<1>2. CASE ExtractFail(e)
  BY <1>2 DEF ExtractFail
<1>3. CASE Extract(e)
  <2>1. PICK answer \in Answers[e] : /\ nodes' \in Merges(nodes, Extracted(e, answer))
                                     /\ heard' = heard \cup Ids(Extracted(e, answer))
    BY <1>3 DEF Extract
  <2>2. nodes' \subseteq nodes \cup Extracted(e, answer)
    <3> HIDE DEF OTyped, TypeOK, Ordered, Phase
    <3> DEFINE ns == nodes  more == Extracted(e, answer)  after == nodes'
    <3>1. after \in Merges(ns, more)
      BY <2>1
    <3> HIDE DEF ns, more, after
    <3>2. after \subseteq ns \cup more
      BY <3>1, MergeAdds
    <3>3. QED
      BY <3>2 DEF ns, more, after
  <2>a. nodes' \subseteq Node
    BY <2>2, ExtractedIs
  <2>3. heard' \subseteq Id
    BY <2>1, ExtractedIs DEF Ids, Node
  <2>4. QED
    BY <1>3, <2>a, <2>3 DEF Extract
<1>4. QED
  BY <1>1, <1>2, <1>3

LEMMA JudgedTyped ==
  ASSUME OTyped, Joined \/ Relate \/ Evaluate \/ Identify \/ IdentifyFail \/ Settle
  PROVE  OTyped'
<1> USE DEF OTyped, TypeOK, Ordered, Phase
<1>1. CASE Joined
  BY <1>1, VerifiedIs DEF Joined
<1>2. CASE Relate
  <2>1. edges' \subseteq Id \X Id
    BY <1>2, GraphAssumption DEF Relate, EdgesRead
  <2>2. nodes' \subseteq Node
    BY <1>2, VerifiedIs DEF Relate
  <2>3. QED
    BY <1>2, <2>1, <2>2 DEF Relate
<1>3. CASE Evaluate
  BY <1>3 DEF Evaluate, Feedback
<1>4. CASE Identify
  <2>0. phase = "judged" /\ round' = round + 1
    BY <1>4 DEF Identify
  <2>1. ~looked /\ round' \in 0 .. Rounds
    BY <2>0, OneMoreStep
  <2>2. phase' \in {"ready", "patch", "regen"} /\ retrieved' \subseteq Paper
    BY <1>4 DEF Identify
  <2>3. TypeOK'
    BY <1>4, <2>1, <2>2 DEF Identify
  <2>4. QED
    BY <1>4, <2>0, <2>1, <2>2, <2>3 DEF Identify
<1>5. CASE IdentifyFail \/ Settle
  <2>1. ~looked /\ phase' \in {"aborted", "machine_done"}
    BY <1>5 DEF IdentifyFail, Settle
  <2>2. TypeOK'
    BY <1>5, <2>1 DEF IdentifyFail, Settle
  <2>3. QED
    BY <1>5, <2>1, <2>2 DEF IdentifyFail, Settle
<1>6. QED
  BY <1>1, <1>2, <1>3, <1>4, <1>5

LEMMA ResolvedTyped ==
  ASSUME OTyped, Patch \/ PatchFail \/ Regenerate \/ Heuristic
  PROVE  OTyped'
<1> USE DEF OTyped, TypeOK, Ordered, Phase
<1>1. CASE Patch
  BY <1>1, AddedIs DEF Patch
<1>2. CASE PatchFail
  BY <1>2 DEF PatchFail
<1>3. CASE Regenerate
  <2>1. PICK kept \in SUBSET nodes, guess \in Guesses, source \in retrieved \cup {None} :
          nodes' = {Restated(n, guess) : n \in kept}
                   \cup {[id |-> NewId, source |-> source, quote |-> guess.quote, status |-> "none",
                          round |-> round]}
    BY <1>3 DEF Regenerate
  <2>2. [id |-> NewId, source |-> source, quote |-> guess.quote, status |-> "none", round |-> round]
          \in Node
    BY GraphAssumption DEF Node, Status
  <2>3. nodes' \subseteq Node
    BY <2>1, <2>2, RestatedIs
  <2>4. QED
    BY <1>3, <2>3 DEF Regenerate
<1>4. CASE Heuristic
  <2>1. PICK place \in Orders(retrieved) :
          nodes' = nodes \cup {[id |-> HeuristicId[place[p]], source |-> p, quote |-> None,
                               status |-> "unverified", round |-> round] : p \in retrieved}
    BY <1>4 DEF Heuristic
  <2>2. \A p \in retrieved : HeuristicId[place[p]] \in Id
    <3>2. \A p \in retrieved : place[p] \in 1 .. Cardinality(retrieved)
      BY DEF Orders
    <3>a. \A p \in retrieved : place[p] \in 1 .. Cardinality(Paper)
      BY <3>2, Enough
    <3>3. QED
      BY <3>a, GraphAssumption
  <2>a. \A p \in retrieved : [id |-> HeuristicId[place[p]], source |-> p, quote |-> None,
                              status |-> "unverified", round |-> round] \in Node
    BY <2>2 DEF Node, Status
  <2>3. nodes' \subseteq Node
    BY <2>1, <2>a
  <2>4. QED
    BY <1>4, <2>3 DEF Heuristic
<1>5. QED
  BY <1>1, <1>2, <1>3, <1>4

Sources(ns) == {n.source : n \in ns}

LEMMA LookedIs ==
  ASSUME NEW ids \in SUBSET (Paper \cup {None}), NEW asked \in Looked(ids)
  PROVE  asked \subseteq Paper /\ asked \subseteq ids /\ WithText(asked) \subseteq asked
  BY DEF Looked, WithText

LEMMA EngineTyped ==
  ASSUME OTyped, Reverify \/ ReverifyFail \/ Refresh \/ RefreshFail
  PROVE  OTyped'
<1> USE DEF OTyped, TypeOK, Ordered, Phase
<1>1. CASE Reverify
  <2> DEFINE quoted == Sources({m \in nodes : m.quote # None})
  <2>1. PICK asked \in Looked(quoted) : nodes' = Recheck(nodes, WithText(asked))
    BY <1>1 DEF Reverify, Sources
  <2>2. quoted \in SUBSET (Paper \cup {None})
    BY DEF Node, Sources
  <2>3. WithText(asked) \subseteq Paper
    <3> HIDE DEF quoted, OTyped
    <3>1. QED
      BY <2>1, <2>2, LookedIs
  <2>4. nodes' \subseteq Node
    BY <2>1, <2>3, RecheckTyped
  <2>5. QED
    BY <1>1, <2>4 DEF Reverify
<1>2. CASE ReverifyFail
  BY <1>2 DEF ReverifyFail
<1>3. CASE Refresh
  <2> DEFINE wanted == Expert \cup Sources(nodes)
  <2>1. wanted \in SUBSET (Paper \cup {None})
    BY Panel DEF Sources, Node
  <2>2. PICK asked \in Looked(wanted) :
          panel' = IF WithText(asked) = {} THEN Expert ELSE WithText(asked)
    BY <1>3 DEF Refresh, Sources
  <2>3. panel' \subseteq Paper
    <3> HIDE DEF wanted, OTyped
    <3>1. QED
      BY <2>1, <2>2, LookedIs, Panel
  <2>4. QED
    BY <1>3, <2>3 DEF Refresh
<1>4. CASE RefreshFail
  BY <1>4, Panel DEF RefreshFail
<1>5. QED
  BY <1>1, <1>2, <1>3, <1>4

LEMMA TypedStep == OTyped /\ [Next]_vars => OTyped'
<1> SUFFICES ASSUME OTyped, [Next]_vars PROVE OTyped'
  OBVIOUS
<1>1. CASE UNCHANGED vars
  BY <1>1 DEF OTyped, TypeOK, Ordered, vars
<1>2. CASE Next
  BY <1>1, <1>2, ExtractTyped, JudgedTyped, ResolvedTyped, EngineTyped DEF Next, Step, Terminated
<1>3. QED
  BY <1>1, <1>2

LEMMA AlwaysTyped == Spec => []OTyped
  BY TypedInit, TypedStep, PTL DEF Spec

\* The types of every variable of stage 1 (graph.rs's states), for any instance.
THEOREM TypeCorrect == Spec => []TypeOK
<1>1. OTyped => TypeOK
  BY DEF OTyped
<1>2. QED
  BY AlwaysTyped, <1>1, PTL
-----------------------------------------------------------------------------
(***************************************************************************)
(* The semaphore.                                                          *)
(***************************************************************************)
FewHeld == Cardinality(Held) <= Permits

LEMMA PermitsStep == OTyped /\ FewHeld /\ [Next]_vars => FewHeld'
<1> SUFFICES ASSUME OTyped, FewHeld, [Next]_vars PROVE FewHeld'
  OBVIOUS
<1>1. CASE \E e \in Expert : Acquire(e)
  <2>1. PICK e \in Expert : Acquire(e)
    BY <1>1
  <2>2. Cardinality(Held) < Permits
    BY <2>1 DEF Acquire, In, Held
  <2>3. Held' = Held \cup {e}
    BY <2>1 DEF Acquire, Held, OTyped, TypeOK
  <2>4. Cardinality(Held') \in {Cardinality(Held), Cardinality(Held) + 1}
    BY <2>3, HeldFinite, FS_AddElement
  <2>5. QED
    BY <2>2, <2>4, HeldFinite, Sizes DEF FewHeld
<1>2. CASE ~\E e \in Expert : Acquire(e)
  <2>1. Held' \subseteq Held
    BY <1>2 DEF Next, Step, Terminated, vars, Extract, ExtractFail, Joined, Relate, Evaluate, Identify,
      IdentifyFail, Settle, Patch, PatchFail, Regenerate, Heuristic, Reverify, ReverifyFail, Refresh,
      RefreshFail, Held, OTyped, TypeOK
  <2>2. Cardinality(Held') <= Cardinality(Held) /\ Cardinality(Held') \in Nat
    BY <2>1, HeldFinite, FS_Subset, FS_CardinalityType
  <2>3. QED
    BY <2>2, HeldFinite, Sizes DEF FewHeld
<1>3. QED
  BY <1>1, <1>2

\* At most EXTRACT_CONCURRENCY extractions are out at any time (extract_all's
\* semaphore), whatever the order in which the tasks run, answer and fail.
THEOREM PermitsAreHeld == Spec => []PermitsHold
<1>1. Init => FewHeld
  <2>1. Init => Held = {}
    BY DEF Init, Held
  <2>2. QED
    BY <2>1, FS_EmptySet, Sizes DEF FewHeld
<1>2. FewHeld => PermitsHold
  BY DEF FewHeld, PermitsHold, Held, In
<1>3. QED
  BY AlwaysTyped, <1>1, <1>2, PermitsStep, PTL DEF Spec
-----------------------------------------------------------------------------
(***************************************************************************)
(* The nodes.  Stamps: a verified quote is in the text that was last       *)
(* looked at.  Verdict: from the veto to the gap-fill the graph stays what *)
(* the gap prompt was told of.                                             *)
(***************************************************************************)
Stamps ==
  \A n \in nodes : n.status = "verified" =>
    /\ n.quote # None
    /\ IF looked THEN n.source \in Paper /\ n.quote \in Stored[n.source]
       ELSE n.source \in Expert /\ n.quote \in Prose[n.source]

Traceable == nodes # {} /\ \A n \in nodes : n.source \in Paper

Verdict ==
  phase \in {"judged", "patch", "regen"} /\ told # "nothing" =>
    (told = "hard fail" <=> lit /\ ~Traceable)

Earned == Stamps /\ Verdict

LEMMA EarnedInit == Init => Earned
  BY DEF Init, Earned, Stamps, Verdict

LEMMA VetoedIs == ASSUME OTyped PROVE Vetoed(nodes) <=> ~Traceable
  BY Panel DEF Vetoed, Traceable, OTyped, TypeOK, Node

\* While the nodes and what the engine has looked at stay, so do the stamps.
LEMMA StampsStay ==
  ASSUME Stamps, UNCHANGED <<nodes, looked>>
  PROVE  Stamps'
  BY DEF Stamps

LEMMA StampsOfNew ==
  ASSUME Stamps, UNCHANGED looked,
         \A n \in nodes' : n \in nodes \/ n.status # "verified"
  PROVE  Stamps'
  BY DEF Stamps

LEMMA StampsOfVerified ==
  ASSUME OTyped, ~looked, UNCHANGED looked, nodes' = Verified(nodes)
  PROVE  Stamps'
<1>1. nodes \in SUBSET Node
  BY DEF OTyped, TypeOK
<1>2. \A n \in Verified(nodes) : n.status = "verified" =>
        n.quote # None /\ n.source \in Expert /\ n.quote \in Prose[n.source]
  BY <1>1, VerifiedIs
<1>3. QED
  BY <1>2 DEF Stamps

LEMMA ExtractEarns ==
  ASSUME OTyped, Earned, NEW e \in Expert, Acquire(e) \/ Extract(e) \/ ExtractFail(e)
  PROVE  Earned'
<1>1. phase' = "extract" /\ UNCHANGED looked
  BY DEF Acquire, Extract, ExtractFail
<1>2. Verdict'
  BY <1>1 DEF Verdict
<1>3. CASE Extract(e)
  <2>1. PICK answer \in Answers[e] : nodes' \in Merges(nodes, Extracted(e, answer))
    BY <1>3 DEF Extract
  <2>2. nodes' \subseteq nodes \cup Extracted(e, answer)
    BY <2>1, MergeAdds
  <2>3. \A n \in nodes' : n \in nodes \/ n.status # "verified"
    BY <2>2, ExtractedIs
  <2>4. QED
    BY <1>1, <1>2, <2>3, StampsOfNew DEF Earned
<1>4. CASE Acquire(e) \/ ExtractFail(e)
  BY <1>2, <1>4, StampsStay DEF Earned, Acquire, ExtractFail
<1>5. QED
  BY <1>3, <1>4

LEMMA JudgedEarns ==
  ASSUME OTyped, Earned, Joined \/ Relate \/ Evaluate \/ Identify \/ IdentifyFail \/ Settle
  PROVE  Earned'
<1>1. CASE Joined
  <2>1. ~looked /\ UNCHANGED looked
    BY <1>1 DEF Joined, OTyped, Ordered
  <2>2. Stamps'
    BY <1>1, <2>1, StampsStay, StampsOfVerified DEF Joined, Earned
  <2>3. phase' \notin {"judged", "patch", "regen"}
    BY <1>1 DEF Joined
  <2>4. QED
    BY <2>2, <2>3 DEF Earned, Verdict
<1>2. CASE Relate
  <2>1. ~looked /\ UNCHANGED looked /\ nodes' = Verified(nodes) /\ phase' = "ready"
    BY <1>2 DEF Relate, OTyped, Ordered
  <2>2. QED
    BY <2>1, StampsOfVerified DEF Earned, Verdict
<1>3. CASE Evaluate
  <2>1. PICK scored \in BOOLEAN : told' = Feedback(scored, lit /\ Vetoed(nodes))
    BY <1>3 DEF Evaluate
  <2>2. told' # "nothing" => (told' = "hard fail" <=> lit /\ ~Traceable)
    BY <2>1, VetoedIs DEF Feedback
  <2>3. lit' = lit /\ Traceable' = Traceable
    BY <1>3 DEF Evaluate, lit, Traceable
  <2>4. QED
    BY <1>3, <2>2, <2>3, StampsStay DEF Evaluate, Earned, Verdict
<1>4. CASE Identify
  <2>1. UNCHANGED <<nodes, looked, profile>> /\ phase = "judged"
    BY <1>4 DEF Identify
  <2>2. phase' \in {"patch", "regen"} => told' = told
    BY <1>4 DEF Identify
  <2>3. phase' # "judged"
    BY <1>4 DEF Identify
  <2>4. QED
    BY <2>1, <2>2, <2>3, StampsStay DEF Earned, Verdict, Traceable, lit
<1>5. CASE IdentifyFail \/ Settle
  BY <1>5, StampsStay DEF IdentifyFail, Settle, Earned, Verdict
<1>6. QED
  BY <1>1, <1>2, <1>3, <1>4, <1>5

LEMMA ResolvedEarns ==
  ASSUME OTyped, Earned, Patch \/ PatchFail \/ Regenerate \/ Heuristic
  PROVE  Earned'
<1>1. CASE PatchFail
  <2>1. UNCHANGED <<nodes, looked, told, profile>> /\ phase = "patch" /\ phase' = "regen"
    BY <1>1 DEF PatchFail
  <2>2. QED
    BY <2>1, StampsStay DEF Earned, Verdict, Traceable, lit
<1>2. CASE Patch \/ Regenerate \/ Heuristic
  <2>1. phase' = "ready" /\ UNCHANGED looked
    BY <1>2 DEF Patch, Regenerate, Heuristic
  <2>2. \A n \in nodes' : n \in nodes \/ n.status # "verified"
    <3>1. CASE Patch
      BY <3>1, AddedIs DEF Patch, OTyped
    <3>2. CASE Regenerate
      <4>1. PICK kept \in SUBSET nodes, guess \in Guesses, source \in retrieved \cup {None} :
              nodes' = {Restated(n, guess) : n \in kept}
                       \cup {[id |-> NewId, source |-> source, quote |-> guess.quote, status |-> "none",
                              round |-> round]}
        BY <3>2 DEF Regenerate
      <4>2. \A n \in kept : Restated(n, guess).status = "none"
        BY RestatedIs DEF OTyped, TypeOK
      <4>3. QED
        BY <4>1, <4>2
    <3>3. CASE Heuristic
      BY <3>3 DEF Heuristic
    <3>4. QED
      BY <1>2, <3>1, <3>2, <3>3
  <2>3. QED
    BY <2>1, <2>2, StampsOfNew DEF Earned, Verdict
<1>3. QED
  BY <1>1, <1>2

LEMMA EngineEarns ==
  ASSUME OTyped, Earned, Reverify \/ ReverifyFail \/ Refresh \/ RefreshFail
  PROVE  Earned'
<1>1. phase' \in {"reverified", "done"}
  BY DEF Reverify, ReverifyFail, Refresh, RefreshFail
<1>2. CASE Reverify
  <2> DEFINE quoted == Sources({m \in nodes : m.quote # None})
  <2>1. PICK asked \in Looked(quoted) : nodes' = Recheck(nodes, WithText(asked))
    BY <1>2 DEF Reverify, Sources
  <2>2. quoted \in SUBSET (Paper \cup {None}) /\ nodes \in SUBSET Node
    BY DEF Node, Sources, OTyped, TypeOK
  <2>3. WithText(asked) \in SUBSET Paper
    <3> HIDE DEF quoted
    <3>1. QED
      BY <2>1, <2>2, LookedIs
  <2>4. \A n \in nodes : n.status = "verified" => n.quote # None
    BY DEF Earned, Stamps
  <2>5. \A n \in nodes' : n.status = "verified" =>
          n.quote # None /\ n.source \in Paper /\ n.quote \in Stored[n.source]
    BY <2>1, <2>2, <2>3, <2>4, RecheckIs
  <2>6. looked' = TRUE
    BY <1>2 DEF Reverify
  <2>7. QED
    BY <1>1, <2>5, <2>6 DEF Earned, Stamps, Verdict
<1>3. CASE ReverifyFail \/ Refresh \/ RefreshFail
  BY <1>1, <1>3, StampsStay DEF ReverifyFail, Refresh, RefreshFail, Earned, Verdict
<1>4. QED
  BY <1>2, <1>3

LEMMA EarnedStep == OTyped /\ Earned /\ [Next]_vars => Earned'
<1> SUFFICES ASSUME OTyped, Earned, [Next]_vars PROVE Earned'
  OBVIOUS
<1>1. CASE UNCHANGED vars
  BY <1>1 DEF Earned, Stamps, Verdict, Traceable, lit, vars
<1>2. CASE Next
  BY <1>1, <1>2, ExtractEarns, JudgedEarns, ResolvedEarns, EngineEarns DEF Next, Step, Terminated
<1>3. QED
  BY <1>1, <1>2

\* A node is "verified" only if its quote is in the text of its source that was looked
\* at last (verify_quote_status): the panel's prose, then the store's; patched,
\* regenerated and heuristic nodes never are before that.  And what the gap prompt is
\* told of a hard fail is true of the graph that the step's papers are woven into.
THEOREM StatusesAreEarned == Spec => []StatusIsEarned
<1>1. Earned => StatusIsEarned
  BY DEF Earned, Stamps, Verdict, Traceable, StatusIsEarned
<1>2. QED
  BY AlwaysTyped, EarnedInit, EarnedStep, <1>1, PTL DEF Spec
-----------------------------------------------------------------------------
(***************************************************************************)
(* What the experts' answers listed.                                       *)
(***************************************************************************)
LEMMA HeardStep == OTyped /\ NothingHeardIsLost /\ [Next]_vars => NothingHeardIsLost'
<1> SUFFICES ASSUME OTyped, NothingHeardIsLost, [Next]_vars PROVE NothingHeardIsLost'
  OBVIOUS
<1> DEFINE Answered == {e \in Expert : task[e] = "answered"}
<1>1. /\ ~regenerated => heard \subseteq Ids(nodes)
      /\ phase = "failed" => Answered = {}
      /\ nodes \in SUBSET Node
  BY DEF NothingHeardIsLost, In, OTyped, TypeOK
<1>2. SUFFICES /\ ~regenerated' => heard' \subseteq Ids(nodes')
               /\ phase' = "failed" => Answered' = {}
  BY DEF NothingHeardIsLost, In, Ids
<1>3. ASSUME NEW e \in Expert, Extract(e)
      PROVE  (~regenerated' => heard' \subseteq Ids(nodes')) /\ phase' # "failed"
  <2>1. PICK answer \in Answers[e] : /\ nodes' \in Merges(nodes, Extracted(e, answer))
                                     /\ heard' = heard \cup Ids(Extracted(e, answer))
    BY <1>3 DEF Extract
  <2>2. Ids(nodes') = Ids(nodes) \cup Ids(Extracted(e, answer))
    BY <2>1, MergeAdds
  <2>3. phase' = "extract" /\ UNCHANGED regenerated
    BY <1>3 DEF Extract
  <2>4. QED
    BY <1>1, <2>1, <2>2, <2>3
<1>4. ASSUME NEW e \in Expert, Acquire(e) \/ ExtractFail(e)
      PROVE  (~regenerated' => heard' \subseteq Ids(nodes')) /\ phase' # "failed"
  BY <1>1, <1>4 DEF Acquire, ExtractFail
<1>5. CASE Joined \/ Relate
  <2>1. nodes' \in {nodes, Verified(nodes)} /\ UNCHANGED <<heard, regenerated, task>>
    BY <1>5 DEF Joined, Relate
  <2>2. Ids(nodes') = Ids(nodes)
    BY <1>1, <2>1, VerifiedIs
  <2>3. phase' = "failed" => Answered = {}
    BY <1>5 DEF Joined, Relate, In
  <2>4. QED
    BY <1>1, <2>1, <2>2, <2>3
<1>6. CASE Patch \/ Heuristic
  <2>1. nodes \subseteq nodes' /\ UNCHANGED <<heard, regenerated>> /\ phase' = "ready"
    BY <1>6 DEF Patch, Heuristic
  <2>2. Ids(nodes) \subseteq Ids(nodes')
    BY <2>1 DEF Ids
  <2>3. QED
    BY <1>1, <2>1, <2>2
<1>7. CASE Regenerate
  BY <1>7 DEF Regenerate
<1>8. CASE Reverify
  <2> DEFINE quoted == Sources({m \in nodes : m.quote # None})
  <2>1. PICK asked \in Looked(quoted) : nodes' = Recheck(nodes, WithText(asked))
    BY <1>8 DEF Reverify, Sources
  <2>2. quoted \in SUBSET (Paper \cup {None})
    BY <1>1 DEF Node, Sources
  <2>3. WithText(asked) \in SUBSET Paper
    <3> HIDE DEF quoted
    <3>1. QED
      BY <2>1, <2>2, LookedIs
  <2>4. Ids(nodes') = Ids(nodes)
    BY <1>1, <2>1, <2>3, RecheckTyped
  <2>5. UNCHANGED <<heard, regenerated>> /\ phase' = "reverified"
    BY <1>8 DEF Reverify
  <2>6. QED
    BY <1>1, <2>4, <2>5
<1>9. CASE \/ Evaluate \/ Identify \/ IdentifyFail \/ Settle \/ PatchFail
           \/ ReverifyFail \/ Refresh \/ RefreshFail
  <2>1. UNCHANGED <<nodes, heard, regenerated>> /\ phase' # "failed"
    BY <1>9 DEF Evaluate, Identify, IdentifyFail, Settle, PatchFail, ReverifyFail, Refresh, RefreshFail
  <2>2. QED
    BY <1>1, <2>1
<1>10. CASE UNCHANGED vars
  BY <1>1, <1>10 DEF vars
<1>11. QED
  BY <1>3, <1>4, <1>5, <1>6, <1>7, <1>8, <1>9, <1>10 DEF Next, Step, Terminated

\* Whatever an expert's answer listed is in the graph under its id, whichever of its
\* siblings failed or came first, until a regeneration replaces the graph; and stage 1
\* fails for want of a graph only when no expert answered (extract_all, merge_graphs).
THEOREM SiblingsSurvive == Spec => []NothingHeardIsLost
<1>1. Init => NothingHeardIsLost
  BY DEF Init, NothingHeardIsLost, Ids
<1>2. QED
  BY AlwaysTyped, <1>1, HeardStep, PTL DEF Spec
-----------------------------------------------------------------------------
(***************************************************************************)
(* The panel.                                                              *)
(***************************************************************************)
\* A lookup that goes through the first panel before the graph's other sources asks for
\* all of the panel when the cap allows.
LEMMA WholePanelAsked ==
  ASSUME NEW ids \in SUBSET (Paper \cup {None}), Expert \subseteq ids, NEW asked \in Looked(ids),
         asked \subseteq Expert \/ Expert \subseteq asked, Cardinality(Expert) <= Cap
  PROVE  Expert \subseteq asked
<1>1. CASE Expert \subseteq asked
  BY <1>1
<1>2. CASE asked \subseteq Expert
  <2> DEFINE known == ids \ {None}
  <2>1. IsFiniteSet(known) /\ Expert \in SUBSET known /\ IsFiniteSet(Expert)
    BY Panel, GraphAssumption, FS_Subset
  <2>2. /\ Cardinality(known) \in Nat /\ Cardinality(Expert) \in Nat
        /\ Cardinality(Expert) <= Cardinality(known)
    BY <2>1, FS_Subset, FS_CardinalityType
  <2>3. Cardinality(asked) = IF Cardinality(known) > Cap THEN Cap ELSE Cardinality(known)
    BY DEF Looked
  <2>4. Cardinality(asked) >= Cardinality(Expert)
    BY <2>2, <2>3, Sizes
  <2>5. Cardinality(asked) <= Cardinality(Expert) /\ Cardinality(asked) \in Nat
    BY <1>2, <2>1, FS_Subset, FS_CardinalityType
  <2>6. asked = Expert
    BY <1>2, <2>1, <2>2, <2>4, <2>5, FS_Subset
  <2>7. QED
    BY <2>6
<1>3. QED
  BY <1>1, <1>2

LEMMA PanelStep == OTyped /\ PanelSurvives /\ [Next]_vars => PanelSurvives'
<1> SUFFICES ASSUME OTyped, PanelSurvives, [Next]_vars PROVE PanelSurvives'
  OBVIOUS
<1>1. CASE Refresh
  <2> DEFINE wanted == Expert \cup Sources(nodes)
  <2>1. wanted \in SUBSET (Paper \cup {None}) /\ Expert \subseteq wanted
    BY Panel DEF Sources, Node, OTyped, TypeOK
  <2>2. PICK asked \in Looked(wanted) :
          /\ asked \subseteq Expert \/ Expert \subseteq asked
          /\ panel' = IF WithText(asked) = {} THEN Expert ELSE WithText(asked)
    BY <1>1 DEF Refresh, Sources
  <2>3. asked \subseteq wanted /\ WithText(asked) \subseteq asked
    <3> HIDE DEF wanted
    <3>1. QED
      BY <2>1, <2>2, LookedIs
  <2>4. Cardinality(Expert) <= Cap => Expert \subseteq asked
    <3> HIDE DEF wanted
    <3>1. QED
      BY <2>1, <2>2, WholePanelAsked
  <2>5. Expert \subseteq asked => WithText(Expert) \subseteq WithText(asked)
    BY DEF WithText
  <2>6. panel' # {} /\ panel' \ Expert \subseteq Sources(nodes)
    BY <2>2, <2>3, Panel
  <2>7. Cardinality(Expert) <= Cap => WithText(Expert) \subseteq panel'
    BY <2>2, <2>4, <2>5
  <2>8. UNCHANGED nodes
    BY <1>1 DEF Refresh
  <2>9. QED
    BY <2>6, <2>7, <2>8 DEF PanelSurvives, Sources, WithText
<1>2. CASE RefreshFail
  BY <1>2, Panel DEF RefreshFail, PanelSurvives, WithText
<1>3. CASE UNCHANGED vars
  BY <1>3 DEF vars, PanelSurvives, WithText
<1>4. CASE Step /\ ~Refresh /\ ~RefreshFail
  <2>1. phase' # "done"
    BY <1>4 DEF Step, Acquire, Extract, ExtractFail, Joined, Relate, Evaluate, Identify, IdentifyFail,
      Settle, Patch, PatchFail, Regenerate, Heuristic, Reverify, ReverifyFail
  <2>2. QED
    BY <2>1 DEF PanelSurvives
<1>5. QED
  BY <1>1, <1>2, <1>3, <1>4 DEF Next, Terminated

\* The refresh of the panel for stage 2 takes nothing from the first panel but papers
\* without stored text, unless the first panel alone exceeds the cap, and adds nothing
\* but sources of the graph's nodes (engine.rs, refresh of the panel).
THEOREM PanelIsKept == Spec => []PanelSurvives
<1>1. Init => PanelSurvives
  BY DEF Init, PanelSurvives
<1>2. QED
  BY AlwaysTyped, <1>1, PanelStep, PTL DEF Spec
-----------------------------------------------------------------------------
(***************************************************************************)
(* Ids.  The place of a node is the step that brought it; what a step adds *)
(* stands behind all that was there, and has no id twice.                  *)
(***************************************************************************)
FirstOf(ns, i) == {n \in ns : n.id = i /\ \A m \in ns : m.id = i => n.round <= m.round}

OneEach(ns) == \A i \in Ids(ns) : \E n \in ns : FirstOf(ns, i) = {n}

AllOf(ns, r) == \A n \in ns : n.round = r
Listed(ns, ids) == \A i \in ids : \E n \in ns : n.id = i /\ n.round = 0

IdIInv ==
  /\ phase \in {"extract", "relate"} => AllOf(nodes, 0)
  /\ \A n \in nodes : n.round <= round
  /\ phase \in {"patch", "regen"} => \A n \in nodes : n.round < round
  /\ ~regenerated => OneEach(nodes) /\ Listed(nodes, heard)

LEMMA Rounded == ASSUME NEW n \in Node PROVE n.round \in Nat /\ n.round <= Rounds
<1>1. n.round \in 0 .. Rounds
  BY DEF Node
<1>2. QED
  BY <1>1, Sizes

\* Among nodes of one step the first of an id is the only one of that id.
LEMMA OneOfAStep ==
  ASSUME NEW ns \in SUBSET Node, NEW r, AllOf(ns, r)
  PROVE  OneEach(ns) <=> \A m, n \in ns : m.id = n.id => m = n
<1>1. \A m, n \in ns : m.round <= n.round
  BY Rounded DEF AllOf
<1>2. \A i : FirstOf(ns, i) = {n \in ns : n.id = i}
  BY <1>1 DEF FirstOf
<1>3. QED
  BY <1>2 DEF OneEach, Ids

LEMMA MergeKeepsOneEach ==
  ASSUME NEW ns \in SUBSET Node, NEW more \in SUBSET Node, AllOf(ns, 0), AllOf(more, 0), OneEach(ns),
         NEW after \in Merges(ns, more)
  PROVE  OneEach(after) /\ AllOf(after, 0)
<1>1. PICK pick \in SUBSET {n \in more : n.id \notin Ids(ns)} :
        after = ns \cup pick /\ \A m, n \in pick : m.id = n.id => m = n
  BY DEF Merges
<1>2. \A m \in ns, n \in pick : m.id # n.id
  BY <1>1 DEF Ids
<1>3. \A m, n \in ns : m.id = n.id => m = n
  BY OneOfAStep
<1>4. \A m, n \in after : m.id = n.id => m = n
  BY <1>1, <1>2, <1>3
<1>5. after \in SUBSET Node /\ AllOf(after, 0)
  BY <1>1 DEF AllOf
<1>6. QED
  BY <1>4, <1>5, OneOfAStep

\* What a later step adds, with no id twice, leaves what every id is resolved to alone.
LEMMA LaterKeepsOneEach ==
  ASSUME NEW ns \in SUBSET Node, NEW more \in SUBSET Node, NEW r \in Nat, OneEach(ns),
         \A n \in ns : n.round < r, AllOf(more, r), \A m, n \in more : m.id = n.id => m = n
  PROVE  OneEach(ns \cup more)
<1>1. ASSUME NEW i \in Ids(ns) PROVE FirstOf(ns \cup more, i) = FirstOf(ns, i)
  <2>1. PICK first \in ns : FirstOf(ns, i) = {first}
    BY <1>1 DEF OneEach
  <2>2. first.id = i /\ first.round < r /\ first.round \in Nat
    BY <2>1, Rounded DEF FirstOf
  <2>3. \A n \in more : n.round = r /\ ~(n.round <= first.round) /\ first.round <= n.round
    BY <2>2 DEF AllOf
  <2>4. QED
    BY <2>1, <2>2, <2>3 DEF FirstOf
<1>2. ASSUME NEW n \in more, n.id \notin Ids(ns) PROVE FirstOf(ns \cup more, n.id) = {n}
  <2>1. \A m \in ns \cup more : m.id = n.id => m = n
    BY <1>2 DEF Ids
  <2>2. n.round <= n.round
    BY Rounded
  <2>3. QED
    BY <2>1, <2>2 DEF FirstOf
<1>3. ASSUME NEW i \in Ids(ns \cup more) PROVE \E n \in ns \cup more : FirstOf(ns \cup more, i) = {n}
  <2>1. CASE i \in Ids(ns)
    BY <1>1, <2>1 DEF OneEach
  <2>2. CASE i \notin Ids(ns)
    <3>1. PICK n \in more : n.id = i
      BY <1>3, <2>2 DEF Ids
    <3>2. QED
      BY <1>2, <2>2, <3>1
  <2>3. QED
    BY <2>1, <2>2
<1>4. QED
  BY <1>3 DEF OneEach

\* A map over the nodes that leaves their ids and places alone leaves them apart.
Keeps(f, ns) == DOMAIN f = ns /\ \A n \in ns : f[n].id = n.id /\ f[n].round = n.round

LEMMA MapKeepsOneEach ==
  ASSUME NEW ns, NEW f, Keeps(f, ns), NEW after, after = {f[n] : n \in ns}
  PROVE  /\ OneEach(ns) => OneEach(after)
         /\ \A ids : Listed(ns, ids) => Listed(after, ids)
         /\ \A r : AllOf(ns, r) => AllOf(after, r)
         /\ \A r : (\A n \in ns : n.round <= r) => (\A n \in after : n.round <= r)
<1>1. \A i : FirstOf(after, i) = {f[n] : n \in FirstOf(ns, i)}
  BY DEF FirstOf, Keeps
<1>2. Ids(after) = Ids(ns)
  BY DEF Ids, Keeps
<1>3. ASSUME OneEach(ns), NEW i \in Ids(after) PROVE \E n \in after : FirstOf(after, i) = {n}
  <2>1. PICK n \in ns : FirstOf(ns, i) = {n}
    BY <1>2, <1>3 DEF OneEach
  <2>2. FirstOf(after, i) = {f[n]}
    BY <1>1, <2>1
  <2>3. QED
    BY <2>1, <2>2
<1>4. OneEach(ns) => OneEach(after)
  BY <1>3 DEF OneEach
<1>5. QED
  BY <1>4 DEF Listed, AllOf, Keeps

LEMMA IdsOfMap ==
  ASSUME OTyped, IdIInv, NEW f, Keeps(f, nodes), nodes' = {f[n] : n \in nodes},
         UNCHANGED <<round, heard, regenerated>>,
         phase' \in {"extract", "relate"} => phase \in {"extract", "relate"},
         phase' \notin {"patch", "regen"}
  PROVE  IdIInv'
<1>1. /\ OneEach(nodes) => OneEach(nodes')
      /\ \A ids : Listed(nodes, ids) => Listed(nodes', ids)
      /\ AllOf(nodes, 0) => AllOf(nodes', 0)
      /\ \A r : (\A n \in nodes : n.round <= r) => (\A n \in nodes' : n.round <= r)
  BY MapKeepsOneEach, SMTT(30)
<1>2. QED
  BY <1>1 DEF IdIInv, OneEach, Listed, AllOf, FirstOf, Ids

LEMMA IdsOfVerified ==
  ASSUME OTyped, IdIInv, nodes' = Verified(nodes), UNCHANGED <<round, heard, regenerated>>,
         phase' \in {"extract", "relate"} => phase \in {"extract", "relate"},
         phase' \notin {"patch", "regen"}
  PROVE  IdIInv'
<1> DEFINE f == [n \in nodes |-> Stamped(n)]
<1>1. nodes \subseteq Node
  BY DEF OTyped, TypeOK
<1>2. \A n \in Node : Stamped(n).id = n.id /\ Stamped(n).round = n.round
  BY DEF Stamped, Node
<1>3. Keeps(f, nodes)
  BY <1>1, <1>2 DEF Keeps
<1>4. nodes' = {f[n] : n \in nodes}
  BY DEF Verified, Stamped
<1> HIDE DEF f
<1>5. QED
  BY <1>3, <1>4, IdsOfMap

LEMMA IdsOfReverify ==
  ASSUME OTyped, IdIInv, Reverify
  PROVE  IdIInv'
<1>1. PICK found : nodes' = Recheck(nodes, found)
  BY DEF Reverify
<1> DEFINE f == [n \in nodes |-> Rechecked(n, found)]
<1>2. nodes \subseteq Node
  BY DEF OTyped, TypeOK
<1>3. \A n \in Node : Rechecked(n, found).id = n.id /\ Rechecked(n, found).round = n.round
  BY DEF Rechecked, Node
<1>4. Keeps(f, nodes)
  BY <1>2, <1>3 DEF Keeps
<1>5. nodes' = {f[n] : n \in nodes}
  BY <1>1 DEF Recheck, Rechecked
<1> HIDE DEF f
<1>6. QED
  BY <1>4, <1>5, IdsOfMap DEF Reverify

LEMMA Counted == ASSUME OTyped PROVE round \in Nat /\ nodes \in SUBSET Node /\ retrieved \subseteq Paper
<1>1. round \in 0 .. Rounds /\ nodes \subseteq Node /\ retrieved \subseteq Paper
  BY DEF OTyped, TypeOK
<1>2. QED
  BY <1>1, Sizes

LEMMA IdsOfExtract ==
  ASSUME OTyped, IdIInv, NEW e \in Expert, Extract(e)
  PROVE  IdIInv'
<1>1. PICK answer \in Answers[e] : /\ nodes' \in Merges(nodes, Extracted(e, answer))
                                   /\ heard' = heard \cup Ids(Extracted(e, answer))
  BY DEF Extract
<1>2. phase = "extract" /\ phase' = phase /\ UNCHANGED <<round, regenerated>>
  BY DEF Extract
<1>3. nodes \in SUBSET Node /\ AllOf(nodes, 0)
  BY <1>2 DEF OTyped, TypeOK, IdIInv
<1>4. Extracted(e, answer) \in SUBSET Node /\ AllOf(Extracted(e, answer), 0)
  <2>1. AllOf(Extracted(e, answer), 0)
    BY DEF AllOf, Extracted
  <2>2. QED
    BY <2>1, ExtractedIs
<1> DEFINE ns == nodes  more == Extracted(e, answer)  after == nodes'
<1>5. (OneEach(nodes) => OneEach(nodes')) /\ AllOf(nodes', 0)
  BY <1>1, <1>3, <1>4, MergeKeepsOneEach, MergeAdds DEF AllOf
<1>6. Ids(nodes') = Ids(nodes) \cup Ids(Extracted(e, answer)) /\ nodes \subseteq nodes'
  BY <1>1, MergeAdds
<1>7. Listed(nodes, heard) => Listed(nodes', heard')
  BY <1>1, <1>5, <1>6 DEF Listed, AllOf, Ids
<1>8. \A n \in nodes' : n.round <= round
  <2>1. round \in Nat
    BY Counted
  <2>2. QED
    BY <1>5, <2>1 DEF AllOf
<1>9. QED
  BY <1>2, <1>5, <1>7, <1>8 DEF IdIInv, OneEach, Listed, AllOf, FirstOf, Ids

LEMMA IdsStay ==
  ASSUME IdIInv, UNCHANGED <<nodes, round, heard, regenerated>>,
         phase' \in {"extract", "relate"} => phase \in {"extract", "relate"},
         phase' \in {"patch", "regen"} => phase \in {"patch", "regen"}
  PROVE  IdIInv'
  BY DEF IdIInv, OneEach, Listed, AllOf, FirstOf, Ids

\* What a patch or the heuristic adds carries the step's number and no id twice.
LEMMA WhatAStepAdds ==
  ASSUME OTyped, Patch \/ Heuristic
  PROVE  \E more : /\ nodes' = nodes \cup more /\ AllOf(more, round)
                   /\ \A m, n \in more : m.id = n.id => m = n
<1>1. CASE Patch
  <2>1. PICK more \in Added : nodes' = nodes \cup more
    BY <1>1 DEF Patch
  <2>2. AllOf(more, round) /\ \A m, n \in more : m = n
    BY DEF Added, AllOf
  <2>3. QED
    BY <2>1, <2>2
<1>2. CASE Heuristic
  <2>1. PICK place \in Orders(retrieved) :
          nodes' = nodes \cup {[id |-> HeuristicId[place[p]], source |-> p, quote |-> None,
                               status |-> "unverified", round |-> round] : p \in retrieved}
    BY <1>2 DEF Heuristic
  <2> DEFINE of == [p \in retrieved |-> [id |-> HeuristicId[place[p]], source |-> p, quote |-> None,
                                         status |-> "unverified", round |-> round]]
             more == {of[p] : p \in retrieved}
  <2>2. \A p \in retrieved : place[p] \in 1 .. Cardinality(Paper)
    <3>1. retrieved \in SUBSET Paper /\ \A p \in retrieved : place[p] \in 1 .. Cardinality(retrieved)
      BY Counted DEF Orders
    <3>2. QED
      BY <3>1, Enough
  <2>3. \A p \in retrieved : of[p].id = HeuristicId[place[p]] /\ of[p].round = round
    OBVIOUS
  <2>4. nodes' = nodes \cup more
    BY <2>1
  <2>5. \A p, q \in retrieved : place[p] = place[q] => p = q
    BY DEF Orders
  <2> HIDE DEF of
  <2>6. \A k, l \in 1 .. Cardinality(Paper) : HeuristicId[k] = HeuristicId[l] => k = l
    BY GraphAssumption
  <2>7. \A p, q \in retrieved : of[p].id = of[q].id => of[p] = of[q]
    BY <2>2, <2>3, <2>5, <2>6
  <2>8. AllOf(more, round) /\ \A m, n \in more : m.id = n.id => m = n
    BY <2>3, <2>7 DEF AllOf
  <2>9. QED
    BY <2>4, <2>8
<1>3. QED
  BY <1>1, <1>2

LEMMA IdsOfAdded ==
  ASSUME OTyped, OTyped', IdIInv, Patch \/ Heuristic
  PROVE  IdIInv'
<1>1. phase \in {"patch", "regen"} /\ phase' = "ready" /\ UNCHANGED <<round, heard, regenerated>>
  BY DEF Patch, Heuristic
<1>2. round \in Nat /\ nodes \in SUBSET Node /\ nodes' \in SUBSET Node
  BY Counted DEF OTyped, TypeOK
<1>3. PICK more : /\ nodes' = nodes \cup more /\ AllOf(more, round)
                  /\ \A m, n \in more : m.id = n.id => m = n
  BY WhatAStepAdds
<1>4. \A n \in nodes : n.round < round
  BY <1>1 DEF IdIInv
<1>5. OneEach(nodes) => OneEach(nodes')
  BY <1>2, <1>3, <1>4, LaterKeepsOneEach
<1>6. Listed(nodes, heard) => Listed(nodes', heard')
  BY <1>1, <1>3 DEF Listed
<1>7. \A n \in nodes' : n.round <= round
  <2>1. \A n \in nodes : n.round <= round
    BY DEF IdIInv
  <2>2. \A n \in more : n.round <= round
    BY <1>2, <1>3 DEF AllOf
  <2>3. QED
    BY <1>3, <2>1, <2>2
<1>8. QED
  BY <1>1, <1>5, <1>6, <1>7 DEF IdIInv, OneEach, Listed, AllOf, FirstOf, Ids

LEMMA IdsOfRegenerate ==
  ASSUME OTyped, OTyped', IdIInv, Regenerate
  PROVE  IdIInv'
<1>1. PICK kept \in SUBSET nodes, guess \in Guesses, source \in retrieved \cup {None} :
        nodes' = {Restated(n, guess) : n \in kept}
                 \cup {[id |-> NewId, source |-> source, quote |-> guess.quote, status |-> "none",
                        round |-> round]}
  BY DEF Regenerate
<1>2. phase' = "ready" /\ regenerated' = TRUE /\ round' = round
  BY DEF Regenerate
<1>3. round \in Nat /\ nodes \in SUBSET Node
  BY Counted
<1>4. \A n \in Node : Restated(n, guess).round = n.round
  BY DEF Restated, Node
<1>5. \A n \in nodes' : n.round <= round
  BY <1>1, <1>3, <1>4 DEF IdIInv
<1>6. QED
  BY <1>2, <1>5 DEF IdIInv

LEMMA IdStep == OTyped /\ OTyped' /\ IdIInv /\ [Next]_vars => IdIInv'
<1> SUFFICES ASSUME OTyped, OTyped', IdIInv, [Next]_vars PROVE IdIInv'
  OBVIOUS
<1>1. CASE \E e \in Expert : Extract(e)
  BY <1>1, IdsOfExtract
<1>2. CASE Joined
  <2>1. phase = "extract" /\ phase' \in {"failed", "relate", "ready"}
        /\ UNCHANGED <<round, heard, regenerated>>
    BY <1>2 DEF Joined
  <2>2. nodes' = nodes \/ nodes' = Verified(nodes)
    BY <1>2 DEF Joined
  <2>3. QED
    BY <2>1, <2>2, IdsStay, IdsOfVerified
<1>3. CASE Relate
  <2>1. phase' = "ready" /\ nodes' = Verified(nodes) /\ UNCHANGED <<round, heard, regenerated>>
    BY <1>3 DEF Relate
  <2>2. QED
    BY <2>1, IdsOfVerified
<1>4. CASE Identify
  <2>1. /\ phase' \in {"ready", "patch", "regen"} /\ round' = round + 1
        /\ UNCHANGED <<nodes, heard, regenerated>>
    BY <1>4 DEF Identify
  <2>2. \A n \in nodes : n.round < round'
    <3>1. \A n \in nodes : n.round \in Nat /\ n.round <= round
      BY Counted, Rounded DEF IdIInv
    <3>2. QED
      BY <2>1, <3>1, Counted
  <2>3. \A n \in nodes : n.round <= round'
    BY <2>2, Counted, Rounded, <2>1
  <2>4. QED
    BY <2>1, <2>2, <2>3 DEF IdIInv, OneEach, Listed, AllOf, FirstOf, Ids
<1>5. CASE Patch \/ Heuristic
  BY <1>5, IdsOfAdded
<1>6. CASE Regenerate
  BY <1>6, IdsOfRegenerate
<1>7. CASE Reverify
  BY <1>7, IdsOfReverify
<1>8. CASE UNCHANGED vars
  BY <1>8, IdsStay DEF vars
<1>9. ASSUME NEW e \in Expert, Acquire(e) \/ ExtractFail(e) PROVE IdIInv'
  BY <1>9, IdsStay DEF Acquire, ExtractFail
<1>10. CASE Evaluate \/ IdentifyFail \/ Settle \/ PatchFail \/ ReverifyFail \/ Refresh \/ RefreshFail
            \/ Terminated
  <2>1. /\ UNCHANGED <<nodes, round, heard, regenerated>>
        /\ phase' \in {"extract", "relate"} => phase \in {"extract", "relate"}
        /\ phase' \in {"patch", "regen"} => phase \in {"patch", "regen"}
    BY <1>10 DEF Evaluate, IdentifyFail, Settle, PatchFail, ReverifyFail, Refresh, RefreshFail,
      Terminated, vars
  <2>2. QED
    BY <2>1, IdsStay
<1>11. QED
  BY <1>1, <1>2, <1>3, <1>4, <1>5, <1>6, <1>7, <1>8, <1>9, <1>10 DEF Next, Step

LEMMA OnePerId == OTyped /\ IdIInv => IdsNameOneNode
<1> SUFFICES ASSUME OTyped, IdIInv, ~regenerated, NEW i \in heard \cup Ids(nodes)
             PROVE  \E n \in nodes : ResolvedTo(i) = {n} /\ (i \in heard => n.round = 0)
  BY DEF IdsNameOneNode
<1>1. OneEach(nodes) /\ Listed(nodes, heard) /\ nodes \in SUBSET Node
  BY Counted DEF IdIInv
<1>2. i \in Ids(nodes)
  BY <1>1 DEF Listed, Ids
<1>3. PICK n \in nodes : FirstOf(nodes, i) = {n}
  BY <1>1, <1>2 DEF OneEach
<1>4. ResolvedTo(i) = {n}
  BY <1>3 DEF ResolvedTo, FirstOf
<1>5. ASSUME i \in heard PROVE n.round = 0
  <2>1. PICK m \in nodes : m.id = i /\ m.round = 0
    BY <1>1, <1>5 DEF Listed
  <2>2. n.round <= 0 /\ n.round \in Nat
    BY <1>1, <1>3, <2>1, Rounded DEF FirstOf
  <2>3. QED
    BY <2>2
<1>6. QED
  BY <1>4, <1>5

\* Until a regeneration replaces the graph every id is resolved to one node, and an id
\* that an expert's answer listed to a node of the extraction (merge_graphs,
\* try_apply_patch, apply_heuristic_resolve, and post_process.rs:768 where it is looked
\* up): whatever the answers list, in whatever order they come, and however often later
\* steps use an id again.
THEOREM OneNodePerId == Spec => []IdsNameOneNode
<1>1. Init => IdIInv
  BY DEF Init, IdIInv, Ids, OneEach, AllOf, Listed
<1>2. QED
  BY AlwaysTyped, <1>1, IdStep, OnePerId, PTL DEF Spec
=============================================================================
