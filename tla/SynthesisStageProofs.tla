------------------------ MODULE SynthesisStageProofs ------------------------
(***************************************************************************)
(* Theorems about SynthesisStage, for every panel, graph and set of        *)
(* answers: what the merger is given as evidence, what the gap prompt was  *)
(* told when a draft is resolved, how an answer is read back from its XML, *)
(* and that the fallbacks of a resolution lose no claim.                   *)
(***************************************************************************)
EXTENDS SynthesisStage, FiniteSetTheorems, SequenceTheorems, WellFoundedInduction, TLAPS

-----------------------------------------------------------------------------
(***************************************************************************)
(* The evidence: the choice that Merge makes keeps what the property asks  *)
(* for, and nothing touches evidence or candidates after it.               *)
(***************************************************************************)
EvidenceIsChosen == phase = "done" /\ lit => evidence \in Carried

LEMMA TheCap == QuoteCap \in Nat \ {0}
  BY SynthesisAssumption

\* Whatever the bound leaves out, each source that offers a quote keeps one.
LEMMA EverySourceKeepsOne ==
  ASSUME NEW kept \in Carried, NEW q \in Offered
  PROVE  \E k \in kept : k.source = q.source
<1> DEFINE all == {o \in Offered : o.source = q.source}
           its == {o \in kept : o.source = q.source}
<1>1. q.source \in Source
  BY SynthesisAssumption DEF Offered, ValidId
<1>2. IF Cardinality(all) <= QuoteCap THEN its = all ELSE Cardinality(its) = QuoteCap
  BY <1>1 DEF Carried
<1>3. its # {}
  <2>1. CASE its = all
    BY <2>1
  <2>2. CASE Cardinality(its) = QuoteCap
    BY <2>2, FS_EmptySet, TheCap
  <2>3. QED
    BY <1>2, <2>1, <2>2
<1>4. QED
  BY <1>3

LEMMA NoSourceOverTheCap ==
  ASSUME NEW kept \in Carried, NEW s \in Source
  PROVE  Cardinality({q \in kept : q.source = s}) <= QuoteCap
<1> DEFINE all == {o \in Offered : o.source = s}
           its == {o \in kept : o.source = s}
<1>1. IF Cardinality(all) <= QuoteCap THEN its = all ELSE Cardinality(its) = QuoteCap
  BY DEF Carried
<1>2. CASE Cardinality(all) <= QuoteCap /\ its = all
  BY <1>2
<1>3. CASE Cardinality(its) = QuoteCap
  BY <1>3, TheCap
<1>4. QED
  BY <1>1, <1>2, <1>3

LEMMA ChosenEvidenceIsComplete == EvidenceIsChosen => EvidenceIsComplete
<1> DEFINE cited  == UNION {c.quotes : c \in UNION {candidates[i].claims : i \in DOMAIN candidates}}
           quoted == {q.source : q \in cited}
           shown  == {q.source : q \in evidence}
<1> SUFFICES ASSUME phase = "done", lit, evidence \in Carried
             PROVE  /\ quoted \cap (Panel \cup Papers) \subseteq anchored \cup shown
                    /\ shown \cap anchored = {} /\ shown \subseteq Panel \cup Papers
                    /\ \A s \in shown : Cardinality({q \in evidence : q.source = s}) <= QuoteCap
  BY DEF EvidenceIsChosen, EvidenceIsComplete
<1>1. evidence \subseteq Offered
  BY DEF Carried
<1>2. ASSUME NEW q \in cited, q.source \in Panel \cup Papers, q.source \notin anchored
      PROVE  q.source \in shown
  <2>1. q \in Offered
    BY <1>2 DEF Offered, ValidId
  <2>2. PICK k \in evidence : k.source = q.source
    BY <2>1, EverySourceKeepsOne
  <2>3. QED
    BY <2>2
<1>3. \A q \in evidence : q.source \notin anchored /\ q.source \in Panel \cup Papers
  BY <1>1 DEF Offered, ValidId
<1>4. \A s \in shown : s \in Source
  BY <1>3, SynthesisAssumption
<1>5. \A s \in shown : Cardinality({q \in evidence : q.source = s}) <= QuoteCap
  BY <1>4, NoSourceOverTheCap
<1>6. QED
  BY <1>2, <1>3, <1>5

LEMMA EvidenceStep ==
  ASSUME EvidenceIsChosen, [Next]_vars
  PROVE  EvidenceIsChosen'
<1>1. CASE Merge
  BY <1>1 DEF Merge, EvidenceIsChosen, Carried, Offered, anchored, lit
<1>2. CASE phase' = "done" /\ ~Merge
  <2>1. UNCHANGED vars
    BY <1>2 DEF Next, Generate, GenerateFail, Evaluate, Identify, IdentifyFail, PatchAnswered, PatchUnread,
      Regenerate, Heuristic, ResolveFail, Finish, MergeFail, Returned, vars
  <2>2. Offered' = Offered
    BY <2>1 DEF vars, Offered, anchored
  <2>3. Carried' = Carried
    BY <2>2 DEF Carried
  <2>4. QED
    BY <2>1, <2>3 DEF vars, EvidenceIsChosen, lit
<1>3. QED
  BY <1>1, <1>2 DEF EvidenceIsChosen

-----------------------------------------------------------------------------
(***************************************************************************)
(* The veto: an evaluation is of the draft that is there until that draft  *)
(* is replaced, and the gap prompt is written from it.                     *)
(***************************************************************************)
JudgedIsCurrent == phase = "identify" => (eval.vetoed <=> lit /\ Vetoed(doc))
ToldIsCurrent ==
  phase \in {"patch", "full"} /\ lit =>
    heard = (IF ~eval.scored THEN "nothing" ELSE IF Vetoed(doc) THEN "hard fail" ELSE "feedback")
VetoIInv == JudgedIsCurrent /\ ToldIsCurrent

LEMMA VetoStep ==
  ASSUME VetoIInv, [Next]_vars
  PROVE  VetoIInv'
<1> USE DEF VetoIInv, JudgedIsCurrent, ToldIsCurrent, Vetoed, ValidId, lit
<1>1. CASE Evaluate
  <2>1. phase' = "identify" /\ UNCHANGED <<profile, doc>> /\ eval'.vetoed = (lit /\ Vetoed(doc))
    BY <1>1 DEF Evaluate
  <2>2. QED
    BY <2>1
<1>2. CASE Identify
  <2>1. lit => Feedback = (IF ~eval.scored THEN "nothing" ELSE IF eval.vetoed THEN "hard fail" ELSE "feedback")
    BY DEF Feedback, GapsForm, GapsLit, Form
  <2>2. QED
    BY <1>2, <2>1 DEF Identify
<1>3. CASE PatchUnread
  BY <1>3 DEF PatchUnread
<1>4. CASE UNCHANGED vars
  BY <1>4 DEF vars
<1>5. CASE Next /\ ~Evaluate /\ ~Identify /\ ~PatchUnread /\ ~UNCHANGED vars
  <2>1. phase' \notin {"identify", "patch", "full"}
    BY <1>5 DEF Next, Generate, GenerateFail, IdentifyFail, PatchAnswered,
      Regenerate, Heuristic, ResolveFail, Finish, Merge, MergeFail, Returned
  <2>2. QED
    BY <2>1
<1>6. QED
  BY <1>1, <1>2, <1>3, <1>4, <1>5

LEMMA ToldMeansHeard == VetoIInv => VetoIsHeard
  BY DEF VetoIInv, ToldIsCurrent, VetoIsHeard, Vetoed, ValidId

-----------------------------------------------------------------------------
(***************************************************************************)
(* The reader.  Its states after 0, 1, ... events form a function that     *)
(* exists up to every length: the least length for which there is none     *)
(* would be one more than a length for which there is.                     *)
(***************************************************************************)
LEMMA LeastNumber ==
  ASSUME NEW S \in SUBSET Nat, S # {}
  PROVE  \E m \in S : \A k \in S : m <= k
<1>1. PICK m \in S : \A k \in S : ~(<<k, m>> \in OpToRel(<, Nat))
  BY WFMin, NatLessThanWellFounded, Zenon
<1>2. \A k \in S : ~(k < m)
  BY <1>1, Zenon DEF OpToRel
<1>3. QED
  BY <1>2

\* g: the states of the reader that starts in r, after k of the events s.
Trace(l, r, s, n, g) == g = [k \in 0 .. n |-> IF k = 0 THEN r ELSE OnEvent(l, g[k - 1], s[k])]
Traced(l, r, s, n) == \E g : Trace(l, r, s, n, g)

LEMMA EveryTraceExists ==
  ASSUME NEW l, NEW r, NEW s, NEW n \in Nat
  PROVE  Traced(l, r, s, n)
<1>1. Traced(l, r, s, 0)
  <2> DEFINE g == [k \in 0 .. 0 |-> r]
  <2>1. g = [k \in 0 .. 0 |-> IF k = 0 THEN r ELSE OnEvent(l, g[k - 1], s[k])]
    OBVIOUS
  <2>2. QED
    BY <2>1 DEF Traced, Trace
<1>2. ASSUME NEW m \in Nat, Traced(l, r, s, m)
      PROVE  Traced(l, r, s, m + 1)
  <2>1. PICK g : g = [k \in 0 .. m |-> IF k = 0 THEN r ELSE OnEvent(l, g[k - 1], s[k])]
    BY <1>2 DEF Traced, Trace
  <2> DEFINE h == [k \in 0 .. m + 1 |-> IF k = 0 THEN r ELSE OnEvent(l, g[k - 1], s[k])]
  <2>2. \A k \in 0 .. m : h[k] = g[k]
    BY <2>1
  <2>3. \A k \in 0 .. m + 1 : k # 0 => k - 1 \in 0 .. m
    OBVIOUS
  <2>4. h = [k \in 0 .. m + 1 |-> IF k = 0 THEN r ELSE OnEvent(l, h[k - 1], s[k])]
    BY <2>2, <2>3
  <2>5. QED
    BY <2>4 DEF Traced, Trace
<1> DEFINE Bad == {m \in Nat : ~Traced(l, r, s, m)}
<1>3. Bad = {}
  <2> SUFFICES ASSUME Bad # {} PROVE FALSE
    OBVIOUS
  <2>1. PICK m \in Bad : \A k \in Bad : m <= k
    BY LeastNumber
  <2>2. m \in Nat /\ m # 0
    BY <1>1
  <2>3. m - 1 \in Nat /\ m - 1 \notin Bad
    BY <2>1, <2>2
  <2>4. Traced(l, r, s, (m - 1) + 1)
    BY <2>3, <1>2
  <2>5. QED
    BY <2>2, <2>4
<1>4. QED
  BY <1>3

LEMMA ParsedIsTraced ==
  ASSUME NEW l, NEW s, NEW n \in Nat
  PROVE  \E g : Trace(l, Start0, s, n, g) /\ Parsed(l, s, n) = g[n].doc
<1> DEFINE g == CHOOSE f : Trace(l, Start0, s, n, f)
<1>1. Trace(l, Start0, s, n, g)
  BY EveryTraceExists DEF Traced
<1>2. Parsed(l, s, n) = g[n].doc
  BY DEF Parsed, Trace
<1>3. QED
  BY <1>1, <1>2

-----------------------------------------------------------------------------
(***************************************************************************)
(* The shape of what is read: a claim has all its fields, in whatever      *)
(* order and however often the elements of the answer come.                *)
(***************************************************************************)
IsClaim(c) ==
  /\ DOMAIN c = {"topic", "level", "support", "sources", "quotes", "counter"}
  /\ c = [f \in DOMAIN c |-> c[f]]
IsDoc(d) ==
  /\ DOMAIN d = {"claims", "narrative", "uncertainties", "gaps"}
  /\ \A c \in d.claims : IsClaim(c)
IsReader(r) ==
  /\ DOMAIN r = {"doc", "claim", "open", "section", "quoteOf", "buf"}
  /\ DOMAIN r.buf = Buffer /\ IsDoc(r.doc) /\ IsClaim(r.claim)

LEMMA ClaimIsKept ==
  ASSUME NEW c, IsClaim(c), NEW v
  PROVE  /\ IsClaim([c EXCEPT !.topic = v]) /\ IsClaim([c EXCEPT !.level = v])
         /\ IsClaim([c EXCEPT !.support = v]) /\ IsClaim([c EXCEPT !.sources = v])
         /\ IsClaim([c EXCEPT !.quotes = v]) /\ IsClaim([c EXCEPT !.counter = v])
  BY DEF IsClaim

LEMMA EventKeepsShape ==
  ASSUME NEW l, NEW r, NEW t, IsReader(r)
  PROVE  IsReader(OnEvent(l, r, t))
<1> USE DEF IsReader
<1>1. IsReader(OnOpen(l, r, t))
  <2>1. IsClaim(NewClaim(l, r.claim, t.at))
    BY DEF NewClaim, NoClaim, IsClaim
  <2>2. IsClaim([r.claim EXCEPT !.sources = @ \cup {t.at}])
    BY ClaimIsKept
  <2>3. QED
    BY <2>1, <2>2 DEF OnOpen, Enter
<1>2. IsReader(OnEmpty(r, t))
  <2>1. IsClaim([r.claim EXCEPT !.sources = @ \cup {t.at}])
    BY ClaimIsKept
  <2>2. QED
    BY <2>1 DEF OnEmpty
<1>3. IsReader(OnText(r, t))
  <2>1. \A v : IsClaim([r.claim EXCEPT !.level = v])
    BY ClaimIsKept
  <2>2. QED
    BY <2>1 DEF OnText
<1>4. IsReader(OnClose(l, r, t))
  <2>1. \A c \in ClaimRead(l, r) : IsClaim(c)
    <3>1. IsClaim([r.claim EXCEPT !.topic = r.buf["text"], !.level = Level(l, @), !.support = SupportRead(@)])
      BY DEF IsClaim
    <3>2. QED
      BY <3>1 DEF ClaimRead, IsDoc
  <2>2. IsClaim([r.claim EXCEPT !.support = None])
    BY ClaimIsKept
  <2>3. CASE t.tag = "claim"
    BY <2>1, <2>2, <2>3 DEF OnClose, Leave, IsDoc
  <2>4. CASE t.tag = "quote"
    <3>1. IsClaim([r.claim EXCEPT !.quotes = QuotesRead(r)])
      BY ClaimIsKept
    <3>2. QED
      BY <2>4, <3>1 DEF OnClose, Leave, IsDoc
  <2>5. CASE t.tag = "support_level"
    <3>1. \A v : IsClaim([r.claim EXCEPT !.support = v])
      BY ClaimIsKept
    <3>2. QED
      BY <2>5, <3>1 DEF OnClose, Leave, IsDoc
  <2>6. CASE t.tag = "counterargument"
    <3>1. IsClaim([r.claim EXCEPT !.counter = @ \cup Shown(r.buf[t.tag])])
      BY ClaimIsKept
    <3>2. QED
      BY <2>6, <3>1 DEF OnClose, Leave, IsDoc
  <2>7. CASE t.tag \notin {"claim", "quote", "support_level", "counterargument"}
    BY <2>7 DEF OnClose, Leave, IsDoc
  <2>8. QED
    BY <2>3, <2>4, <2>5, <2>6, <2>7
<1>5. QED
  BY <1>1, <1>2, <1>3, <1>4 DEF OnEvent

LEMMA ParsedHasShape ==
  ASSUME NEW l, NEW s, NEW n \in Nat
  PROVE  IsDoc(Parsed(l, s, n))
<1>1. PICK g : Trace(l, Start0, s, n, g) /\ Parsed(l, s, n) = g[n].doc
  BY ParsedIsTraced
<1>2. /\ g[0] = Start0
      /\ \A k \in 1 .. n : g[k] = OnEvent(l, g[k - 1], s[k])
  BY <1>1 DEF Trace
<1> DEFINE Bad == {k \in 0 .. n : ~IsReader(g[k])}
<1>3. Bad = {}
  <2> SUFFICES ASSUME Bad # {} PROVE FALSE
    OBVIOUS
  <2>0. Bad \in SUBSET Nat
    OBVIOUS
  <2>1. PICK m \in Bad : \A k \in Bad : m <= k
    <3> HIDE DEF Bad
    <3>1. QED
      BY <2>0, LeastNumber
  <2>2. m # 0
    BY <1>2 DEF IsReader, IsDoc, IsClaim, Start0, NoDoc, NoClaim
  <2>3. m - 1 \in 0 .. n /\ m \in 1 .. n /\ m - 1 \notin Bad
    BY <2>1, <2>2
  <2>4. IsReader(g[m - 1]) /\ g[m] = OnEvent(l, g[m - 1], s[m])
    BY <1>2, <2>3
  <2>5. QED
    BY <2>4, EventKeepsShape
<1>4. QED
  BY <1>1, <1>3 DEF IsReader

-----------------------------------------------------------------------------
(***************************************************************************)
(* A reading of the events s: the states the reader passes through from r  *)
(* to q, while the claims that are closed are counted from a to b; at each *)
(* of its places the claims read are those that the count stands for.      *)
(***************************************************************************)
Listed(s) == \E T : s \in Seq(T)

Steps(l, e, r, q, a, b) == q = OnEvent(l, r, e) /\ b = a + (IF e = Close("claim") THEN 1 ELSE 0)
Follows(l, sets, s, g, c) ==
  /\ g = [k \in 0 .. Len(s) |-> g[k]] /\ c \in [0 .. Len(s) -> Nat]
  /\ \A k \in 1 .. Len(s) : Steps(l, s[k], g[k - 1], g[k], c[k - 1], c[k])
  /\ \A k \in 0 .. Len(s) : g[k].doc.claims = sets[c[k]]
Reads(l, sets, r, s, q, a, b) ==
  /\ Listed(s)
  /\ \E g, c : Follows(l, sets, s, g, c) /\ g[0] = r /\ g[Len(s)] = q /\ c[0] = a /\ c[Len(s)] = b

LEMMA ListedByLength ==
  ASSUME NEW n \in Nat, NEW s, s = [i \in 1 .. n |-> s[i]]
  PROVE  Listed(s) /\ Len(s) = n /\ DOMAIN s = 1 .. n
<1> DEFINE T == {s[i] : i \in 1 .. n}
<1>1. s \in [1 .. n -> T]
  OBVIOUS
<1>2. s \in Seq(T)
  BY <1>1, SeqDef
<1>3. Len(s) \in Nat /\ 1 .. Len(s) = 1 .. n
  BY <1>1, <1>2
<1>4. Len(s) = n
  <2>1. n \in 1 .. n => n <= Len(s)
    BY <1>3
  <2>2. Len(s) \in 1 .. Len(s) => Len(s) <= n
    BY <1>3
  <2>3. QED
    BY <1>3, <2>1, <2>2
<1>5. QED
  BY <1>1, <1>2, <1>4 DEF Listed

LEMMA ListedIs ==
  ASSUME NEW s, Listed(s)
  PROVE  Len(s) \in Nat /\ DOMAIN s = 1 .. Len(s) /\ s = [i \in 1 .. Len(s) |-> s[i]]
  BY DEF Listed

LEMMA Concatenated ==
  ASSUME NEW s, NEW t, Listed(s), Listed(t)
  PROVE  /\ Listed(s \o t) /\ Len(s \o t) = Len(s) + Len(t)
         /\ \A i \in 1 .. Len(s) + Len(t) : (s \o t)[i] = IF i <= Len(s) THEN s[i] ELSE t[i - Len(s)]
<1>1. PICK S, T : s \in Seq(S) /\ t \in Seq(T)
  BY DEF Listed
<1>2. s \in Seq(S \cup T) /\ t \in Seq(S \cup T)
  BY <1>1, SeqMonotonic
<1>3. QED
  BY <1>2, ConcatProperties DEF Listed

LEMMA ReadNothing ==
  ASSUME NEW l, NEW sets, NEW r, NEW a \in Nat, r.doc.claims = sets[a]
  PROVE  Reads(l, sets, r, <<>>, r, a, a)
<1> DEFINE g == [k \in 0 .. 0 |-> r]
           c == [k \in 0 .. 0 |-> a]
<1>1. Len(<<>>) = 0 /\ Listed(<<>>) /\ 0 \in 0 .. 0 /\ 1 .. 0 = {}
  BY DEF Listed
<1>2. Follows(l, sets, <<>>, g, c)
  BY <1>1 DEF Follows
<1>3. g[0] = r /\ c[0] = a
  BY <1>1
<1>4. QED
  BY <1>1, <1>2, <1>3 DEF Reads

LEMMA ReadOne ==
  ASSUME NEW l, NEW sets, NEW r, NEW e, NEW q, NEW a \in Nat, NEW b \in Nat,
         Steps(l, e, r, q, a, b), r.doc.claims = sets[a], q.doc.claims = sets[b]
  PROVE  Reads(l, sets, r, <<e>>, q, a, b)
<1> DEFINE g == [k \in 0 .. 1 |-> IF k = 0 THEN r ELSE q]
           c == [k \in 0 .. 1 |-> IF k = 0 THEN a ELSE b]
<1>1. Len(<<e>>) = 1 /\ Listed(<<e>>) /\ <<e>>[1] = e
  <2>1. <<e>> \in Seq({e})
    OBVIOUS
  <2>2. QED
    BY <2>1 DEF Listed
<1>2. 0 \in 0 .. 1 /\ 1 \in 0 .. 1 /\ 1 .. 1 = {1} /\ 0 .. 1 = {0, 1} /\ 1 - 1 = 0
  OBVIOUS
<1>3. g[0] = r /\ g[1] = q /\ c[0] = a /\ c[1] = b /\ g = [k \in 0 .. 1 |-> g[k]] /\ c \in [0 .. 1 -> Nat]
  BY <1>2
<1> HIDE DEF g, c
<1>4. Follows(l, sets, <<e>>, g, c)
  BY <1>1, <1>2, <1>3 DEF Follows
<1>5. QED
  BY <1>1, <1>3, <1>4 DEF Reads

LEMMA ReadBoth ==
  ASSUME NEW l, NEW sets, NEW r, NEW s, NEW q, NEW t, NEW z, NEW a, NEW b, NEW d,
         Reads(l, sets, r, s, q, a, b), Reads(l, sets, q, t, z, b, d)
  PROVE  Reads(l, sets, r, s \o t, z, a, d)
<1>1. PICK f, x : Follows(l, sets, s, f, x) /\ f[0] = r /\ f[Len(s)] = q /\ x[0] = a /\ x[Len(s)] = b
  BY DEF Reads
<1>2. PICK g, y : Follows(l, sets, t, g, y) /\ g[0] = q /\ g[Len(t)] = z /\ y[0] = b /\ y[Len(t)] = d
  BY DEF Reads
<1> DEFINE m == Len(s)
           n == Len(t)
           h == [k \in 0 .. m + n |-> IF k <= m THEN f[k] ELSE g[k - m]]
           w == [k \in 0 .. m + n |-> IF k <= m THEN x[k] ELSE y[k - m]]
<1>3. /\ Listed(s \o t) /\ Len(s \o t) = m + n /\ m \in Nat /\ n \in Nat
      /\ \A i \in 1 .. m + n : (s \o t)[i] = IF i <= m THEN s[i] ELSE t[i - m]
  BY Concatenated, ListedIs DEF Reads
<1>4. \A k \in 0 .. m : h[k] = f[k] /\ w[k] = x[k]
  BY <1>3
<1>5. \A k \in 0 .. n : h[m + k] = g[k] /\ w[m + k] = y[k]
  <2> TAKE k \in 0 .. n
  <2>1. CASE k = 0
    BY <1>1, <1>2, <1>3, <2>1
  <2>2. CASE k # 0
    <3>1. m + k \in 0 .. m + n /\ ~(m + k <= m) /\ (m + k) - m = k
      BY <1>3, <2>2
    <3>2. QED
      BY <3>1
  <2>3. QED
    BY <2>1, <2>2
<1>6. \A k \in 0 .. m + n : (k \in 0 .. m) \/ (k - m \in 0 .. n /\ m + (k - m) = k)
  BY <1>3
<1>7. h = [k \in 0 .. m + n |-> h[k]]
  OBVIOUS
<1>8. /\ x \in [0 .. m -> Nat] /\ y \in [0 .. n -> Nat]
      /\ \A k \in 1 .. m : Steps(l, s[k], f[k - 1], f[k], x[k - 1], x[k])
      /\ \A k \in 1 .. n : Steps(l, t[k], g[k - 1], g[k], y[k - 1], y[k])
      /\ \A k \in 0 .. m : f[k].doc.claims = sets[x[k]]
      /\ \A k \in 0 .. n : g[k].doc.claims = sets[y[k]]
  BY <1>1, <1>2 DEF Follows
<1>9. w \in [0 .. m + n -> Nat]
  BY <1>3, <1>6, <1>8
<1> HIDE DEF h, w
<1>10. ASSUME NEW k \in 1 .. m + n
       PROVE  Steps(l, (s \o t)[k], h[k - 1], h[k], w[k - 1], w[k])
  <2>1. CASE k <= m
    <3>1. k \in 1 .. m /\ k - 1 \in 0 .. m /\ k \in 0 .. m
      BY <1>3, <2>1
    <3>2. Steps(l, s[k], f[k - 1], f[k], x[k - 1], x[k]) /\ (s \o t)[k] = s[k]
      BY <1>3, <1>8, <2>1, <3>1
    <3>3. QED
      BY <1>4, <3>1, <3>2
  <2>2. CASE ~(k <= m)
    <3> DEFINE j == k - m
    <3>1. j \in 1 .. n /\ j - 1 \in 0 .. n /\ j \in 0 .. n /\ m + j = k /\ m + (j - 1) = k - 1
      BY <1>3, <2>2
    <3>2. Steps(l, t[j], g[j - 1], g[j], y[j - 1], y[j]) /\ (s \o t)[k] = t[j]
      BY <1>3, <1>8, <2>2, <3>1
    <3>3. h[k] = g[j] /\ w[k] = y[j] /\ h[k - 1] = g[j - 1] /\ w[k - 1] = y[j - 1]
      BY <1>5, <3>1
    <3>4. QED
      BY <3>2, <3>3
  <2>3. QED
    BY <2>1, <2>2
<1>11. ASSUME NEW k \in 0 .. m + n PROVE h[k].doc.claims = sets[w[k]]
  <2>1. CASE k \in 0 .. m
    BY <1>4, <1>8, <2>1
  <2>2. CASE k - m \in 0 .. n /\ m + (k - m) = k
    <3>1. g[k - m].doc.claims = sets[y[k - m]]
      BY <1>8, <2>2
    <3>2. h[k] = g[k - m] /\ w[k] = y[k - m]
      BY <1>5, <2>2
    <3>3. QED
      BY <3>1, <3>2
  <2>3. QED
    BY <1>6, <2>1, <2>2
<1>12. Follows(l, sets, s \o t, h, w)
  BY <1>3, <1>7, <1>9, <1>10, <1>11 DEF Follows
<1>13. h[0] = r /\ w[0] = a /\ h[m + n] = z /\ w[m + n] = d
  BY <1>1, <1>2, <1>3, <1>4, <1>5
<1>14. QED
  BY <1>3, <1>12, <1>13 DEF Reads

\* What a set of numbers holds that has 0 and, with a number, the next one.
LEMMA CountingUp ==
  ASSUME NEW n \in Nat, NEW S, 0 \in S, \A k \in 0 .. n - 1 : k \in S => k + 1 \in S
  PROVE  \A k \in 0 .. n : k \in S
<1> DEFINE Bad == {k \in 0 .. n : k \notin S}
<1> SUFFICES ASSUME Bad # {} PROVE FALSE
  OBVIOUS
<1>1. Bad \in SUBSET Nat
  OBVIOUS
<1>2. PICK m \in Bad : \A k \in Bad : m <= k
  <2> HIDE DEF Bad
  <2>1. QED
    BY <1>1, LeastNumber
<1>3. m - 1 \in 0 .. n - 1 /\ m - 1 \notin Bad /\ (m - 1) + 1 = m
  BY <1>2
<1>4. QED
  BY <1>3

LEMMA ClosedOneMore ==
  ASSUME NEW s, NEW k \in Nat
  PROVE  /\ ClosedClaims(s, 0) = 0
         /\ IsFiniteSet({i \in 1 .. k : s[i] = Close("claim")})
         /\ ClosedClaims(s, k) \in Nat
         /\ ClosedClaims(s, k + 1) = ClosedClaims(s, k) + (IF s[k + 1] = Close("claim") THEN 1 ELSE 0)
<1> DEFINE closed(m) == {i \in 1 .. m : s[i] = Close("claim")}
<1>1. closed(0) = {} /\ Cardinality({}) = 0
  BY FS_EmptySet
<1>2. IsFiniteSet(1 .. k)
  BY FS_Interval
<1>3. IsFiniteSet(closed(k))
  BY <1>2, FS_Subset
<1>4. 1 .. k + 1 = (1 .. k) \cup {k + 1} /\ k + 1 \notin 1 .. k
  OBVIOUS
<1>5. CASE s[k + 1] = Close("claim")
  <2>1. closed(k + 1) = closed(k) \cup {k + 1} /\ k + 1 \notin closed(k)
    BY <1>4, <1>5
  <2>2. Cardinality(closed(k + 1)) = Cardinality(closed(k)) + 1
    BY <1>3, <2>1, FS_AddElement
  <2>3. QED
    BY <1>1, <1>3, <1>5, <2>2, FS_CardinalityType DEF ClosedClaims
<1>6. CASE s[k + 1] # Close("claim")
  <2>1. closed(k + 1) = closed(k)
    BY <1>4, <1>6
  <2>2. Cardinality(closed(k)) \in Nat
    BY <1>3, FS_CardinalityType
  <2>3. QED
    BY <1>1, <1>3, <1>6, <2>1, <2>2 DEF ClosedClaims
<1>7. QED
  BY <1>5, <1>6

\* What is parsed of the first n events is what the reading has there.
LEMMA ReadingIsParsed ==
  ASSUME NEW l, NEW sets, NEW s, NEW q, NEW b, Reads(l, sets, Start0, s, q, 0, b), NEW n \in 0 .. Len(s)
  PROVE  ClosedClaims(s, n) \in Nat /\ Parsed(l, s, n).claims = sets[ClosedClaims(s, n)]
<1>1. PICK f, c : Follows(l, sets, s, f, c) /\ f[0] = Start0 /\ c[0] = 0
  BY DEF Reads
<1>2. n \in Nat /\ n <= Len(s) /\ Len(s) \in Nat
  BY ListedIs DEF Reads
<1>3. PICK g : Trace(l, Start0, s, n, g) /\ Parsed(l, s, n) = g[n].doc
  BY <1>2, ParsedIsTraced
<1>4. g[0] = Start0 /\ \A k \in 0 .. n - 1 : g[k + 1] = OnEvent(l, g[k], s[k + 1])
  <2>1. \A k \in 0 .. n : g[k] = IF k = 0 THEN Start0 ELSE OnEvent(l, g[k - 1], s[k])
    BY <1>3 DEF Trace
  <2>2. \A k \in 0 .. n - 1 : k + 1 \in 0 .. n /\ k + 1 # 0 /\ (k + 1) - 1 = k
    BY <1>2
  <2>3. QED
    BY <1>2, <2>1, <2>2
<1>5. ASSUME NEW k \in 0 .. n - 1
      PROVE  Steps(l, s[k + 1], f[k], f[k + 1], c[k], c[k + 1])
  <2>1. k + 1 \in 1 .. Len(s) /\ (k + 1) - 1 = k
    BY <1>2
  <2>2. QED
    BY <1>1, <2>1 DEF Follows
<1> DEFINE Same == {k \in 0 .. n : f[k] = g[k] /\ c[k] = ClosedClaims(s, k)}
<1>6. 0 \in Same
  <2>1. ClosedClaims(s, 0) = 0
    BY ClosedOneMore, 0 \in Nat
  <2>2. QED
    BY <1>1, <1>2, <1>4, <2>1
<1>7. ASSUME NEW k \in 0 .. n - 1, k \in Same PROVE k + 1 \in Same
  <2>1. k \in Nat /\ k + 1 \in 0 .. n
    BY <1>2
  <2>2. f[k + 1] = g[k + 1]
    BY <1>4, <1>5, <1>7 DEF Steps
  <2>3. c[k + 1] = ClosedClaims(s, k + 1)
    <3>1. ClosedClaims(s, k + 1) = ClosedClaims(s, k) + (IF s[k + 1] = Close("claim") THEN 1 ELSE 0)
      BY <2>1, ClosedOneMore
    <3>2. QED
      BY <1>5, <1>7, <3>1 DEF Steps
  <2>4. QED
    BY <2>1, <2>2, <2>3
<1>8. \A k \in 0 .. n : k \in Same
  <2> HIDE DEF Same
  <2>1. QED
    BY <1>2, <1>6, <1>7, CountingUp
<1>9. f[n] = g[n] /\ c[n] = ClosedClaims(s, n)
  BY <1>2, <1>8
<1>10. c[n] \in Nat /\ f[n].doc.claims = sets[c[n]]
  BY <1>1, <1>2 DEF Follows
<1>11. QED
  BY <1>3, <1>9, <1>10

-----------------------------------------------------------------------------
(***************************************************************************)
(* The reader's places: no element that takes text is open, so that the    *)
(* next one begins with nothing of the last.                               *)
(***************************************************************************)
Takers   == {"narrative", "gap", "text", "agreement_level", "quote", "support_level", "counterargument"}

LEMMA TakersAre == Takers = Range(TextTags) /\ None \notin Takers
<1>1. Takers = Range(TextTags)
  BY DEF Takers, TextTags, Range
<1>2. QED
  BY <1>1, SynthesisAssumption

Ready(r) == IsReader(r) /\ r.open \cap Takers = {} /\ r.section = None /\ r.quoteOf = None
Between(r, claims) == Ready(r) /\ r.doc.claims = claims
Inside(r, claims, claim, text) ==
  /\ Ready(r) /\ "claim" \in r.open
  /\ r.claim = claim /\ r.buf["text"] = text /\ r.doc.claims = claims

\* Events after which the claims read are the same.
ClosesNoClaim(e) == e.ev \in {"open", "empty", "text"} \/ e.tag # "claim"

LEMMA SilentKeepsClaims ==
  ASSUME NEW l, NEW r, NEW e, IsReader(r), ClosesNoClaim(e)
  PROVE  OnEvent(l, r, e).doc.claims = r.doc.claims /\ e # Close("claim")
<1> USE DEF IsReader, IsClaim, IsDoc
<1>1. OnOpen(l, r, e).doc.claims = r.doc.claims
  BY DEF OnOpen, Enter
<1>2. OnEmpty(r, e).doc.claims = r.doc.claims
  BY DEF OnEmpty
<1>3. OnText(r, e).doc.claims = r.doc.claims
  BY DEF OnText
<1>4. e.tag # "claim" => OnClose(l, r, e).doc.claims = r.doc.claims
  BY DEF OnClose, Leave
<1>5. QED
  BY <1>1, <1>2, <1>3, <1>4 DEF OnEvent, ClosesNoClaim, Close

LEMMA ReadSilent ==
  ASSUME NEW l, NEW sets, NEW r, NEW e, NEW a \in Nat, IsReader(r), ClosesNoClaim(e), r.doc.claims = sets[a]
  PROVE  /\ Reads(l, sets, r, <<e>>, OnEvent(l, r, e), a, a)
         /\ IsReader(OnEvent(l, r, e)) /\ OnEvent(l, r, e).doc.claims = sets[a]
<1>1. OnEvent(l, r, e).doc.claims = r.doc.claims /\ e # Close("claim")
  BY SilentKeepsClaims
<1>2. Steps(l, e, r, OnEvent(l, r, e), a, a)
  BY <1>1 DEF Steps
<1>3. QED
  BY <1>1, <1>2, ReadOne, EventKeepsShape

\* Text goes to the one element that is open.
LEMMA TextIsTaken ==
  ASSUME NEW r, IsReader(r), NEW tag \in Takers, r.open \cap Takers = {tag}
  PROVE  Taker(r) = tag
<1> DEFINE at == {i \in 1 .. Len(TextTags) : TextTags[i] \in r.open}
<1>1. PICK i \in 1 .. 7 : TextTags[i] = tag
  BY DEF Takers, TextTags
<1>2. Len(TextTags) = 7 /\ \A k \in 1 .. 7 : TextTags[k] \in Takers /\ (k # i => TextTags[k] # TextTags[i])
  BY DEF Takers, TextTags
<1>3. at = {i}
  BY <1>1, <1>2
<1>4. Min(at) = i
  BY <1>3 DEF Min
<1>5. SelectInSeq(TextTags, LAMBDA t : t \in r.open) = i
  BY <1>3, <1>4 DEF SelectInSeq
<1>6. QED
  BY <1>1, <1>5 DEF Taker

-----------------------------------------------------------------------------
(***************************************************************************)
(* The elements of a claim, one by one: each changes its own field.        *)
(***************************************************************************)
LEMMA ReadEnd ==
  ASSUME NEW l, NEW sets, NEW r, NEW s, NEW q, NEW a, NEW b, Reads(l, sets, r, s, q, a, b)
  PROVE  q.doc.claims = sets[b] /\ a \in Nat /\ b \in Nat
<1>1. PICK g, c : Follows(l, sets, s, g, c) /\ g[Len(s)] = q /\ c[0] = a /\ c[Len(s)] = b
  BY DEF Reads
<1>2. Len(s) \in Nat
  BY ListedIs DEF Reads
<1>3. QED
  BY <1>1, <1>2 DEF Follows

LEMMA ReadAround ==
  ASSUME NEW l, NEW sets, NEW r, NEW tag, NEW at, NEW inner, NEW q, NEW a \in Nat, NEW b,
         tag # "claim", IsReader(r), r.doc.claims = sets[a], IsReader(q),
         Reads(l, sets, OnEvent(l, r, Open(tag, at)), inner, q, a, b)
  PROVE  Reads(l, sets, r, Element(tag, at, inner), OnEvent(l, q, Close(tag)), a, b)
<1>1. Reads(l, sets, r, <<Open(tag, at)>>, OnEvent(l, r, Open(tag, at)), a, a)
  BY ReadSilent DEF ClosesNoClaim, Open
<1>2. q.doc.claims = sets[b] /\ b \in Nat
  BY ReadEnd
<1>3. Reads(l, sets, q, <<Close(tag)>>, OnEvent(l, q, Close(tag)), b, b)
  BY <1>2, ReadSilent DEF ClosesNoClaim, Close
<1>4. Reads(l, sets, r, <<Open(tag, at)>> \o inner, q, a, b)
  BY <1>1, ReadBoth
<1>5. Reads(l, sets, r, (<<Open(tag, at)>> \o inner) \o <<Close(tag)>>, OnEvent(l, q, Close(tag)), a, b)
  BY <1>3, <1>4, ReadBoth
<1>6. QED
  BY <1>5 DEF Element

\* q holds the text v of an element that r opened.
Holding(q, r, tag, at, v) ==
  /\ IsReader(q) /\ q.open = r.open \cup {tag}
  /\ \A b \in Buffer : q.buf[b] = IF b = tag THEN Unescaped(v) ELSE r.buf[b]
  /\ q.claim = r.claim /\ q.doc = r.doc /\ q.section = r.section
  /\ q.quoteOf = IF tag = "quote" THEN at ELSE r.quoteOf

LEMMA TextIsHeld ==
  ASSUME NEW l, NEW sets, NEW r, NEW a \in Nat, Ready(r), "claim" \in r.open, r.doc.claims = sets[a],
         NEW tag \in {"text", "support_level", "counterargument", "quote"}, NEW at, NEW v
  PROVE  \E q : Holding(q, r, tag, at, v) /\ Reads(l, sets, r, <<Open(tag, at)>> \o <<Chars(v)>>, q, a, a)
<1> DEFINE o == OnEvent(l, r, Open(tag, at))
           q == OnEvent(l, o, Chars(v))
<1> IsReader(r)
  BY DEF Ready
<1>1. Reads(l, sets, r, <<Open(tag, at)>>, o, a, a) /\ IsReader(o) /\ o.doc.claims = sets[a]
  BY ReadSilent DEF ClosesNoClaim, Open
<1>2. /\ o.open = r.open \cup {tag} /\ o.buf = [r.buf EXCEPT ![tag] = <<>>]
      /\ o.claim = r.claim /\ o.doc = r.doc /\ o.section = r.section
      /\ o.quoteOf = IF tag = "quote" THEN at ELSE r.quoteOf
  BY DEF OnEvent, Open, OnOpen, Enter, InClaim, IsReader
<1>3. Reads(l, sets, o, <<Chars(v)>>, q, a, a) /\ IsReader(q)
  <2> HIDE DEF o
  <2>1. QED
    BY <1>1, ReadSilent DEF ClosesNoClaim, Chars
<1>4. o.open \cap Takers = {tag} /\ tag \in Takers
  <2> HIDE DEF o
  <2>1. QED
    BY <1>2 DEF Ready, Takers
<1>5. Taker(o) = tag
  <2> HIDE DEF o
  <2>1. QED
    BY <1>1, <1>4, TextIsTaken
<1>6. q = [o EXCEPT !.buf[tag] = @ \o Unescaped(v)]
  <2> HIDE DEF o
  <2>1. QED
    BY <1>4, <1>5, TakersAre DEF OnEvent, Chars, OnText
<1>7. \A b \in Buffer : q.buf[b] = IF b = tag THEN Unescaped(v) ELSE r.buf[b]
  <2> HIDE DEF o
  <2>1. tag \in Buffer /\ DOMAIN r.buf = Buffer /\ DOMAIN o.buf = Buffer
    BY <1>1 DEF IsReader, Buffer
  <2>2. o.buf[tag] = <<>> /\ \A b \in Buffer : b # tag => o.buf[b] = r.buf[b]
    BY <1>2, <2>1
  <2>3. q.buf = [o.buf EXCEPT ![tag] = o.buf[tag] \o Unescaped(v)]
    BY <1>1, <1>6 DEF IsReader
  <2>4. <<>> \o Unescaped(v) = Unescaped(v)
    BY DEF Unescaped
  <2>5. QED
    BY <2>1, <2>2, <2>3, <2>4
<1>8. Holding(q, r, tag, at, v)
  <2> HIDE DEF o
  <2>1. QED
    BY <1>1, <1>2, <1>3, <1>6, <1>7 DEF Holding, IsReader
<1>9. QED
  <2> HIDE DEF o, q
  <2>1. QED
    BY <1>1, <1>3, <1>8, ReadBoth

LEMMA TextIsRead ==
  ASSUME NEW l, NEW sets, NEW a \in Nat, NEW r, NEW claim, NEW v, v # None, Inside(r, sets[a], claim, <<>>)
  PROVE  \E q : Inside(q, sets[a], claim, Unescaped(v)) /\ Reads(l, sets, r, Field("text", v), q, a, a)
<1>1. PICK h : /\ Holding(h, r, "text", None, v)
               /\ Reads(l, sets, r, <<Open("text", None)>> \o <<Chars(v)>>, h, a, a)
  BY TextIsHeld DEF Inside
<1> DEFINE q == OnEvent(l, h, Close("text"))
<1>2. h.doc.claims = sets[a] /\ IsReader(h)
  BY <1>1 DEF Holding, Inside
<1>3. Reads(l, sets, h, <<Close("text")>>, q, a, a) /\ IsReader(q)
  BY <1>2, ReadSilent DEF ClosesNoClaim, Close
<1>4. Reads(l, sets, r, Field("text", v), q, a, a)
  BY <1>1, <1>3, ReadBoth DEF Field, Element
<1>5. q = [h EXCEPT !.open = @ \ {"text"}]
  BY <1>1 DEF OnEvent, Close, OnClose, Leave, InClaim, Holding, Inside
<1>6. Inside(q, sets[a], claim, Unescaped(v))
  BY <1>1, <1>2, <1>3, <1>5 DEF Holding, Inside, Ready, IsReader, Buffer, Takers
<1>7. QED
  BY <1>4, <1>6

LEMMA SupportIsRead ==
  ASSUME NEW l, NEW sets, NEW a \in Nat, NEW r, NEW claim, NEW text, NEW v, v # None, Legible(v),
         Inside(r, sets[a], claim, text)
  PROVE  \E q : /\ Inside(q, sets[a], [claim EXCEPT !.support = v], text)
                /\ Reads(l, sets, r, Field("support_level", v), q, a, a)
<1>1. PICK h : /\ Holding(h, r, "support_level", None, v)
               /\ Reads(l, sets, r, <<Open("support_level", None)>> \o <<Chars(v)>>, h, a, a)
  BY TextIsHeld DEF Inside
<1> DEFINE q == OnEvent(l, h, Close("support_level"))
<1>2. h.doc.claims = sets[a] /\ IsReader(h)
  BY <1>1 DEF Holding, Inside
<1>3. Reads(l, sets, h, <<Close("support_level")>>, q, a, a) /\ IsReader(q)
  BY <1>2, ReadSilent DEF ClosesNoClaim, Close
<1>4. Reads(l, sets, r, Field("support_level", v), q, a, a)
  BY <1>1, <1>3, ReadBoth DEF Field, Element
<1>5. h.buf["support_level"] = <<v>>
  BY <1>1 DEF Holding, Buffer, Unescaped, Legible
<1>6. q = [h EXCEPT !.open = @ \ {"support_level"}, !.claim.support = v, !.buf["support_level"] = <<>>]
  <2>1. <<v>>[1] = v /\ InClaim(h)
    BY <1>1 DEF InClaim, Holding, Inside
  <2>2. h.buf["support_level"] # <<>>
    BY <1>5
  <2>3. q = [Leave(h, {"support_level"}) EXCEPT !.claim.support = h.buf["support_level"][1],
                                                !.buf["support_level"] = <<>>]
    BY <2>1, <2>2 DEF OnEvent, Close, OnClose
  <2>4. QED
    BY <1>5, <2>1, <2>3 DEF Leave
<1> HIDE DEF q
<1>7. q.claim = [claim EXCEPT !.support = v] /\ q.buf["text"] = text
  <2>1. h.claim = claim /\ h.buf["text"] = text /\ DOMAIN h.buf = Buffer
    BY <1>1, <1>2 DEF Holding, Inside, IsReader, Buffer
  <2>2. QED
    BY <1>2, <1>6, <2>1 DEF IsReader, Buffer
<1>8. Inside(q, sets[a], [claim EXCEPT !.support = v], text)
  BY <1>1, <1>2, <1>3, <1>6, <1>7 DEF Holding, Inside, Ready, IsReader, Takers
<1>9. QED
  BY <1>4, <1>8

LEMMA CounterIsRead ==
  ASSUME NEW l, NEW sets, NEW a \in Nat, NEW r, NEW claim, NEW text, NEW v, v # None,
         Inside(r, sets[a], claim, text)
  PROVE  \E q : /\ Inside(q, sets[a], [claim EXCEPT !.counter = @ \cup Shown(Unescaped(v))], text)
                /\ Reads(l, sets, r, Field("counterargument", v), q, a, a)
<1>1. PICK h : /\ Holding(h, r, "counterargument", None, v)
               /\ Reads(l, sets, r, <<Open("counterargument", None)>> \o <<Chars(v)>>, h, a, a)
  BY TextIsHeld DEF Inside
<1> DEFINE q == OnEvent(l, h, Close("counterargument"))
<1>2. h.doc.claims = sets[a] /\ IsReader(h)
  BY <1>1 DEF Holding, Inside
<1>3. Reads(l, sets, h, <<Close("counterargument")>>, q, a, a) /\ IsReader(q)
  BY <1>2, ReadSilent DEF ClosesNoClaim, Close
<1>4. Reads(l, sets, r, Field("counterargument", v), q, a, a)
  BY <1>1, <1>3, ReadBoth DEF Field, Element
<1>5. h.buf["counterargument"] = Unescaped(v)
  BY <1>1 DEF Holding, Buffer
<1>6. q = [h EXCEPT !.open = @ \ {"counterargument"}, !.claim.counter = @ \cup Shown(Unescaped(v)),
                    !.buf["counterargument"] = <<>>]
  BY <1>1, <1>2, <1>5 DEF OnEvent, Close, OnClose, Leave, Holding, Inside, IsReader
<1> HIDE DEF q
<1>7. q.claim = [claim EXCEPT !.counter = @ \cup Shown(Unescaped(v))] /\ q.buf["text"] = text
  <2>1. h.claim = claim /\ h.buf["text"] = text /\ DOMAIN h.buf = Buffer
    BY <1>1, <1>2 DEF Holding, Inside, IsReader, Buffer
  <2>2. QED
    BY <1>2, <1>6, <2>1 DEF IsReader, Buffer
<1>8. Inside(q, sets[a], [claim EXCEPT !.counter = @ \cup Shown(Unescaped(v))], text)
  BY <1>1, <1>2, <1>3, <1>6, <1>7 DEF Holding, Inside, Ready, IsReader, Takers
<1>9. QED
  BY <1>4, <1>8

\* What is read of a quote v of the source at; none when it names no source or is garbled.
QuoteOf(at, v) == IF at = None \/ ~Legible(v) THEN {} ELSE {[source |-> at, text |-> <<v>>]}

LEMMA QuoteIsRead ==
  ASSUME NEW l, NEW sets, NEW a \in Nat, NEW r, NEW claim, NEW text, NEW at, NEW v,
         Inside(r, sets[a], claim, text)
  PROVE  \E q : /\ Inside(q, sets[a], [claim EXCEPT !.quotes = @ \cup QuoteOf(at, v)], text)
                /\ Reads(l, sets, r, Element("quote", at, <<Chars(v)>>), q, a, a)
<1>1. PICK h : /\ Holding(h, r, "quote", at, v)
               /\ Reads(l, sets, r, <<Open("quote", at)>> \o <<Chars(v)>>, h, a, a)
  BY TextIsHeld DEF Inside
<1> DEFINE q == OnEvent(l, h, Close("quote"))
<1>2. h.doc.claims = sets[a] /\ IsReader(h)
  BY <1>1 DEF Holding, Inside
<1>3. Reads(l, sets, h, <<Close("quote")>>, q, a, a) /\ IsReader(q)
  BY <1>2, ReadSilent DEF ClosesNoClaim, Close
<1>4. Reads(l, sets, r, Element("quote", at, <<Chars(v)>>), q, a, a)
  BY <1>1, <1>3, ReadBoth DEF Element
<1>5. h.buf["quote"] = Unescaped(v) /\ h.quoteOf = at
  BY <1>1 DEF Holding, Buffer
<1>6. QuotesRead(h) = h.claim.quotes \cup QuoteOf(at, v)
  BY <1>5 DEF QuotesRead, QuoteOf, Unescaped, Legible
<1>7. q = [h EXCEPT !.open = @ \ {"quote"}, !.claim.quotes = @ \cup QuoteOf(at, v), !.quoteOf = None]
  BY <1>1, <1>2, <1>6 DEF OnEvent, Close, OnClose, Leave, InClaim, Holding, Inside, IsReader
<1> HIDE DEF q
<1>8. q.claim = [claim EXCEPT !.quotes = @ \cup QuoteOf(at, v)] /\ q.buf["text"] = text
  <2>1. h.claim = claim /\ h.buf["text"] = text
    BY <1>1 DEF Holding, Inside, Buffer
  <2>2. QED
    BY <1>2, <1>7, <2>1 DEF IsReader
<1>9. Inside(q, sets[a], [claim EXCEPT !.quotes = @ \cup QuoteOf(at, v)], text)
  BY <1>1, <1>2, <1>3, <1>7, <1>8 DEF Holding, Inside, Ready, IsReader, Takers
<1>10. QED
  BY <1>4, <1>9

\* The level is kept without a buffer.
LEMMA LevelIsRead ==
  ASSUME NEW l, NEW sets, NEW a \in Nat, NEW r, NEW claim, NEW text, NEW v, v # None, Legible(v),
         Inside(r, sets[a], claim, text)
  PROVE  \E q : /\ Inside(q, sets[a], [claim EXCEPT !.level = v], text)
                /\ Reads(l, sets, r, Field("agreement_level", v), q, a, a)
<1> DEFINE o == OnEvent(l, r, Open("agreement_level", None))
           h == OnEvent(l, o, Chars(v))
           q == OnEvent(l, h, Close("agreement_level"))
<1> IsReader(r) /\ r.doc.claims = sets[a]
  BY DEF Inside, Ready
<1>1. Reads(l, sets, r, <<Open("agreement_level", None)>>, o, a, a) /\ IsReader(o) /\ o.doc.claims = sets[a]
  BY ReadSilent DEF ClosesNoClaim, Open
<1>2. o = [r EXCEPT !.open = @ \cup {"agreement_level"}]
  BY DEF OnEvent, Open, OnOpen, InClaim, Inside
<1> HIDE DEF o
<1>3. Reads(l, sets, o, <<Chars(v)>>, h, a, a) /\ IsReader(h) /\ h.doc.claims = sets[a]
  BY <1>1, ReadSilent DEF ClosesNoClaim, Chars
<1>4. Taker(o) = "agreement_level" /\ "agreement_level" # None
  <2>1. o.open \cap Takers = {"agreement_level"} /\ "agreement_level" \in Takers
    BY <1>2 DEF Inside, Ready, Takers, IsReader
  <2>2. QED
    BY <1>1, <2>1, TextIsTaken, TakersAre
<1>5. h = [o EXCEPT !.claim.level = v]
  BY <1>4 DEF OnEvent, Chars, OnText, Legible
<1> HIDE DEF h
<1>6. Reads(l, sets, h, <<Close("agreement_level")>>, q, a, a) /\ IsReader(q)
  BY <1>3, ReadSilent DEF ClosesNoClaim, Close
<1>7. q = [h EXCEPT !.open = @ \ {"agreement_level"}]
  BY <1>1, <1>2, <1>5 DEF OnEvent, Close, OnClose, Leave, InClaim, Inside, IsReader
<1> HIDE DEF q
<1>8. Reads(l, sets, r, Field("agreement_level", v), q, a, a)
  <2>1. Reads(l, sets, r, <<Open("agreement_level", None)>> \o <<Chars(v)>>, h, a, a)
    BY <1>1, <1>3, ReadBoth
  <2>2. QED
    BY <1>6, <2>1, ReadBoth DEF Field, Element
<1>9. Inside(q, sets[a], [claim EXCEPT !.level = v], text)
  BY <1>1, <1>2, <1>3, <1>5, <1>6, <1>7 DEF Inside, Ready, IsReader, Takers
<1>10. QED
  BY <1>8, <1>9

-----------------------------------------------------------------------------
(***************************************************************************)
(* Sequences of elements: one written after the other, one of each member  *)
(* of a finite set.                                                        *)
(***************************************************************************)
Flattens(seqs, n, f) == f = [i \in 1 .. n |-> IF i = 1 THEN seqs[i] ELSE f[i - 1] \o seqs[i]]

Flattened(seqs, n) == \E f : Flattens(seqs, n, f)

LEMMA FlatteningExists ==
  ASSUME NEW seqs, NEW n \in Nat
  PROVE  Flattened(seqs, n)
<1>1. Flattened(seqs, 0)
  <2> DEFINE f == [i \in 1 .. 0 |-> seqs[i]]
  <2>1. f = [i \in 1 .. 0 |-> IF i = 1 THEN seqs[i] ELSE f[i - 1] \o seqs[i]]
    OBVIOUS
  <2>2. QED
    BY <2>1 DEF Flattened, Flattens
<1>2. ASSUME NEW m \in Nat, Flattened(seqs, m)
      PROVE  Flattened(seqs, m + 1)
  <2>1. PICK f : f = [i \in 1 .. m |-> IF i = 1 THEN seqs[i] ELSE f[i - 1] \o seqs[i]]
    BY <1>2 DEF Flattened, Flattens
  <2> DEFINE h == [i \in 1 .. m + 1 |-> IF i = 1 THEN seqs[i] ELSE f[i - 1] \o seqs[i]]
  <2>2. ASSUME NEW i \in 1 .. m PROVE h[i] = f[i]
    <3>1. h[i] = IF i = 1 THEN seqs[i] ELSE f[i - 1] \o seqs[i]
      OBVIOUS
    <3> HIDE DEF h
    <3>2. f[i] = IF i = 1 THEN seqs[i] ELSE f[i - 1] \o seqs[i]
      BY <2>1
    <3>3. QED
      BY <3>1, <3>2
  <2>3. \A i \in 1 .. m + 1 : i # 1 => i - 1 \in 1 .. m
    OBVIOUS
  <2>4. h = [i \in 1 .. m + 1 |-> IF i = 1 THEN seqs[i] ELSE h[i - 1] \o seqs[i]]
    BY <2>2, <2>3
  <2>5. QED
    BY <2>4 DEF Flattened, Flattens
<1> DEFINE Good == {m \in 0 .. n : Flattened(seqs, m)}
<1>3. 0 \in Good /\ \A m \in 0 .. n - 1 : m \in Good => m + 1 \in Good
  <2>1. \A m \in 0 .. n - 1 : m \in Nat /\ m + 1 \in 0 .. n
    OBVIOUS
  <2>2. QED
    BY <1>1, <1>2, <2>1
<1>4. n \in Good
  <2> HIDE DEF Good
  <2>1. QED
    BY <1>3, CountingUp
<1>5. QED
  BY <1>4

\* f: what is written after 0, 1, ... of the elements seqs.
Writes(seqs, n, f) ==
  /\ f[0] = <<>> /\ f[n] = FlattenSeq(seqs)
  /\ \A j \in 0 .. n - 1 : f[j + 1] = f[j] \o seqs[j + 1]

LEMMA WrittenInTurn ==
  ASSUME NEW n \in Nat, NEW seqs, seqs = [i \in 1 .. n |-> seqs[i]], \A i \in 1 .. n : Listed(seqs[i])
  PROVE  \E f : Writes(seqs, n, f)
<1>1. Len(seqs) = n
  BY ListedByLength
<1>2. CASE n = 0
  <2>1. seqs = <<>>
    BY <1>2
  <2>2. FlattenSeq(seqs) = <<>>
    BY <1>1, <1>2, <2>1 DEF FlattenSeq
  <2> DEFINE f == [j \in {0} |-> <<>>]
  <2>3. Writes(seqs, n, f)
    BY <1>2, <2>2 DEF Writes
  <2>4. QED
    BY <2>3
<1>3. CASE n # 0
  <2> DEFINE g == CHOOSE h : Flattens(seqs, n, h)
  <2>1. Flattens(seqs, n, g)
    BY FlatteningExists DEF Flattened
  <2>2. FlattenSeq(seqs) = g[n]
    BY <1>1, <1>3 DEF FlattenSeq, Flattens
  <2> HIDE DEF g
  <2> DEFINE f == [j \in 0 .. n |-> IF j = 0 THEN <<>> ELSE g[j]]
  <2>3. ASSUME NEW j \in 0 .. n - 1
        PROVE  f[j + 1] = f[j] \o seqs[j + 1]
    <3>1. j + 1 \in 1 .. n /\ (j + 1) - 1 = j /\ j \in 0 .. n /\ j + 1 \in 0 .. n
      OBVIOUS
    <3>2. f[j + 1] = IF j = 0 THEN seqs[j + 1] ELSE g[j] \o seqs[j + 1]
      <4>1. f[j + 1] = g[j + 1] /\ (j + 1 = 1 <=> j = 0)
        BY <3>1
      <4>2. g[j + 1] = IF j + 1 = 1 THEN seqs[j + 1] ELSE g[(j + 1) - 1] \o seqs[j + 1]
        BY <2>1, <3>1 DEF Flattens
      <4>3. QED
        BY <3>1, <4>1, <4>2
    <3>3. <<>> \o seqs[j + 1] = seqs[j + 1]
      BY <3>1 DEF Listed
    <3>4. QED
      BY <3>1, <3>2, <3>3
  <2>4. f[0] = <<>> /\ f[n] = FlattenSeq(seqs)
    BY <1>3, <2>2
  <2> HIDE DEF f
  <2>5. Writes(seqs, n, f)
    BY <2>3, <2>4 DEF Writes
  <2>6. QED
    BY <2>5
<1>4. QED
  BY <1>2, <1>3

LEMMA SetInTurn ==
  ASSUME NEW S, IsFiniteSet(S)
  PROVE  LET s == SetToSeq(S)
         IN  /\ Len(s) \in Nat
             /\ \A i \in 1 .. Len(s) : s[i] \in S
             /\ \A x \in S : \E i \in 1 .. Len(s) : s[i] = x
<1> DEFINE n == Cardinality(S)
           s == SetToSeq(S)
<1>1. n \in Nat
  BY FS_CardinalityType
<1>2. \E f : f \in [1 .. n -> S] /\ IsInjective(f)
  <2>1. \E f : f \in Bijection(1 .. n, S)
    BY FS_CardinalityType DEF ExistsBijection
  <2>2. QED
    BY <2>1 DEF Bijection, Injection
<1>3. s \in [1 .. n -> S] /\ IsInjective(s)
  BY <1>2 DEF SetToSeq
<1> HIDE DEF s
<1>4. s \in Surjection(1 .. n, S)
  <2>1. s \in Injection(1 .. n, S)
    BY <1>3 DEF Injection
  <2>2. Cardinality(1 .. n) = n
    BY <1>1, FS_Interval
  <2>3. QED
    BY <2>1, <2>2, FS_Injection
<1>5. s = [i \in 1 .. n |-> s[i]]
  BY <1>3
<1>6. Len(s) = n
  <2> HIDE DEF n
  <2>1. QED
    BY <1>1, <1>5, ListedByLength
<1>7. \A x \in S : \E i \in 1 .. n : s[i] = x
  BY <1>4 DEF Surjection
<1>8. QED
  BY <1>1, <1>3, <1>6, <1>7 DEF s

\* After the first j quotes, of which t is what is written, the claim has these.
QuotesUpTo(l, sets, a, r, claim, text, at, s, t, j) ==
  \E q, quotes :
    /\ Inside(q, sets[a], [claim EXCEPT !.quotes = quotes], text) /\ Reads(l, sets, r, t, q, a, a)
    /\ \A x : x \in quotes <=> x \in claim.quotes \/ \E i \in 1 .. j : x \in QuoteOf(at[i], s[i])

LEMMA ListedElement ==
  ASSUME NEW tag, NEW at, NEW e
  PROVE  Listed(Element(tag, at, <<e>>))
<1>1. Listed(<<Open(tag, at)>>) /\ Listed(<<e>>) /\ Listed(<<Close(tag)>>)
  <2>1. <<Open(tag, at)>> \in Seq({Open(tag, at)}) /\ <<e>> \in Seq({e}) /\ <<Close(tag)>> \in Seq({Close(tag)})
    OBVIOUS
  <2>2. QED
    BY <2>1 DEF Listed
<1>2. QED
  BY <1>1, Concatenated DEF Element

LEMMA ClaimIsRebuilt ==
  ASSUME NEW c, IsClaim(c)
  PROVE  /\ [c EXCEPT !.quotes = c.quotes] = c /\ [c EXCEPT !.sources = c.sources] = c
         /\ \A x, y : [[c EXCEPT !.quotes = x] EXCEPT !.quotes = y] = [c EXCEPT !.quotes = y]
         /\ \A x, y : [[c EXCEPT !.sources = x] EXCEPT !.sources = y] = [c EXCEPT !.sources = y]
  BY DEF IsClaim

LEMMA QuotesInTurn ==
  ASSUME NEW l, NEW sets, NEW a \in Nat, NEW r, NEW claim, NEW text, Inside(r, sets[a], claim, text),
         NEW n \in Nat, NEW at, NEW s
  PROVE  QuotesUpTo(l, sets, a, r, claim, text, at, s,
                    FlattenSeq([i \in 1 .. n |-> Element("quote", at[i], <<Chars(s[i])>>)]), n)
<1> DEFINE seqs == [i \in 1 .. n |-> Element("quote", at[i], <<Chars(s[i])>>)]
<1>1. seqs = [i \in 1 .. n |-> seqs[i]] /\ \A i \in 1 .. n : seqs[i] = Element("quote", at[i], <<Chars(s[i])>>)
  OBVIOUS
<1> HIDE DEF seqs
<1>2. PICK f : Writes(seqs, n, f)
  BY <1>1, ListedElement, WrittenInTurn
<1>3. IsClaim(claim) /\ r.doc.claims = sets[a]
  BY DEF Inside, Ready, IsReader
<1>4. QuotesUpTo(l, sets, a, r, claim, text, at, s, f[0], 0)
  <2>1. Inside(r, sets[a], [claim EXCEPT !.quotes = claim.quotes], text)
    BY <1>3, ClaimIsRebuilt
  <2>2. Reads(l, sets, r, f[0], r, a, a)
    BY <1>2, <1>3, ReadNothing DEF Writes
  <2>3. 1 .. 0 = {}
    OBVIOUS
  <2>4. QED
    BY <2>1, <2>2, <2>3 DEF QuotesUpTo
<1>5. ASSUME NEW j \in 0 .. n - 1, QuotesUpTo(l, sets, a, r, claim, text, at, s, f[j], j)
      PROVE  QuotesUpTo(l, sets, a, r, claim, text, at, s, f[j + 1], j + 1)
  <2>1. j + 1 \in 1 .. n /\ 1 .. j + 1 = (1 .. j) \cup {j + 1}
    OBVIOUS
  <2>2. PICK q, quotes :
          /\ Inside(q, sets[a], [claim EXCEPT !.quotes = quotes], text) /\ Reads(l, sets, r, f[j], q, a, a)
          /\ \A x : x \in quotes <=> x \in claim.quotes \/ \E i \in 1 .. j : x \in QuoteOf(at[i], s[i])
    BY <1>5 DEF QuotesUpTo
  <2> DEFINE more == quotes \cup QuoteOf(at[j + 1], s[j + 1])
             mid == [claim EXCEPT !.quotes = quotes]
  <2>3. mid.quotes = quotes /\ [mid EXCEPT !.quotes = more] = [claim EXCEPT !.quotes = more]
    <3>1. mid.quotes = quotes
      BY <1>3 DEF IsClaim
    <3>2. \A y : [mid EXCEPT !.quotes = y] = [claim EXCEPT !.quotes = y]
      BY <1>3, ClaimIsRebuilt
    <3> HIDE DEF mid, more
    <3>3. QED
      BY <3>1, <3>2
  <2>4. Inside(q, sets[a], mid, text)
    BY <2>2
  <2>5. seqs[j + 1] = Element("quote", at[j + 1], <<Chars(s[j + 1])>>)
    BY <1>1, <2>1
  <2> HIDE DEF mid
  <2>6. PICK z : /\ Inside(z, sets[a], [mid EXCEPT !.quotes = @ \cup QuoteOf(at[j + 1], s[j + 1])], text)
                 /\ Reads(l, sets, q, Element("quote", at[j + 1], <<Chars(s[j + 1])>>), z, a, a)
    BY <2>4, QuoteIsRead
  <2>7. Inside(z, sets[a], [claim EXCEPT !.quotes = more], text)
    BY <2>6, <2>3
  <2>8. Reads(l, sets, r, f[j + 1], z, a, a)
    <3>1. f[j + 1] = f[j] \o seqs[j + 1]
      BY <1>2 DEF Writes
    <3>2. QED
      BY <2>2, <2>6, <2>5, <3>1, ReadBoth
  <2>9. \A x : x \in more <=> x \in claim.quotes \/ \E i \in 1 .. j + 1 : x \in QuoteOf(at[i], s[i])
    BY <2>1, <2>2
  <2> HIDE DEF more
  <2>10. QED
    BY <2>7, <2>8, <2>9 DEF QuotesUpTo
<1> DEFINE Good == {j \in 0 .. n : QuotesUpTo(l, sets, a, r, claim, text, at, s, f[j], j)}
<1>6. 0 \in Good /\ \A j \in 0 .. n - 1 : j \in Good => j + 1 \in Good
  BY <1>4, <1>5
<1>7. n \in Good
  <2> HIDE DEF Good
  <2>1. QED
    BY <1>6, CountingUp
<1>8. QED
  BY <1>2, <1>7 DEF Writes, seqs

\* A source is kept, whether or not quotes stand inside it; those name no source.
LEMMA SourceIsRead ==
  ASSUME NEW l, NEW sets, NEW a \in Nat, NEW r, NEW claim, NEW text, Inside(r, sets[a], claim, text),
         NEW form, NEW raw, IsFiniteSet(raw.quoted), NEW at
  PROVE  /\ Listed(WrittenSource(form, raw, at))
         /\ \E q : /\ Inside(q, sets[a], [claim EXCEPT !.sources = @ \cup {at}], text)
                   /\ Reads(l, sets, r, WrittenSource(form, raw, at), q, a, a)
<1> DEFINE more == [claim EXCEPT !.sources = @ \cup {at}]
<1>1. IsReader(r) /\ r.doc.claims = sets[a] /\ r.claim = claim /\ InClaim(r) /\ IsClaim(claim)
  BY DEF Inside, Ready, IsReader, InClaim
<1>2. Inside([r EXCEPT !.claim.sources = @ \cup {at}], sets[a], more, text)
  <2> DEFINE q == [r EXCEPT !.claim.sources = @ \cup {at}]
  <2>1. IsReader(q)
    BY <1>1, ClaimIsKept DEF IsReader
  <2>2. q.claim = more
    BY <1>1 DEF IsReader
  <2>3. q.open = r.open /\ q.section = r.section /\ q.quoteOf = r.quoteOf /\ q.buf = r.buf /\ q.doc = r.doc
    BY <1>1 DEF IsReader
  <2> HIDE DEF q, more
  <2>4. Inside(q, sets[a], more, text)
    BY <2>1, <2>2, <2>3 DEF Inside, Ready
  <2>5. QED
    BY <2>4 DEF q
<1> HIDE DEF more
<1>3. CASE WrittenSource(form, raw, at) = <<Empty("source", at)>>
  <2> DEFINE q == OnEvent(l, r, Empty("source", at))
  <2>1. q = [r EXCEPT !.claim.sources = @ \cup {at}]
    BY <1>1 DEF OnEvent, Empty, OnEmpty
  <2>2. Reads(l, sets, r, <<Empty("source", at)>>, q, a, a)
    BY <1>1, ReadSilent DEF ClosesNoClaim, Empty
  <2> HIDE DEF q
  <2>3. QED
    BY <1>2, <1>3, <2>1, <2>2 DEF Reads, more
<1>4. CASE WrittenSource(form, raw, at) # <<Empty("source", at)>>
  <2> DEFINE s == SetToSeq(QuotesOf(raw, at))
             none == [i \in 1 .. Len(s) |-> None]
             words == [i \in 1 .. Len(s) |-> s[i][2]]
             inner == FlattenSeq([i \in 1 .. Len(s) |-> Element("quote", None, <<Chars(s[i][2])>>)])
             o == OnEvent(l, r, Open("source", at))
  <2>1. WrittenSource(form, raw, at) = Element("source", at, inner)
    BY <1>4 DEF WrittenSource, Each
  <2>2. o = [r EXCEPT !.claim.sources = @ \cup {at}]
    BY <1>1 DEF OnEvent, Open, OnOpen
  <2>3. Len(s) \in Nat
    <3>1. IsFiniteSet(QuotesOf(raw, at))
      BY FS_Subset DEF QuotesOf
    <3>2. QED
      BY <3>1, SetInTurn
  <2>4. inner = FlattenSeq([i \in 1 .. Len(s) |-> Element("quote", none[i], <<Chars(words[i])>>)])
    <3>1. \A i \in 1 .. Len(s) : none[i] = None /\ words[i] = s[i][2]
      OBVIOUS
    <3> HIDE DEF none, words
    <3>2. [i \in 1 .. Len(s) |-> Element("quote", None, <<Chars(s[i][2])>>)]
            = [i \in 1 .. Len(s) |-> Element("quote", none[i], <<Chars(words[i])>>)]
      BY <3>1
    <3>3. QED
      BY <3>2
  <2>5. \A i \in 1 .. Len(s) : QuoteOf(none[i], words[i]) = {}
    BY DEF QuoteOf
  <2> HIDE DEF s, none, words, o
  <2>6. QuotesUpTo(l, sets, a, o, more, text, none, words, inner, Len(s))
    BY <1>2, <2>2, <2>3, <2>4, QuotesInTurn
  <2> HIDE DEF inner
  <2>7. PICK q, quotes :
          /\ Inside(q, sets[a], [more EXCEPT !.quotes = quotes], text) /\ Reads(l, sets, o, inner, q, a, a)
          /\ \A x : x \in quotes <=> x \in more.quotes \/ \E i \in 1 .. Len(s) : x \in QuoteOf(none[i], words[i])
    BY <2>6 DEF QuotesUpTo
  <2>8. quotes = more.quotes
    BY <2>5, <2>7
  <2>9. IsClaim(more)
    BY <1>2 DEF Inside, Ready, IsReader
  <2>10. Inside(q, sets[a], more, text)
    BY <2>7, <2>8, <2>9, ClaimIsRebuilt
  <2>11. OnEvent(l, q, Close("source")) = q
    BY DEF OnEvent, Close, OnClose
  <2>12. IsReader(q)
    BY <2>10 DEF Inside, Ready
  <2>13. Reads(l, sets, r, Element("source", at, inner), q, a, a)
    BY <1>1, <2>7, <2>11, <2>12, ReadAround DEF o
  <2>14. QED
    BY <2>1, <2>10, <2>13 DEF Reads, more
<1>5. QED
  BY <1>3, <1>4

\* What is written of the sources s.
SourcesWritten(form, raw, s) == FlattenSeq([i \in 1 .. Len(s) |-> WrittenSource(form, raw, s[i])])

SourcesUpTo(l, sets, a, r, claim, text, s, t, j) ==
  \E q : /\ Inside(q, sets[a], [claim EXCEPT !.sources = @ \cup {s[i] : i \in 1 .. j}], text)
         /\ Reads(l, sets, r, t, q, a, a)

LEMMA SourcesInTurn ==
  ASSUME NEW l, NEW sets, NEW a \in Nat, NEW r, NEW claim, NEW text, Inside(r, sets[a], claim, text),
         NEW form, NEW raw, IsFiniteSet(raw.quoted), NEW s, Len(s) \in Nat
  PROVE  SourcesUpTo(l, sets, a, r, claim, text, s, SourcesWritten(form, raw, s), Len(s))
<1> DEFINE n == Len(s)
           seqs == [i \in 1 .. n |-> WrittenSource(form, raw, s[i])]
<1>1. seqs = [i \in 1 .. n |-> seqs[i]] /\ \A i \in 1 .. n : seqs[i] = WrittenSource(form, raw, s[i])
  OBVIOUS
<1>2. SourcesWritten(form, raw, s) = FlattenSeq(seqs) /\ n \in Nat
  BY DEF SourcesWritten
<1> HIDE DEF seqs, n
<1>3. ASSUME NEW i \in 1 .. n PROVE Listed(seqs[i])
  <2>1. Listed(WrittenSource(form, raw, s[i]))
    BY SourceIsRead
  <2>2. QED
    BY <1>1, <2>1
<1>4. PICK f : Writes(seqs, n, f)
  BY <1>1, <1>2, <1>3, WrittenInTurn
<1>5. IsClaim(claim) /\ r.doc.claims = sets[a]
  BY DEF Inside, Ready, IsReader
<1>6. SourcesUpTo(l, sets, a, r, claim, text, s, f[0], 0)
  <2>1. claim.sources \cup {s[i] : i \in 1 .. 0} = claim.sources
    OBVIOUS
  <2>2. Inside(r, sets[a], [claim EXCEPT !.sources = claim.sources], text)
    BY <1>5, ClaimIsRebuilt
  <2>3. Reads(l, sets, r, f[0], r, a, a)
    BY <1>4, <1>5, ReadNothing DEF Writes
  <2>4. QED
    BY <2>1, <2>2, <2>3 DEF SourcesUpTo
<1>7. ASSUME NEW j \in 0 .. n - 1, SourcesUpTo(l, sets, a, r, claim, text, s, f[j], j)
      PROVE  SourcesUpTo(l, sets, a, r, claim, text, s, f[j + 1], j + 1)
  <2>1. j + 1 \in 1 .. n /\ 1 .. j + 1 = (1 .. j) \cup {j + 1}
    BY <1>2
  <2> DEFINE mid  == [claim EXCEPT !.sources = @ \cup {s[i] : i \in 1 .. j}]
             more == [claim EXCEPT !.sources = @ \cup {s[i] : i \in 1 .. j + 1}]
  <2>2. PICK q : Inside(q, sets[a], mid, text) /\ Reads(l, sets, r, f[j], q, a, a)
    BY <1>7 DEF SourcesUpTo
  <2>3. [mid EXCEPT !.sources = @ \cup {s[j + 1]}] = more
    <3>1. mid.sources = claim.sources \cup {s[i] : i \in 1 .. j}
      BY <1>5 DEF IsClaim
    <3>2. mid.sources \cup {s[j + 1]} = claim.sources \cup {s[i] : i \in 1 .. j + 1}
      BY <2>1, <3>1
    <3>3. \A y : [mid EXCEPT !.sources = y] = [claim EXCEPT !.sources = y]
      BY <1>5, ClaimIsRebuilt
    <3> HIDE DEF mid
    <3>4. QED
      BY <3>2, <3>3
  <2>4. seqs[j + 1] = WrittenSource(form, raw, s[j + 1])
    BY <1>1, <2>1
  <2> HIDE DEF mid, more
  <2>5. PICK z : /\ Inside(z, sets[a], [mid EXCEPT !.sources = @ \cup {s[j + 1]}], text)
                 /\ Reads(l, sets, q, WrittenSource(form, raw, s[j + 1]), z, a, a)
    BY <2>2, SourceIsRead
  <2>6. Reads(l, sets, r, f[j + 1], z, a, a)
    <3>1. f[j + 1] = f[j] \o seqs[j + 1]
      BY <1>4 DEF Writes
    <3>2. QED
      BY <2>2, <2>4, <2>5, <3>1, ReadBoth
  <2>7. QED
    BY <2>3, <2>5, <2>6 DEF SourcesUpTo, more
<1> DEFINE Good == {j \in 0 .. n : SourcesUpTo(l, sets, a, r, claim, text, s, f[j], j)}
<1>8. 0 \in Good /\ \A j \in 0 .. n - 1 : j \in Good => j + 1 \in Good
  BY <1>2, <1>6, <1>7
<1>9. n \in Good
  <2> HIDE DEF Good
  <2>1. n \in Nat
    BY <1>2
  <2>2. \A k \in 0 .. n : k \in Good
    BY <2>1, <1>8, CountingUp
  <2>3. QED
    BY <2>1, <2>2
<1>10. QED
  BY <1>2, <1>4, <1>9 DEF Writes, n

-----------------------------------------------------------------------------
(***************************************************************************)
(* A claim, from its opening to its end.                                   *)
(***************************************************************************)
Has(c, level, support, sources, quotes, counter) ==
  /\ IsClaim(c) /\ c.level = level /\ c.support = support
  /\ c.sources = sources /\ c.quotes = quotes /\ c.counter = counter

\* t takes the reader, inside a claim, from r to a place where the claim has these fields.
Brings(l, sets, a, r, t, text, level, support, sources, quotes, counter) ==
  \E q, c : /\ Inside(q, sets[a], c, text) /\ Reads(l, sets, r, t, q, a, a)
            /\ Has(c, level, support, sources, quotes, counter)

NewLevel(l) == IF l THEN None ELSE "divided"
TextOf(raw) == IF raw.topic = None THEN <<>> ELSE Unescaped(raw.topic)
LevelOf(l, form, raw) ==
  IF "agreement" \in form.asks /\ raw.agreement # None THEN raw.agreement ELSE NewLevel(l)
SupportOf(form, raw) == IF "support" \in form.asks THEN raw.support ELSE None
Quoted(form, raw) ==
  IF "quotes" \in form.asks /\ ~form.nested
  THEN {[source |-> q[1], text |-> <<q[2]>>] : q \in {p \in raw.quoted : Legible(p[2])}} ELSE {}
CounterOf(form, raw) == IF "counter" \in form.asks /\ raw.counter /\ Legible(Dissent) THEN {<<Dissent>>} ELSE {}

LEMMA ClaimOpens ==
  ASSUME NEW l, NEW sets, NEW a \in Nat, NEW r, Between(r, sets[a])
  PROVE  Brings(l, sets, a, r, <<Open("claim", None)>>, <<>>, NewLevel(l), None, {}, {}, {})
<1> DEFINE q == OnEvent(l, r, Open("claim", None))
           c == NewClaim(l, r.claim, None)
<1>1. IsReader(r) /\ r.doc.claims = sets[a]
  BY DEF Between, Ready
<1>2. Reads(l, sets, r, <<Open("claim", None)>>, q, a, a) /\ IsReader(q)
  BY <1>1, ReadSilent DEF ClosesNoClaim, Open
<1>3. Has(c, NewLevel(l), None, {}, {}, {})
  BY DEF Has, IsClaim, NewClaim, NoClaim, NewLevel
<1>4. q = [Enter(r, "claim", "text") EXCEPT !.claim = c]
  BY DEF OnEvent, Open, OnOpen
<1> HIDE DEF c
<1>5. /\ q.claim = c /\ q.open = r.open \cup {"claim"} /\ q.buf["text"] = <<>>
      /\ q.doc = r.doc /\ q.section = r.section /\ q.quoteOf = r.quoteOf
  BY <1>1, <1>4 DEF Enter, IsReader, Buffer
<1> HIDE DEF q
<1>6. Inside(q, sets[a], c, <<>>)
  BY <1>1, <1>2, <1>5 DEF Inside, Between, Ready, Takers
<1>7. QED
  BY <1>2, <1>3, <1>6 DEF Brings

LEMMA NothingRead ==
  ASSUME NEW l, NEW sets, NEW a \in Nat, NEW r, NEW claim, NEW text, Inside(r, sets[a], claim, text)
  PROVE  Reads(l, sets, r, <<>>, r, a, a)
  BY ReadNothing DEF Inside

LEMMA TextBrings ==
  ASSUME NEW l, NEW sets, NEW a \in Nat, NEW r, NEW c, NEW level, NEW support, NEW sources, NEW quotes,
         NEW counter, Inside(r, sets[a], c, <<>>), Has(c, level, support, sources, quotes, counter), NEW raw
  PROVE  Brings(l, sets, a, r, Field("text", raw.topic), TextOf(raw), level, support, sources, quotes, counter)
<1>1. \E z : Inside(z, sets[a], c, TextOf(raw)) /\ Reads(l, sets, r, Field("text", raw.topic), z, a, a)
  <2>1. CASE raw.topic = None
    BY <2>1, NothingRead DEF Field, TextOf
  <2>2. CASE raw.topic # None
    BY <2>2, TextIsRead DEF TextOf
  <2>3. QED
    BY <2>1, <2>2
<1>2. QED
  BY <1>1 DEF Brings

LEMMA WordsAreLegible ==
  ASSUME NEW raw \in Raw
  PROVE  /\ raw.agreement # None => Legible(raw.agreement)
         /\ raw.support # None => Legible(raw.support)
<1>1. raw.agreement \in Vocabulary \cup {"odd", None} /\ raw.support \in SupportLevels \cup {"odd", None}
  BY DEF Raw
<1>2. QED
  BY <1>1, SynthesisAssumption DEF Legible

LEMMA LevelBrings ==
  ASSUME NEW l, NEW sets, NEW a \in Nat, NEW r, NEW t, NEW text, NEW support, NEW sources, NEW quotes,
         NEW counter, Brings(l, sets, a, r, t, text, NewLevel(l), support, sources, quotes, counter),
         NEW form, NEW raw \in Raw
  PROVE  Brings(l, sets, a, r, t \o If("agreement" \in form.asks, Field("agreement_level", raw.agreement)),
                text, LevelOf(l, form, raw), support, sources, quotes, counter)
<1> DEFINE e == If("agreement" \in form.asks, Field("agreement_level", raw.agreement))
           v == LevelOf(l, form, raw)
<1>1. PICK q, c : /\ Inside(q, sets[a], c, text) /\ Reads(l, sets, r, t, q, a, a)
                  /\ Has(c, NewLevel(l), support, sources, quotes, counter)
  BY DEF Brings
<1>2. \E z, d : Inside(z, sets[a], d, text) /\ Reads(l, sets, q, e, z, a, a) /\ Has(d, v, support, sources, quotes, counter)
  <2>1. CASE "agreement" \in form.asks /\ raw.agreement # None
    <3>1. v = raw.agreement /\ e = Field("agreement_level", raw.agreement)
      BY <2>1 DEF LevelOf, If
    <3>2. \E z : /\ Inside(z, sets[a], [c EXCEPT !.level = raw.agreement], text)
                 /\ Reads(l, sets, q, Field("agreement_level", raw.agreement), z, a, a)
      BY <1>1, <2>1, WordsAreLegible, LevelIsRead
    <3>3. Has([c EXCEPT !.level = raw.agreement], raw.agreement, support, sources, quotes, counter)
      BY <1>1, ClaimIsKept DEF Has, IsClaim
    <3>4. QED
      BY <3>1, <3>2, <3>3
  <2>2. CASE ~("agreement" \in form.asks /\ raw.agreement # None)
    <3>1. v = NewLevel(l) /\ e = <<>>
      BY <2>2 DEF LevelOf, If, Field
    <3>2. QED
      BY <1>1, <3>1, NothingRead
  <2>3. QED
    BY <2>1, <2>2
<1> HIDE DEF e, v
<1>3. PICK z, d : Inside(z, sets[a], d, text) /\ Reads(l, sets, q, e, z, a, a) /\ Has(d, v, support, sources, quotes, counter)
  BY <1>2
<1>4. Reads(l, sets, r, t \o e, z, a, a)
  BY <1>1, <1>3, ReadBoth
<1>5. Brings(l, sets, a, r, t \o e, text, v, support, sources, quotes, counter)
  BY <1>3, <1>4 DEF Brings
<1>6. QED
  BY <1>5 DEF e, v

LEMMA SupportBrings ==
  ASSUME NEW l, NEW sets, NEW a \in Nat, NEW r, NEW t, NEW text, NEW level, NEW sources, NEW quotes,
         NEW counter, Brings(l, sets, a, r, t, text, level, None, sources, quotes, counter),
         NEW form, NEW raw \in Raw
  PROVE  Brings(l, sets, a, r, t \o If("support" \in form.asks, Field("support_level", raw.support)),
                text, level, SupportOf(form, raw), sources, quotes, counter)
<1> DEFINE e == If("support" \in form.asks, Field("support_level", raw.support))
           v == SupportOf(form, raw)
<1>1. PICK q, c : /\ Inside(q, sets[a], c, text) /\ Reads(l, sets, r, t, q, a, a)
                  /\ Has(c, level, None, sources, quotes, counter)
  BY DEF Brings
<1>2. \E z, d : Inside(z, sets[a], d, text) /\ Reads(l, sets, q, e, z, a, a) /\ Has(d, level, v, sources, quotes, counter)
  <2>1. CASE "support" \in form.asks /\ raw.support # None
    <3>1. v = raw.support /\ e = Field("support_level", raw.support)
      BY <2>1 DEF SupportOf, If
    <3>2. \E z : /\ Inside(z, sets[a], [c EXCEPT !.support = raw.support], text)
                 /\ Reads(l, sets, q, Field("support_level", raw.support), z, a, a)
      BY <1>1, <2>1, WordsAreLegible, SupportIsRead
    <3>3. Has([c EXCEPT !.support = raw.support], level, raw.support, sources, quotes, counter)
      BY <1>1, ClaimIsKept DEF Has, IsClaim
    <3>4. QED
      BY <3>1, <3>2, <3>3
  <2>2. CASE ~("support" \in form.asks /\ raw.support # None)
    <3>1. v = None /\ e = <<>>
      BY <2>2 DEF SupportOf, If, Field
    <3>2. QED
      BY <1>1, <3>1, NothingRead
  <2>3. QED
    BY <2>1, <2>2
<1> HIDE DEF e, v
<1>3. PICK z, d : Inside(z, sets[a], d, text) /\ Reads(l, sets, q, e, z, a, a) /\ Has(d, level, v, sources, quotes, counter)
  BY <1>2
<1>4. Reads(l, sets, r, t \o e, z, a, a)
  BY <1>1, <1>3, ReadBoth
<1>5. Brings(l, sets, a, r, t \o e, text, level, v, sources, quotes, counter)
  BY <1>3, <1>4 DEF Brings
<1>6. QED
  BY <1>5 DEF e, v

AllSources(form, raw) == Each(raw.sources, LAMBDA s : WrittenSource(form, raw, s))

LEMMA SourcesBring ==
  ASSUME NEW l, NEW sets, NEW a \in Nat, NEW r, NEW t, NEW text, NEW level, NEW support, NEW quotes,
         NEW counter, Brings(l, sets, a, r, t, text, level, support, {}, quotes, counter),
         NEW form, NEW raw, IsFiniteSet(raw.sources), IsFiniteSet(raw.quoted)
  PROVE  Brings(l, sets, a, r, t \o Element("sources", None, AllSources(form, raw)),
                text, level, support, raw.sources, quotes, counter)
<1> DEFINE s == SetToSeq(raw.sources)
           e == SourcesWritten(form, raw, s)
<1>1. PICK q, c : /\ Inside(q, sets[a], c, text) /\ Reads(l, sets, r, t, q, a, a)
                  /\ Has(c, level, support, {}, quotes, counter)
  BY DEF Brings
<1>2. e = AllSources(form, raw)
  BY DEF AllSources, Each, SourcesWritten
<1>3. Len(s) \in Nat /\ {s[i] : i \in 1 .. Len(s)} = raw.sources
  <2>1. /\ Len(s) \in Nat /\ \A i \in 1 .. Len(s) : s[i] \in raw.sources
        /\ \A x \in raw.sources : \E i \in 1 .. Len(s) : s[i] = x
    BY SetInTurn
  <2> HIDE DEF s
  <2>2. QED
    BY <2>1
<1> HIDE DEF s
<1>4. SourcesUpTo(l, sets, a, q, c, text, s, e, Len(s))
  BY <1>1, <1>3, SourcesInTurn
<1> HIDE DEF e
<1>5. PICK z : /\ Inside(z, sets[a], [c EXCEPT !.sources = @ \cup raw.sources], text)
               /\ Reads(l, sets, q, e, z, a, a)
  BY <1>3, <1>4 DEF SourcesUpTo
<1>6. Has([c EXCEPT !.sources = @ \cup raw.sources], level, support, raw.sources, quotes, counter)
  BY <1>1, ClaimIsKept DEF Has, IsClaim
<1>7. OnEvent(l, q, Open("sources", None)) = q /\ OnEvent(l, z, Close("sources")) = z
  BY DEF OnEvent, Open, OnOpen, Close, OnClose
<1>8. IsReader(q) /\ IsReader(z) /\ q.doc.claims = sets[a]
  BY <1>1, <1>5 DEF Inside, Ready
<1>9. Reads(l, sets, q, Element("sources", None, e), z, a, a)
  BY <1>5, <1>7, <1>8, ReadAround
<1>10. Reads(l, sets, r, t \o Element("sources", None, e), z, a, a)
  BY <1>1, <1>9, ReadBoth
<1>11. QED
  BY <1>2, <1>5, <1>6, <1>10 DEF Brings

LEMMA QuotesBring ==
  ASSUME NEW l, NEW sets, NEW a \in Nat, NEW r, NEW t, NEW text, NEW level, NEW support, NEW sources,
         NEW counter, Brings(l, sets, a, r, t, text, level, support, sources, {}, counter),
         NEW form, NEW raw, IsFiniteSet(raw.quoted), \A q \in raw.quoted : q[1] # None
  PROVE  Brings(l, sets, a, r,
                t \o If("quotes" \in form.asks /\ ~form.nested,
                        Each(raw.quoted, LAMBDA q : Element("quote", q[1], <<Chars(q[2])>>))),
                text, level, support, sources, Quoted(form, raw), counter)
<1> DEFINE s == SetToSeq(raw.quoted)
           at == [i \in 1 .. Len(s) |-> s[i][1]]
           words == [i \in 1 .. Len(s) |-> s[i][2]]
           e == FlattenSeq([i \in 1 .. Len(s) |-> Element("quote", at[i], <<Chars(words[i])>>)])
           w == If("quotes" \in form.asks /\ ~form.nested,
                   Each(raw.quoted, LAMBDA q : Element("quote", q[1], <<Chars(q[2])>>)))
           all == Quoted(form, raw)
<1>1. PICK q, c : /\ Inside(q, sets[a], c, text) /\ Reads(l, sets, r, t, q, a, a)
                  /\ Has(c, level, support, sources, {}, counter)
  BY DEF Brings
<1>2. \E z, d : Inside(z, sets[a], d, text) /\ Reads(l, sets, q, w, z, a, a) /\ Has(d, level, support, sources, all, counter)
  <2>1. CASE "quotes" \in form.asks /\ ~form.nested
    <3>1. w = e
      <4>1. w = FlattenSeq([i \in 1 .. Len(s) |-> Element("quote", s[i][1], <<Chars(s[i][2])>>)])
        BY <2>1 DEF If, Each
      <4>2. \A i \in 1 .. Len(s) : at[i] = s[i][1] /\ words[i] = s[i][2]
        OBVIOUS
      <4> HIDE DEF at, words, s
      <4>3. [i \in 1 .. Len(s) |-> Element("quote", s[i][1], <<Chars(s[i][2])>>)]
              = [i \in 1 .. Len(s) |-> Element("quote", at[i], <<Chars(words[i])>>)]
        BY <4>2
      <4>4. QED
        BY <4>1, <4>3
    <3>2. /\ Len(s) \in Nat /\ \A i \in 1 .. Len(s) : s[i] \in raw.quoted
          /\ \A x \in raw.quoted : \E i \in 1 .. Len(s) : s[i] = x
      BY SetInTurn
    <3>3. \A i \in 1 .. Len(s) :
            QuoteOf(at[i], words[i]) = IF Legible(s[i][2]) THEN {[source |-> s[i][1], text |-> <<s[i][2]>>]} ELSE {}
      BY <3>2 DEF QuoteOf
    <3>4. all = {[source |-> x[1], text |-> <<x[2]>>] : x \in {p \in raw.quoted : Legible(p[2])}}
      BY <2>1 DEF Quoted
    <3> HIDE DEF s, at, words, all
    <3>5. QuotesUpTo(l, sets, a, q, c, text, at, words, e, Len(s))
      BY <1>1, <3>2, QuotesInTurn
    <3> HIDE DEF e
    <3>6. PICK z, quotes :
            /\ Inside(z, sets[a], [c EXCEPT !.quotes = quotes], text) /\ Reads(l, sets, q, e, z, a, a)
            /\ \A x : x \in quotes <=> x \in c.quotes \/ \E i \in 1 .. Len(s) : x \in QuoteOf(at[i], words[i])
      BY <3>5 DEF QuotesUpTo
    <3>7. quotes = all
      <4>1. \A x : x \in quotes <=>
                    \E i \in 1 .. Len(s) : Legible(s[i][2]) /\ x = [source |-> s[i][1], text |-> <<s[i][2]>>]
        BY <1>1, <3>3, <3>6 DEF Has
      <4>2. ASSUME NEW x
            PROVE  x \in all <=>
                     \E i \in 1 .. Len(s) : Legible(s[i][2]) /\ x = [source |-> s[i][1], text |-> <<s[i][2]>>]
        BY <3>2, <3>4
      <4>3. QED
        BY <4>1, <4>2
    <3>8. Has([c EXCEPT !.quotes = all], level, support, sources, all, counter)
      BY <1>1, ClaimIsKept DEF Has, IsClaim
    <3> HIDE DEF w
    <3>9. QED
      BY <3>1, <3>6, <3>7, <3>8
  <2>2. CASE ~("quotes" \in form.asks /\ ~form.nested)
    <3>1. all = {} /\ w = <<>>
      BY <2>2 DEF Quoted, If
    <3>2. QED
      BY <1>1, <3>1, NothingRead
  <2>3. QED
    BY <2>1, <2>2
<1> HIDE DEF w, all
<1>3. PICK z, d : Inside(z, sets[a], d, text) /\ Reads(l, sets, q, w, z, a, a) /\ Has(d, level, support, sources, all, counter)
  BY <1>2
<1>4. Reads(l, sets, r, t \o w, z, a, a)
  BY <1>1, <1>3, ReadBoth
<1>5. Brings(l, sets, a, r, t \o w, text, level, support, sources, all, counter)
  BY <1>3, <1>4 DEF Brings
<1>6. QED
  BY <1>5 DEF w, all

LEMMA CounterBrings ==
  ASSUME NEW l, NEW sets, NEW a \in Nat, NEW r, NEW t, NEW text, NEW level, NEW support, NEW sources,
         NEW quotes, Brings(l, sets, a, r, t, text, level, support, sources, quotes, {}),
         NEW form, NEW raw
  PROVE  Brings(l, sets, a, r,
                t \o If("counter" \in form.asks /\ raw.counter, Field("counterargument", Dissent)),
                text, level, support, sources, quotes, CounterOf(form, raw))
<1> DEFINE e == If("counter" \in form.asks /\ raw.counter, Field("counterargument", Dissent))
           v == CounterOf(form, raw)
<1>1. PICK q, c : /\ Inside(q, sets[a], c, text) /\ Reads(l, sets, r, t, q, a, a)
                  /\ Has(c, level, support, sources, quotes, {})
  BY DEF Brings
<1>2. \E z, d : Inside(z, sets[a], d, text) /\ Reads(l, sets, q, e, z, a, a) /\ Has(d, level, support, sources, quotes, v)
  <2>1. CASE "counter" \in form.asks /\ raw.counter
    <3>1. v = Shown(Unescaped(Dissent)) /\ e = Field("counterargument", Dissent)
      BY <2>1 DEF CounterOf, If, Shown, Unescaped, Legible
    <3>2. Dissent # None
      BY SynthesisAssumption
    <3>3. \E z : /\ Inside(z, sets[a], [c EXCEPT !.counter = @ \cup Shown(Unescaped(Dissent))], text)
                 /\ Reads(l, sets, q, Field("counterargument", Dissent), z, a, a)
      BY <1>1, <3>2, CounterIsRead
    <3>4. Has([c EXCEPT !.counter = @ \cup Shown(Unescaped(Dissent))], level, support, sources, quotes,
              Shown(Unescaped(Dissent)))
      BY <1>1, ClaimIsKept DEF Has, IsClaim
    <3>5. QED
      BY <3>1, <3>3, <3>4
  <2>2. CASE ~("counter" \in form.asks /\ raw.counter)
    <3>1. v = {} /\ e = <<>>
      BY <2>2 DEF CounterOf, If
    <3>2. QED
      BY <1>1, <3>1, NothingRead
  <2>3. QED
    BY <2>1, <2>2
<1> HIDE DEF e, v
<1>3. PICK z, d : Inside(z, sets[a], d, text) /\ Reads(l, sets, q, e, z, a, a) /\ Has(d, level, support, sources, quotes, v)
  BY <1>2
<1>4. Reads(l, sets, r, t \o e, z, a, a)
  BY <1>1, <1>3, ReadBoth
<1>5. Brings(l, sets, a, r, t \o e, text, level, support, sources, quotes, v)
  BY <1>3, <1>4 DEF Brings
<1>6. QED
  BY <1>5 DEF e, v

\* The end of the claim: it is read as it was meant, unless no text of it is.
Says(raw) == raw.topic # None /\ Legible(raw.topic)
MeantNext(l, form, raw, claims) ==
  IF Says(raw) THEN claims \cup {Meant(l, form, raw)} ELSE claims

LEMMA ClaimCloses ==
  ASSUME NEW l, NEW sets, NEW a \in Nat, NEW q, NEW c, NEW form, NEW raw,
         Inside(q, sets[a], c, TextOf(raw)),
         Has(c, LevelOf(l, form, raw), SupportOf(form, raw), raw.sources, Quoted(form, raw), CounterOf(form, raw)),
         sets[a + 1] = MeantNext(l, form, raw, sets[a])
  PROVE  \E z : Between(z, sets[a + 1]) /\ Reads(l, sets, q, <<Close("claim")>>, z, a, a + 1)
<1> DEFINE z == OnEvent(l, q, Close("claim"))
           m == [c EXCEPT !.topic = TextOf(raw), !.level = Level(l, @), !.support = SupportRead(@)]
<1>1. IsReader(q) /\ q.claim = c /\ q.buf["text"] = TextOf(raw) /\ q.doc.claims = sets[a] /\ IsDoc(q.doc)
  BY DEF Inside, Ready, IsReader
<1>2. IsReader(z)
  BY <1>1, EventKeepsShape
<1>3. Says(raw) => m = Meant(l, form, raw)
  <2> SUFFICES ASSUME Says(raw) PROVE m = Meant(l, form, raw)
    OBVIOUS
  <2>1. IsClaim(c) /\ IsClaim(m)
    BY DEF Has, IsClaim
  <2>2. m.topic = <<raw.topic>> /\ m.sources = raw.sources
    BY <2>1 DEF Has, IsClaim, TextOf, Says, Unescaped, Legible
  <2>3. m.level = Level(l, IF "agreement" \in form.asks THEN raw.agreement ELSE None)
    <3>1. m.level = Level(l, LevelOf(l, form, raw))
      BY <2>1 DEF Has, IsClaim
    <3>2. None \notin Vocabulary
      BY SynthesisAssumption
    <3>3. QED
      BY <3>1, <3>2 DEF LevelOf, NewLevel, Level, Vocabulary
  <2>4. m.support = IF "support" \in form.asks THEN SupportRead(raw.support) ELSE None
    <3>1. m.support = SupportRead(SupportOf(form, raw))
      BY <2>1 DEF Has, IsClaim
    <3>2. QED
      BY <3>1 DEF SupportOf, SupportRead
  <2>5. m.quotes = Quoted(form, raw) /\ m.counter = CounterOf(form, raw)
    BY <2>1 DEF Has, IsClaim
  <2> HIDE DEF m
  <2>6. m = [topic |-> m.topic, level |-> m.level, support |-> m.support, sources |-> m.sources,
             quotes |-> m.quotes, counter |-> m.counter]
    BY <2>1 DEF IsClaim
  <2>7. QED
    BY <2>2, <2>3, <2>4, <2>5, <2>6 DEF Meant, Quoted, CounterOf
<1>4. ClaimRead(l, q) = sets[a + 1]
  <2>1. CASE ~Says(raw)
    BY <1>1, <2>1 DEF ClaimRead, TextOf, MeantNext, Says, Unescaped, Legible
  <2>2. CASE Says(raw)
    <3>1. ClaimRead(l, q) = sets[a] \cup {m}
      <4>1. q.buf["text"] # <<>>
        BY <1>1, <2>2 DEF TextOf, Says, Unescaped, Legible
      <4>2. QED
        BY <1>1, <4>1 DEF ClaimRead
    <3>2. QED
      BY <1>3, <2>2, <3>1 DEF MeantNext
  <2>3. QED
    BY <2>1, <2>2
<1>5. z = [Leave(q, {"claim", "text", "agreement_level", "support_level"}) EXCEPT
             !.doc.claims = ClaimRead(l, q), !.claim.support = None]
  BY DEF OnEvent, Close, OnClose
<1>6. /\ z.doc.claims = sets[a + 1] /\ z.section = q.section /\ z.quoteOf = q.quoteOf
      /\ z.open = q.open \ {"claim", "text", "agreement_level", "support_level"}
  <2> HIDE DEF z, m
  <2>1. z.section = q.section /\ z.quoteOf = q.quoteOf
    BY <1>1, <1>5 DEF Leave, IsReader
  <2>2. z.open = q.open \ {"claim", "text", "agreement_level", "support_level"}
    BY <1>1, <1>5 DEF Leave, IsReader
  <2>3. z.doc.claims = ClaimRead(l, q)
    BY <1>1, <1>5 DEF Leave, IsReader, IsDoc
  <2>4. QED
    BY <1>4, <2>1, <2>2, <2>3
<1> HIDE DEF z, m
<1>7. Between(z, sets[a + 1])
  BY <1>2, <1>6 DEF Between, Ready, Inside, Takers
<1>8. Reads(l, sets, q, <<Close("claim")>>, z, a, a + 1)
  <2>1. Steps(l, Close("claim"), q, z, a, a + 1) /\ a + 1 \in Nat
    BY DEF Steps, z
  <2>2. QED
    BY <1>1, <1>6, <2>1, ReadOne
<1>9. QED
  BY <1>7, <1>8

LEMMA ClaimIsRead ==
  ASSUME NEW l, NEW sets, NEW a \in Nat, NEW r, Between(r, sets[a]), NEW form, NEW raw \in Raw,
         IsFiniteSet(raw.sources), IsFiniteSet(raw.quoted), \A q \in raw.quoted : q[1] # None,
         sets[a + 1] = MeantNext(l, form, raw, sets[a])
  PROVE  \E q : Between(q, sets[a + 1]) /\ Reads(l, sets, r, WrittenClaim(form, raw), q, a, a + 1)
<1> DEFINE e1 == Field("text", raw.topic)
           e2 == If("agreement" \in form.asks, Field("agreement_level", raw.agreement))
           e3 == If("support" \in form.asks, Field("support_level", raw.support))
           e4 == Element("sources", None, AllSources(form, raw))
           e5 == If("quotes" \in form.asks /\ ~form.nested,
                    Each(raw.quoted, LAMBDA q : Element("quote", q[1], <<Chars(q[2])>>)))
           e6 == If("counter" \in form.asks /\ raw.counter, Field("counterargument", Dissent))
           t  == TextOf(raw)
           lv == LevelOf(l, form, raw)
           sp == SupportOf(form, raw)
           qs == Quoted(form, raw)
           cs == CounterOf(form, raw)
<1>1. PICK o, c : /\ Inside(o, sets[a], c, <<>>) /\ Reads(l, sets, r, <<Open("claim", None)>>, o, a, a)
                  /\ Has(c, NewLevel(l), None, {}, {}, {})
  BY ClaimOpens DEF Brings
<1>2. Brings(l, sets, a, o, e1, t, NewLevel(l), None, {}, {}, {})
  BY <1>1, TextBrings
<1> HIDE DEF e1
<1>3. Brings(l, sets, a, o, e1 \o e2, t, lv, None, {}, {}, {})
  BY <1>2, LevelBrings
<1> HIDE DEF e2, lv
<1>4. Brings(l, sets, a, o, e1 \o e2 \o e3, t, lv, sp, {}, {}, {})
  BY <1>3, SupportBrings
<1> HIDE DEF e3, sp
<1>5. Brings(l, sets, a, o, e1 \o e2 \o e3 \o e4, t, lv, sp, raw.sources, {}, {})
  BY <1>4, SourcesBring
<1> HIDE DEF e4
<1>6. Brings(l, sets, a, o, e1 \o e2 \o e3 \o e4 \o e5, t, lv, sp, raw.sources, qs, {})
  BY <1>5, QuotesBring
<1> HIDE DEF e5, qs
<1>7. Brings(l, sets, a, o, e1 \o e2 \o e3 \o e4 \o e5 \o e6, t, lv, sp, raw.sources, qs, cs)
  BY <1>6, CounterBrings
<1> HIDE DEF e6, cs, t
<1> DEFINE inner == e1 \o e2 \o e3 \o e4 \o e5 \o e6
<1> HIDE DEF inner
<1>8. PICK q, d : /\ Inside(q, sets[a], d, t) /\ Reads(l, sets, o, inner, q, a, a)
                  /\ Has(d, lv, sp, raw.sources, qs, cs)
  BY <1>7 DEF Brings, inner
<1>9. PICK z : Between(z, sets[a + 1]) /\ Reads(l, sets, q, <<Close("claim")>>, z, a, a + 1)
  BY <1>8, ClaimCloses DEF t, lv, sp, qs, cs
<1>10. Reads(l, sets, r, (<<Open("claim", None)>> \o inner) \o <<Close("claim")>>, z, a, a + 1)
  <2>1. Reads(l, sets, r, <<Open("claim", None)>> \o inner, q, a, a)
    BY <1>1, <1>8, ReadBoth
  <2>2. QED
    BY <1>9, <2>1, ReadBoth
<1>11. WrittenClaim(form, raw) = (<<Open("claim", None)>> \o inner) \o <<Close("claim")>>
  BY DEF WrittenClaim, AllSources, Element, inner, e1, e2, e3, e4, e5, e6
<1>12. QED
  BY <1>9, <1>10, <1>11

-----------------------------------------------------------------------------
(***************************************************************************)
(* The whole answer.                                                       *)
(***************************************************************************)
\* Whatever place the reader is at, t takes it on and closes no claim.
Passes(l, sets, a, r, t) == \E q : IsReader(q) /\ Reads(l, sets, r, t, q, a, a)

LEMMA TextPasses ==
  ASSUME NEW l, NEW sets, NEW a \in Nat, NEW r, IsReader(r), r.doc.claims = sets[a], NEW v
  PROVE  Passes(l, sets, a, r, <<Chars(v)>>) /\ Passes(l, sets, a, r, <<>>)
<1>1. Passes(l, sets, a, r, <<Chars(v)>>)
  BY ReadSilent DEF Passes, ClosesNoClaim, Chars
<1>2. Passes(l, sets, a, r, <<>>)
  BY ReadNothing DEF Passes
<1>3. QED
  BY <1>1, <1>2

LEMMA ElementPasses ==
  ASSUME NEW l, NEW sets, NEW a \in Nat, NEW r, IsReader(r), r.doc.claims = sets[a],
         NEW tag, NEW at, NEW inner, tag # "claim",
         \A o : IsReader(o) /\ o.doc.claims = sets[a] => Passes(l, sets, a, o, inner)
  PROVE  Passes(l, sets, a, r, Element(tag, at, inner))
<1> DEFINE o == OnEvent(l, r, Open(tag, at))
<1>1. IsReader(o) /\ o.doc.claims = sets[a]
  <2>1. ClosesNoClaim(Open(tag, at))
    BY DEF ClosesNoClaim, Open
  <2>2. QED
    BY <2>1, EventKeepsShape, SilentKeepsClaims
<1>2. PICK q : IsReader(q) /\ Reads(l, sets, o, inner, q, a, a)
  BY <1>1 DEF Passes
<1>3. Reads(l, sets, r, Element(tag, at, inner), OnEvent(l, q, Close(tag)), a, a)
  BY <1>2, ReadAround
<1>4. IsReader(OnEvent(l, q, Close(tag)))
  BY <1>2, EventKeepsShape
<1>5. QED
  BY <1>3, <1>4 DEF Passes

LEMMA FieldPasses ==
  ASSUME NEW l, NEW sets, NEW a \in Nat, NEW r, IsReader(r), r.doc.claims = sets[a],
         NEW tag, NEW v, tag # "claim"
  PROVE  Passes(l, sets, a, r, Field(tag, v))
<1>1. CASE v = None
  BY <1>1, TextPasses DEF Field
<1>2. CASE v # None
  <2>1. Passes(l, sets, a, r, Element(tag, None, <<Chars(v)>>))
    BY TextPasses, ElementPasses
  <2>2. QED
    BY <1>2, <2>1 DEF Field
<1>3. QED
  BY <1>1, <1>2

Uncertain(form) == If("uncertainties" \in form.asks, Element("uncertainties", None, Field("uncertainty", "open question")))
Gaps(form) == If("gaps" \in form.asks, Element("gaps", None, Element("gap", "epistemic", <<Chars("unknown")>>)))

LEMMA TailPasses ==
  ASSUME NEW l, NEW sets, NEW a \in Nat, NEW r, IsReader(r), r.doc.claims = sets[a], NEW form
  PROVE  Passes(l, sets, a, r, Uncertain(form)) /\ Passes(l, sets, a, r, Gaps(form))
<1>1. Passes(l, sets, a, r, <<>>)
  BY TextPasses
<1>2. Passes(l, sets, a, r, Element("uncertainties", None, Field("uncertainty", "open question")))
  BY FieldPasses, ElementPasses
<1>3. \A o : IsReader(o) /\ o.doc.claims = sets[a] =>
             Passes(l, sets, a, o, Element("gap", "epistemic", <<Chars("unknown")>>))
  BY TextPasses, ElementPasses
<1>4. Passes(l, sets, a, r, Element("gaps", None, Element("gap", "epistemic", <<Chars("unknown")>>)))
  BY <1>3, ElementPasses
<1>5. QED
  BY <1>1, <1>2, <1>4 DEF Uncertain, Gaps, If

LEMMA NarrativeIsRead ==
  ASSUME NEW l, NEW sets, NEW a \in Nat, NEW r, Between(r, sets[a]), NEW v
  PROVE  \E q : Between(q, sets[a]) /\ Reads(l, sets, r, Field("narrative", v), q, a, a)
<1> DEFINE o == OnEvent(l, r, Open("narrative", None))
           h == OnEvent(l, o, Chars(v))
           q == OnEvent(l, h, Close("narrative"))
<1> IsReader(r) /\ r.doc.claims = sets[a]
  BY DEF Between, Ready
<1>1. CASE v = None
  BY <1>1, ReadNothing DEF Field
<1>2. CASE v # None
  <2>1. Reads(l, sets, r, <<Open("narrative", None)>>, o, a, a) /\ IsReader(o) /\ o.doc.claims = sets[a]
    BY ReadSilent DEF ClosesNoClaim, Open
  <2>2. o.open = r.open \cup {"narrative"} /\ o.section = r.section /\ o.quoteOf = r.quoteOf
    BY DEF OnEvent, Open, OnOpen, Enter, IsReader
  <2> HIDE DEF o
  <2>3. Reads(l, sets, o, <<Chars(v)>>, h, a, a) /\ IsReader(h) /\ h.doc.claims = sets[a]
    BY <2>1, ReadSilent DEF ClosesNoClaim, Chars
  <2>4. Taker(o) = "narrative" /\ "narrative" # None
    <3>1. o.open \cap Takers = {"narrative"} /\ "narrative" \in Takers
      BY <2>2 DEF Between, Ready, Takers
    <3>2. QED
      BY <2>1, <3>1, TextIsTaken, TakersAre
  <2>5. h.open = o.open /\ h.section = o.section /\ h.quoteOf = o.quoteOf
    BY <2>1, <2>4 DEF OnEvent, Chars, OnText, IsReader
  <2> HIDE DEF h
  <2>6. Reads(l, sets, h, <<Close("narrative")>>, q, a, a) /\ IsReader(q) /\ q.doc.claims = sets[a]
    BY <2>3, ReadSilent DEF ClosesNoClaim, Close
  <2>7. q.open = h.open \ {"narrative"} /\ q.section = h.section /\ q.quoteOf = h.quoteOf
    BY <2>3 DEF OnEvent, Close, OnClose, Leave, IsReader
  <2> HIDE DEF q
  <2>8. Between(q, sets[a])
    BY <2>2, <2>5, <2>6, <2>7 DEF Between, Ready, Takers
  <2>9. Reads(l, sets, r, Field("narrative", v), q, a, a)
    <3>1. Reads(l, sets, r, <<Open("narrative", None)>> \o <<Chars(v)>>, h, a, a)
      BY <2>1, <2>3, ReadBoth
    <3>2. QED
      BY <1>2, <2>6, <3>1, ReadBoth DEF Field, Element
  <2>10. QED
    BY <2>8, <2>9
<1>3. QED
  BY <1>1, <1>2

\* What the first claims of an answer meant.
MeantUpTo(l, form, raws) ==
  [j \in Nat |-> {Meant(l, form, raws[i]) : i \in {k \in 1 .. j : Says(raws[k])}}]

LEMMA MeantOneMore ==
  ASSUME NEW l, NEW form, NEW raws, NEW j \in Nat
  PROVE  /\ MeantUpTo(l, form, raws)[0] = {}
         /\ MeantUpTo(l, form, raws)[j + 1] =
              MeantNext(l, form, raws[j + 1], MeantUpTo(l, form, raws)[j])
<1> DEFINE named(m) == {k \in 1 .. m : Says(raws[k])}
<1>1. named(0) = {}
  OBVIOUS
<1>2. named(j + 1) = IF Says(raws[j + 1]) THEN named(j) \cup {j + 1} ELSE named(j)
  <2>1. 1 .. j + 1 = (1 .. j) \cup {j + 1}
    OBVIOUS
  <2>2. QED
    BY <2>1
<1>3. \A m \in Nat : MeantUpTo(l, form, raws)[m] = {Meant(l, form, raws[i]) : i \in named(m)}
  BY DEF MeantUpTo
<1> HIDE DEF named
<1>4. MeantUpTo(l, form, raws)[0] = {}
  BY <1>1, <1>3
<1>5. j + 1 \in Nat
  OBVIOUS
<1>6. QED
  BY <1>2, <1>3, <1>4, <1>5 DEF MeantNext

ClaimsUpTo(l, sets, r, t, j) == \E q : Between(q, sets[j]) /\ Reads(l, sets, r, t, q, 0, j)

LEMMA ClaimsInTurn ==
  ASSUME NEW l, NEW form, NEW raws \in Answers, NEW r, Between(r, {})
  PROVE  ClaimsUpTo(l, MeantUpTo(l, form, raws), r,
                    FlattenSeq([i \in 1 .. Len(raws) |-> WrittenClaim(form, raws[i])]), Len(raws))
<1> DEFINE n == Len(raws)
           sets == MeantUpTo(l, form, raws)
           seqs == [i \in 1 .. n |-> WrittenClaim(form, raws[i])]
<1>0. raws \in Seq(Raw)
  <2>1. Answers \subseteq Seq(Raw)
    BY SynthesisAssumption
  <2>2. QED
    BY <2>1
<1>1. n \in Nat
  BY <1>0
<1>2. ASSUME NEW i \in 1 .. n
      PROVE  /\ raws[i] \in Raw /\ IsFiniteSet(raws[i].sources) /\ IsFiniteSet(raws[i].quoted)
             /\ \A q \in raws[i].quoted : q[1] # None
  <2>1. raws \in Seq(Raw) /\ i \in DOMAIN raws
    BY <1>0
  <2>2. raws[i] \in Raw /\ raws[i] \in Range(raws)
    BY <2>1 DEF Range
  <2>3. \A q \in raws[i].quoted : q[1] \in Source
    BY <2>2 DEF Raw
  <2>4. QED
    BY <2>2, <2>3, SynthesisAssumption
<1>3. seqs = [i \in 1 .. n |-> seqs[i]] /\ \A i \in 1 .. n : seqs[i] = WrittenClaim(form, raws[i])
  OBVIOUS
<1> HIDE DEF seqs, n, sets
<1>4. \A j \in Nat : sets[j + 1] = MeantNext(l, form, raws[j + 1], sets[j])
  BY MeantOneMore DEF sets
<1>5. sets[0] = {}
  BY MeantOneMore, 0 \in Nat DEF sets
<1>6. ASSUME NEW q, NEW j \in 0 .. n - 1, Between(q, sets[j])
      PROVE  \E z : Between(z, sets[j + 1]) /\ Reads(l, sets, q, seqs[j + 1], z, j, j + 1)
  <2>1. j \in Nat /\ j + 1 \in 1 .. n
    BY <1>1
  <2>2. QED
    BY <1>2, <1>3, <1>4, <1>6, <2>1, ClaimIsRead
<1>7. ASSUME NEW i \in 1 .. n PROVE Listed(seqs[i])
  <2> DEFINE two == [k \in {0, 1} |-> IF k = 0 THEN {} ELSE MeantNext(l, form, raws[i], {})]
  <2>1. two[0] = {} /\ two[0 + 1] = MeantNext(l, form, raws[i], {})
    OBVIOUS
  <2> HIDE DEF two
  <2>2. \E q : Reads(l, two, r, WrittenClaim(form, raws[i]), q, 0, 0 + 1)
    BY <1>2, <2>1, ClaimIsRead, 0 \in Nat
  <2>3. QED
    BY <1>3, <2>2 DEF Reads
<1>8. PICK f : Writes(seqs, n, f)
  BY <1>1, <1>3, <1>7, WrittenInTurn
<1> DEFINE Good == {j \in 0 .. n : ClaimsUpTo(l, sets, r, f[j], j)}
<1>9. 0 \in Good
  <2>1. Reads(l, sets, r, f[0], r, 0, 0)
    BY <1>5, <1>8, ReadNothing, 0 \in Nat DEF Writes, Between
  <2>2. QED
    BY <1>1, <1>5, <2>1 DEF ClaimsUpTo
<1>10. ASSUME NEW j \in 0 .. n - 1, j \in Good PROVE j + 1 \in Good
  <2>1. PICK q : Between(q, sets[j]) /\ Reads(l, sets, r, f[j], q, 0, j)
    BY <1>10 DEF ClaimsUpTo
  <2>2. PICK z : Between(z, sets[j + 1]) /\ Reads(l, sets, q, seqs[j + 1], z, j, j + 1)
    BY <1>6, <2>1
  <2>3. f[j + 1] = f[j] \o seqs[j + 1]
    BY <1>8 DEF Writes
  <2>4. Reads(l, sets, r, f[j + 1], z, 0, j + 1)
    BY <2>1, <2>2, <2>3, ReadBoth
  <2>5. j + 1 \in 0 .. n
    BY <1>1
  <2>6. QED
    BY <2>2, <2>4, <2>5 DEF ClaimsUpTo
<1>11. n \in Good
  <2> HIDE DEF Good
  <2>1. \A k \in 0 .. n : k \in Good
    BY <1>1, <1>9, <1>10, CountingUp
  <2>2. QED
    BY <1>1, <2>1
<1>12. ClaimsUpTo(l, sets, r, FlattenSeq(seqs), n)
  BY <1>8, <1>11 DEF Writes
<1>13. QED
  BY <1>12 DEF seqs, sets, n

LEMMA WholeAnswer ==
  ASSUME NEW l, NEW form, NEW raws \in Answers
  PROVE  \E q : Reads(l, MeantUpTo(l, form, raws), Start0, Written(form, raws), q, 0, Len(raws))
<1> DEFINE sets  == MeantUpTo(l, form, raws)
           start == If("narrative" \in form.asks, Field("narrative", "prose"))
           body  == FlattenSeq([i \in 1 .. Len(raws) |-> WrittenClaim(form, raws[i])])
           u     == Uncertain(form)
           g     == Gaps(form)
           m     == Len(raws)
<1>1. Between(Start0, {}) /\ Start0.doc.claims = {} /\ IsReader(Start0)
  BY DEF Between, Ready, Start0, NoDoc, NoClaim, IsReader, IsDoc, IsClaim, Takers
<1>2. sets[0] = {} /\ m \in Nat
  <2>1. sets[0] = {}
    BY MeantOneMore, 0 \in Nat
  <2>2. raws \in Seq(Raw)
    BY SynthesisAssumption
  <2>3. QED
    BY <2>1, <2>2
<1>3. \E q : Between(q, sets[0]) /\ Reads(l, sets, Start0, start, q, 0, 0)
  <2>1. CASE "narrative" \in form.asks
    BY <1>1, <1>2, <2>1, NarrativeIsRead, 0 \in Nat DEF If
  <2>2. CASE "narrative" \notin form.asks
    BY <1>1, <1>2, <2>2, ReadNothing, 0 \in Nat DEF If
  <2>3. QED
    BY <2>1, <2>2
<1> HIDE DEF start
<1>4. PICK q : Between(q, {}) /\ Reads(l, sets, Start0, start, q, 0, 0)
  BY <1>2, <1>3
<1>5. PICK z : Between(z, sets[m]) /\ Reads(l, sets, q, body, z, 0, m)
  BY <1>4, ClaimsInTurn DEF ClaimsUpTo
<1>6. IsReader(z) /\ z.doc.claims = sets[m]
  BY <1>5 DEF Between, Ready
<1> HIDE DEF body, sets, m
<1>7. PICK v : IsReader(v) /\ Reads(l, sets, z, u, v, m, m)
  BY <1>2, <1>6, TailPasses DEF Passes
<1>8. v.doc.claims = sets[m]
  BY <1>7, ReadEnd
<1>9. PICK w : IsReader(w) /\ Reads(l, sets, v, g, w, m, m)
  BY <1>2, <1>7, <1>8, TailPasses DEF Passes
<1> HIDE DEF u, g
<1> DEFINE inner == start \o body \o u \o g
<1>10. Reads(l, sets, Start0, inner, w, 0, m)
  <2>1. Reads(l, sets, Start0, start \o body, z, 0, m)
    BY <1>4, <1>5, ReadBoth
  <2>2. Reads(l, sets, Start0, start \o body \o u, v, 0, m)
    BY <1>7, <2>1, ReadBoth
  <2>3. QED
    BY <1>9, <2>2, ReadBoth
<1> HIDE DEF inner
<1>11. OnEvent(l, Start0, Open("synthesis", None)) = Start0 /\ OnEvent(l, w, Close("synthesis")) = w
  BY DEF OnEvent, Open, OnOpen, Close, OnClose
<1>12. Reads(l, sets, Start0, Element("synthesis", None, inner), w, 0, m)
  BY <1>1, <1>2, <1>9, <1>10, <1>11, ReadAround, 0 \in Nat
<1>13. Written(form, raws) = Element("synthesis", None, inner)
  BY DEF Written, inner, start, body, u, g, Uncertain, Gaps
<1>14. QED
  BY <1>12, <1>13 DEF sets, m

LEMMA AnswerIsRead ==
  ASSUME NEW l, NEW form, NEW raws \in Answers
  PROVE  /\ Len(Written(form, raws)) \in Nat
         /\ \A n \in 0 .. Len(Written(form, raws)) :
              Parsed(l, Written(form, raws), n).claims = Told(l, form, raws, n)
<1> DEFINE sets == MeantUpTo(l, form, raws)
<1>1. PICK q : Reads(l, sets, Start0, Written(form, raws), q, 0, Len(raws))
  BY WholeAnswer
<1>2. Len(Written(form, raws)) \in Nat
  BY <1>1, ListedIs DEF Reads
<1>3. ASSUME NEW n \in 0 .. Len(Written(form, raws))
      PROVE  Parsed(l, Written(form, raws), n).claims = Told(l, form, raws, n)
  <2> DEFINE k == ClosedClaims(Written(form, raws), n)
  <2>1. k \in Nat /\ Parsed(l, Written(form, raws), n).claims = sets[k]
    BY <1>1, ReadingIsParsed
  <2>2. QED
    BY <2>1 DEF Told, MeantUpTo, Says
<1>4. QED
  BY <1>2, <1>3

-----------------------------------------------------------------------------
(***************************************************************************)
(* The artifact between the steps: it has its shape, it is what the last   *)
(* answer told as long as it is that answer's, and the steps that resolve  *)
(* it begin with none.                                                     *)
(***************************************************************************)
ResolvedFromNone == phase \in {"identify", "patch", "full"} => answer = <<>>
ReadingIInv == ReadsWhatWasWritten /\ ResolvedFromNone /\ IsDoc(doc)

LEMMA ReadIsTold ==
  ASSUME NEW form \in Forms, Read(form)
  PROVE  IsDoc(doc') /\ answer' # <<>> /\ doc'.claims = answer'[1]
<1>1. lit \in BOOLEAN
  BY DEF lit
<1>2. PICK raws \in Answers : \E reading \in Readings[lit][form][raws] : doc' = reading[1] /\ answer' = <<reading[2]>>
  BY DEF Read
<1>3. Readings[lit][form][raws] =
        LET events == Written(form, raws)
        IN  {<<Parsed(lit, events, n), Told(lit, form, raws, n)>> : n \in ReadableTo(events)}
  BY <1>1 DEF Readings
<1>4. PICK n \in ReadableTo(Written(form, raws)) :
        doc' = Parsed(lit, Written(form, raws), n) /\ answer' = <<Told(lit, form, raws, n)>>
  BY <1>2, <1>3
<1>5. n \in Nat /\ n \in 0 .. Len(Written(form, raws))
  <2>1. Len(Written(form, raws)) \in Nat
    BY AnswerIsRead
  <2>2. QED
    BY <2>1 DEF ReadableTo
<1>6. Parsed(lit, Written(form, raws), n).claims = Told(lit, form, raws, n)
  BY <1>5, AnswerIsRead
<1>7. IsDoc(doc')
  BY <1>4, <1>5, ParsedHasShape
<1>8. QED
  BY <1>4, <1>6, <1>7

LEMMA PatchedHasShape ==
  ASSUME IsDoc(doc), NEW texts
  PROVE  IsDoc(Patched(doc, texts)) /\ doc.claims \subseteq Patched(doc, texts).claims
<1>1. \A t : IsClaim([NoClaim EXCEPT !.topic = <<t>>, !.level = "divided"])
  BY DEF IsClaim, NoClaim
<1>2. QED
  BY <1>1 DEF Patched, IsDoc

LEMMA SupportedHasShape ==
  ASSUME IsDoc(doc), NEW more
  PROVE  /\ IsDoc(Supported(doc, more))
         /\ \A c \in doc.claims : \E k \in Supported(doc, more).claims : Keeps(k, c)
<1> DEFINE cited(c) == IF Cardinality(c.sources) = 1 THEN [c EXCEPT !.sources = @ \cup more] ELSE c
<1>1. \A c : IsClaim(c) => IsClaim(cited(c)) /\ Keeps(cited(c), c)
  <2> TAKE c
  <2> HAVE IsClaim(c)
  <2>1. IsClaim([c EXCEPT !.sources = @ \cup more])
    BY ClaimIsKept
  <2>2. Keeps([c EXCEPT !.sources = @ \cup more], c)
    BY DEF Keeps, IsClaim
  <2>3. Keeps(c, c)
    BY DEF Keeps
  <2>4. QED
    BY <2>1, <2>2, <2>3
<1>2. Supported(doc, more) = [doc EXCEPT !.claims = {cited(c) : c \in @}]
  BY DEF Supported
<1> HIDE DEF cited
<1>3. Supported(doc, more).claims = {cited(c) : c \in doc.claims} /\ DOMAIN Supported(doc, more) = DOMAIN doc
  BY <1>2 DEF IsDoc
<1>4. QED
  BY <1>1, <1>3 DEF IsDoc

LEMMA ReadingStart == Init => ReadingIInv
  BY DEF Init, ReadingIInv, ReadsWhatWasWritten, ResolvedFromNone, IsDoc, NoDoc

LEMMA ReadingStep ==
  ASSUME ReadingIInv, [Next]_vars
  PROVE  ReadingIInv' /\ FallbackKeepsClaims
<1> USE DEF ReadingIInv, ReadsWhatWasWritten, ResolvedFromNone
<1>1. CASE Generate
  <2>1. DraftForm(TRUE) \in Forms /\ DraftForm(FALSE) \in Forms
    BY DEF DraftForm, Forms
  <2>2. IsDoc(doc') /\ answer' # <<>> /\ doc'.claims = answer'[1]
    BY <1>1, <2>1, ReadIsTold DEF Generate
  <2>3. phase' \notin {"identify", "patch", "full"} /\ phase = "draft"
    BY <1>1 DEF Generate
  <2>4. QED
    BY <2>2, <2>3 DEF FallbackKeepsClaims
<1>2. CASE Regenerate
  <2>1. FullLit \in Forms /\ FullV1 \in Forms
    BY DEF Forms, FullLit
  <2>2. IsDoc(doc') /\ answer' # <<>> /\ doc'.claims = answer'[1]
    BY <1>2, <2>1, ReadIsTold DEF Regenerate
  <2>3. phase' \notin {"identify", "patch", "full"}
    BY <1>2 DEF Regenerate
  <2>4. QED
    BY <2>2, <2>3 DEF FallbackKeepsClaims
<1>3. CASE Merge
  <2>1. MergerLit \in Forms /\ MergerV1 \in Forms
    BY DEF Forms
  <2>2. IsDoc(doc') /\ answer' # <<>> /\ doc'.claims = answer'[1]
    BY <1>3, <2>1, ReadIsTold DEF Merge
  <2>3. phase' \notin {"identify", "patch", "full"} /\ phase = "merge"
    BY <1>3 DEF Merge
  <2>4. QED
    BY <2>2, <2>3 DEF FallbackKeepsClaims
<1>4. CASE PatchAnswered
  <2>1. PICK texts : doc' = Patched(doc, texts)
    BY <1>4 DEF PatchAnswered
  <2>2. IsDoc(doc') /\ doc.claims \subseteq doc'.claims
    BY <2>1, PatchedHasShape
  <2>3. answer' = answer /\ phase = "patch" /\ phase' = "evaluate"
    BY <1>4 DEF PatchAnswered
  <2>4. QED
    BY <2>2, <2>3 DEF FallbackKeepsClaims, Keeps
<1>5. CASE Heuristic
  <2>1. doc' = Supported(doc, retrieved) /\ answer' = <<>> /\ phase' = "evaluate"
    BY <1>5 DEF Heuristic
  <2>2. QED
    BY <2>1, SupportedHasShape DEF FallbackKeepsClaims
<1>6. CASE Finish
  <2>1. answer' = <<>> /\ doc' = NoDoc /\ phase = "evaluate"
    BY <1>6 DEF Finish
  <2>2. QED
    BY <2>1 DEF FallbackKeepsClaims, NoDoc, IsDoc
<1>7. CASE Evaluate
  BY <1>7 DEF Evaluate, FallbackKeepsClaims, Keeps
<1>8. CASE GenerateFail \/ Identify \/ IdentifyFail \/ PatchUnread \/ ResolveFail \/ MergeFail \/ UNCHANGED vars
  <2>1. doc' = doc /\ answer' = answer
    BY <1>8 DEF GenerateFail, Identify, IdentifyFail, PatchUnread, ResolveFail, MergeFail, vars
  <2>2. phase' \in {"identify", "patch", "full"} => phase \in {"identify", "patch", "full"}
    BY <1>8 DEF GenerateFail, Identify, IdentifyFail, PatchUnread, ResolveFail, MergeFail, vars
  <2>3. QED
    BY <2>1, <2>2 DEF FallbackKeepsClaims, Keeps
<1>9. QED
  BY <1>1, <1>2, <1>3, <1>4, <1>5, <1>6, <1>7, <1>8 DEF Next, Returned

-----------------------------------------------------------------------------
(***************************************************************************)
(* The results.                                                            *)
(***************************************************************************)
\* Whichever quotes the bound leaves out, the merger is shown a quote of every paper
\* that a candidate quotes and the graph does not anchor, none of another, and of no
\* paper more than the bound.
THEOREM EvidenceReachesTheMerger == Spec => []EvidenceIsComplete
<1>1. Init => EvidenceIsChosen
  BY DEF Init, EvidenceIsChosen
<1>2. EvidenceIsChosen /\ [Next]_vars => EvidenceIsChosen'
  BY EvidenceStep
<1>3. QED
  BY <1>1, <1>2, ChosenEvidenceIsComplete, PTL DEF Spec

\* A draft is resolved with the veto of this very draft in the gap prompt, whichever
\* calls failed before and however many rounds there were.
THEOREM VetoReachesTheGapPrompt == Spec => []VetoIsHeard
<1>1. Init => VetoIInv
  BY DEF Init, VetoIInv, JudgedIsCurrent, ToldIsCurrent
<1>2. VetoIInv /\ [Next]_vars => VetoIInv'
  BY VetoStep
<1>3. QED
  BY <1>1, <1>2, ToldMeansHeard, PTL DEF Spec

\* Whatever a form asks for, whatever a model has in mind and wherever its answer breaks
\* off: the claims read are those that were closed and whose text can be unescaped, with
\* what the form asked of each; a garbled text takes no other text with it.
THEOREM TheReaderReadsWhatWasWritten == Spec => []ReadsWhatWasWritten
<1>1. ReadingIInv /\ [Next]_vars => ReadingIInv'
  BY ReadingStep
<1>2. ReadingIInv => ReadsWhatWasWritten
  BY DEF ReadingIInv
<1>3. QED
  BY <1>1, <1>2, ReadingStart, PTL DEF Spec

\* On the ladder a claim is lost only to a regeneration that was read; whatever fails,
\* and in patch and heuristic, it keeps its text, sources, quotes and levels.
THEOREM NoFallbackLosesAClaim == Spec => ClaimsOutliveFallbacks
<1>1. ReadingIInv /\ [Next]_vars => ReadingIInv'
  BY ReadingStep
<1>2. ReadingIInv /\ [Next]_vars => [FallbackKeepsClaims]_vars
  BY ReadingStep
<1>3. QED
  BY <1>1, <1>2, ReadingStart, PTL DEF Spec, ClaimsOutliveFallbacks
=============================================================================
