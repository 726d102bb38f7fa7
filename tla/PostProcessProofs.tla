-------------------------- MODULE PostProcessProofs --------------------------
(***************************************************************************)
(* The invariants of PostProcess, for any panel, texts, graph and answers  *)
(* of the models.  Together with the types they are inductive.  The first  *)
(* part says what each step does to one claim, the second lifts it to the  *)
(* synthesis, one lemma per action.                                        *)
(***************************************************************************)
EXTENDS PostProcess, TLAPS, WellFoundedInduction, NaturalsInduction

USE DEF Quote, Claim, GraphNode, Status

-----------------------------------------------------------------------------
\* What normalisation and filtering make of a claim.
LEMMA NormalisedClaim ==
  ASSUME NEW c \in Claim
  PROVE  /\ Normalised(c) \in Claim
         /\ Normalised(c).sources = {Home[id] : id \in c.sources}
         /\ Normalised(c).quotes = {[q EXCEPT !.source = Home[q.source]] : q \in c.quotes}
<1>1. {Home[id] : id \in c.sources} \in SUBSET Id
  BY SourcesAssumption
<1>2. ASSUME NEW q \in c.quotes PROVE [q EXCEPT !.source = Home[q.source]] \in Quote
  BY SourcesAssumption
<1>3. {[q EXCEPT !.source = Home[q.source]] : q \in c.quotes} \in SUBSET Quote
  BY <1>2
<1> QED
  BY <1>1, <1>3 DEF Normalised

LEMMA StrippedClaim ==
  ASSUME NEW c \in Claim
  PROVE  /\ Stripped(c) \in Claim
         /\ Stripped(c).sources = {id \in c.sources : Valid(id)}
         /\ Stripped(c).quotes = {q \in c.quotes : Valid(q.source)}
<1>1. {id \in c.sources : Valid(id)} \in SUBSET Id
  OBVIOUS
<1>2. {q \in c.quotes : Valid(q.source)} \in SUBSET Quote
  OBVIOUS
<1> QED
  BY <1>1, <1>2 DEF Stripped

LEMMA LevelledClaim ==
  ASSUME NEW c \in Claim
  PROVE  /\ Levelled(c) \in Claim
         /\ Levelled(c).sources = c.sources
         /\ Levelled(c).quotes = c.quotes
         /\ Experts(c) # {} =>
              Levelled(c).level = LevelFor(Cardinality(Experts(c)), Cardinality(Panel))
<1>1. LevelFor(Cardinality(Experts(c)), Cardinality(Panel)) \in Level
  BY DEF LevelFor, Level
<1> QED
  BY <1>1 DEF Levelled, Claim

\* An id is what it says once it is normalised.
LEMMA HomeIsHome ==
  ASSUME NEW id \in Id
  PROVE  Home[id] \in Id /\ Home[Home[id]] = Home[id]
BY SourcesAssumption

-----------------------------------------------------------------------------
\* What verification makes of a quote and of a claim.
LEMMA StampedQuote ==
  ASSUME NEW q \in Quote, NEW text \in SUBSET Passage
  PROVE  /\ Stamped(q, text) \in Quote
         /\ Stamped(q, text).source = q.source
         /\ Stamped(q, text).node = q.node
         /\ Stamped(q, text).status \in {"verified", "absent"}
         /\ Stamped(q, text).status = "verified" => Stamped(q, text).text \in text
         /\ Stamped(q, text).status = "absent" => Stamped(q, text).text = q.text
         /\ q.text \in text => Stamped(q, text).status = "verified"
BY TextAssumption DEF Stamped

LEMMA TextIsTrue ==
  ASSUME TypeOK, NEW id \in Id, NEW got
  PROVE  TextOf(id, got) \in SUBSET Passage /\ TextOf(id, got) \subseteq Truth(id)
BY TextAssumption, SourcesAssumption DEF TypeOK, TextOf, Truth, Stored, Said

LEMMA VerifiedClaim ==
  ASSUME TypeOK, NEW c \in Claim, NEW got
  PROVE  /\ Verified(c, got) \in Claim
         /\ Verified(c, got).quotes = {Stamped(q, TextOf(q.source, got)) : q \in c.quotes}
         /\ Verified(c, got).sources = c.sources
         /\ Verified(c, got).refs = c.refs
         /\ Verified(c, got).topic = c.topic
         /\ Verified(c, got).level = c.level
<1>1. ASSUME NEW q \in c.quotes PROVE Stamped(q, TextOf(q.source, got)) \in Quote
  <2>1. q \in Quote
    OBVIOUS
  <2> QED
    BY <2>1, TextIsTrue, StampedQuote
<1>2. {Stamped(q, TextOf(q.source, got)) : q \in c.quotes} \in SUBSET Quote
  BY <1>1
<1> QED
  BY <1>2 DEF Verified

-----------------------------------------------------------------------------
\* What the graph adds to a claim.
LEMMA NodeQuote ==
  ASSUME TypeOK, NEW n \in Node, NEW tag \in Node \cup {None}
  PROVE  /\ FromNode(n, tag) \in Quote
         /\ FromNode(n, tag).status = None
         /\ FromNode(n, tag).source = graph[n].paper
         /\ SameQuote(FromNode(n, tag), n)
BY DEF TypeOK, FromNode, SameQuote

LEMMA FlooredClaim ==
  ASSUME TypeOK, NEW c \in Claim
  PROVE  /\ Floored(c) \in Claim
         /\ Floored(c).sources = c.sources
         /\ Floored(c).refs = c.refs
         /\ Floored(c).topic = c.topic
         /\ Floored(c).level = c.level
         /\ c.quotes \subseteq Floored(c).quotes
         /\ \A q \in Floored(c).quotes : q \notin c.quotes =>
              \E n \in c.refs : q = FromNode(n, n)
<1> DEFINE first == {m \in Missing(c) : \A k \in Missing(c) : k < m => graph[k] # graph[m]}
           new == {FromNode(n, n) : n \in first}
<1>1. first \subseteq c.refs /\ c.refs \subseteq Node
  BY DEF Missing
<1>2. new \in SUBSET Quote
  BY <1>1, NodeQuote
<1>3. Floored(c) = IF HasVerified(c) THEN c ELSE [c EXCEPT !.quotes = c.quotes \cup new]
  BY DEF Floored
<1> HIDE DEF new
<1>4. \A q \in new : \E n \in c.refs : q = FromNode(n, n)
  BY <1>1 DEF new
<1> QED
  BY <1>2, <1>3, <1>4

LEMMA InheritedClaim ==
  ASSUME TypeOK, NEW c \in Claim
  PROVE  /\ Inherited(c) \in Claim
         /\ Inherited(c).sources = c.sources
         /\ Inherited(c).refs = c.refs
         /\ Inherited(c).topic = c.topic
         /\ Inherited(c).level = c.level
         /\ c.quotes \subseteq Inherited(c).quotes
         /\ c.refs # {} => Inherited(c) = c
         /\ \A q \in Inherited(c).quotes : q \notin c.quotes =>
              \E n \in Node : q = FromNode(n, None)
<1> DEFINE bare == {m \in UNION {Closest(c, id) : id \in Bare(c)} :
                      \A q \in c.quotes : ~SameQuote(q, m)}
           new == {FromNode(n, None) : n \in bare}
<1>1. bare \subseteq Node
  BY TextAssumption DEF Closest, Candidates, Node
<1>2. new \in SUBSET Quote
  BY <1>1, NodeQuote
<1>3. Inherited(c) = IF c.refs # {} THEN c ELSE [c EXCEPT !.quotes = c.quotes \cup new]
  BY DEF Inherited
<1> HIDE DEF new
<1>4. \A q \in new : \E n \in Node : q = FromNode(n, None)
  BY <1>1 DEF new
<1> QED
  BY <1>2, <1>3, <1>4
\* Every set of nodes has a first one.
LEMMA FirstNode ==
  ASSUME NEW S \in SUBSET Node, S # {}
  PROVE  \E m \in S : \A k \in S : ~(k < m)
<1>1. S \subseteq Nat
  BY TextAssumption DEF Node
<1>2. PICK m \in S : \A k \in S : ~(<<k, m>> \in OpToRel(<, Nat))
  BY <1>1, WFMin, NatLessThanWellFounded, Zenon
<1>3. \A k \in S : ~(k < m)
  BY <1>1, <1>2, Zenon DEF OpToRel
<1> QED
  BY <1>3

\* A node was tried when its tag or its quote is there.
Offered(c, n) == \E q \in c.quotes : q.node = n \/ Copied(q, n)

LEMMA OfferedIs ==
  ASSUME NEW c, NEW n
  PROVE  Offered(c, n) <=> (~Miscopied(c, n) => \E q \in c.quotes : Copied(q, n))
  BY DEF Offered, Miscopied

\* After both ways of attaching, a claim has used what the graph offers.
LEMMA AttachedIsUsed ==
  ASSUME TypeOK, NEW c \in Claim
  PROVE  Used(Inherited(Floored(c)))
<1> DEFINE f == Floored(c)
           d == Inherited(f)
<1>1. /\ f \in Claim /\ f.sources = c.sources /\ f.refs = c.refs /\ f.topic = c.topic
      /\ c.quotes \subseteq f.quotes
  BY FlooredClaim
<1>2. /\ d \in Claim /\ d.sources = c.sources /\ d.refs = c.refs /\ d.topic = c.topic
      /\ f.quotes \subseteq d.quotes
      /\ c.refs # {} => d = f
  BY <1>1, InheritedClaim
<1>3. ASSUME ~HasVerified(d), NEW n \in d.refs, graph[n].verified
      PROVE  Offered(d, n)
  <2>1. ~HasVerified(c)
    BY <1>1, <1>2, <1>3 DEF HasVerified
  <2>2. CASE n \notin Missing(c)
    <3>1. PICK q \in c.quotes : ~(q.node # n /\ ~SameQuote(q, n))
      BY <1>2, <1>3, <2>2 DEF Missing
    <3> QED
      BY <1>1, <1>2, <3>1 DEF Offered, SameQuote, Copied
  <2>3. CASE n \in Missing(c)
    <3> DEFINE S == {k \in Missing(c) : graph[k] = graph[n]}
    <3>1. S \in SUBSET Node /\ S # {}
      BY <2>3 DEF Missing
    <3>2. PICK k \in S : \A j \in S : ~(j < k)
      BY <3>1, FirstNode
    <3>3. k \in Missing(c) /\ \A j \in Missing(c) : j < k => graph[j] # graph[k]
      BY <3>2
    <3>4. f = [c EXCEPT !.quotes = c.quotes \cup
                 {FromNode(m, m) : m \in {m \in Missing(c) :
                    \A j \in Missing(c) : j < m => graph[j] # graph[m]}}]
      BY <2>1 DEF Floored
    <3>5. FromNode(k, k) \in f.quotes
      BY <3>3, <3>4
    <3>6. SameQuote(FromNode(k, k), n)
      BY <3>1, <3>2 DEF FromNode, SameQuote
    <3> QED
      BY <1>2, <3>5, <3>6 DEF Offered, SameQuote, Copied
  <2> QED
    BY <2>2, <2>3
<1>4. ASSUME d.refs = {}, NEW id \in d.sources, NEW n \in Closest(d, id)
      PROVE  \E q \in d.quotes : q.source = id /\ (q.status = "verified" \/ SameQuote(q, n))
  <2>1. n \in Closest(f, id) /\ id \in f.sources /\ f.refs = {}
    BY <1>1, <1>2, <1>4 DEF Closest, Candidates
  <2>2. graph[n].paper = id
    BY <2>1 DEF Closest, Candidates
  <2>3. CASE id \notin Bare(f)
    <3>1. PICK q \in f.quotes : q.source = id /\ q.status = "verified"
      BY <2>1, <2>3 DEF Bare
    <3> QED
      BY <1>2, <3>1
  <2>4. CASE id \in Bare(f) /\ \E q \in f.quotes : SameQuote(q, n)
    <3>1. PICK q \in f.quotes : SameQuote(q, n)
      BY <2>4
    <3> QED
      BY <1>2, <2>2, <3>1 DEF SameQuote
  <2>5. CASE id \in Bare(f) /\ \A q \in f.quotes : ~SameQuote(q, n)
    <3>1. d = [f EXCEPT !.quotes = f.quotes \cup
                 {FromNode(m, None) : m \in {m \in UNION {Closest(f, j) : j \in Bare(f)} :
                    \A q \in f.quotes : ~SameQuote(q, m)}}]
      BY <2>1 DEF Inherited
    <3>2. n \in {m \in UNION {Closest(f, j) : j \in Bare(f)} :
                    \A q \in f.quotes : ~SameQuote(q, m)}
      BY <2>1, <2>5
    <3>3. FromNode(n, None) \in d.quotes
      BY <1>1, <3>1, <3>2
    <3>4. FromNode(n, None).source = id /\ SameQuote(FromNode(n, None), n)
      BY <2>2 DEF FromNode, SameQuote
    <3> QED
      BY <3>3, <3>4
  <2> QED
    BY <2>3, <2>4, <2>5
<1> QED
  BY <1>3, <1>4, OfferedIs DEF Used

-----------------------------------------------------------------------------
\* Another verification takes nothing back from a claim with quotes of the
\* panel only, as the panel's text is the same.
LEMMA VerifiedIsUsed ==
  ASSUME TypeOK, StampsAreTrue, NEW c \in claims, NEW got, Used(c)
  PROVE  Used(Verified(c, got))
<1> DEFINE d == Verified(c, got)
           new(q) == Stamped(q, TextOf(q.source, got))
<1>1. /\ c \in Claim /\ d \in Claim
      /\ d.quotes = {new(q) : q \in c.quotes}
      /\ d.sources = c.sources /\ d.refs = c.refs /\ d.topic = c.topic
  BY VerifiedClaim DEF TypeOK
<1> SUFFICES ASSUME \A q \in d.quotes : q.source \in Panel
             PROVE  /\ HasVerified(d) \/ \A n \in d.refs : graph[n].verified => Offered(d, n)
                    /\ d.refs = {} => \A id \in d.sources : \A n \in Closest(d, id) :
                         \E q \in d.quotes : q.source = id /\ (q.status = "verified" \/ SameQuote(q, n))
  BY OfferedIs DEF Used
<1>2. ASSUME NEW q \in c.quotes
      PROVE  /\ new(q) \in d.quotes /\ new(q).source = q.source /\ new(q).node = q.node
             /\ q.source \in Panel
             /\ new(q).status \in {"verified", "absent"}
             /\ new(q).status = "absent" => new(q).text = q.text
             /\ q.status = "verified" => new(q).status = "verified"
  <2>1. q \in Quote
    BY <1>1
  <2>2. TextOf(q.source, got) \in SUBSET Passage
    BY <2>1, TextIsTrue
  <2>3. new(q) \in d.quotes /\ new(q).source = q.source
    BY <1>1, <2>1, <2>2, StampedQuote
  <2>4. q.source \in Panel
    BY <2>3
  <2>5. q.status = "verified" => q.text \in TextOf(q.source, got)
    BY <2>4 DEF StampsAreTrue, Truth, TextOf
  <2> QED
    BY <2>1, <2>2, <2>3, <2>4, <2>5, StampedQuote
<1> HIDE DEF new, d
<1>3. /\ HasVerified(c) \/ \A n \in c.refs : graph[n].verified => Offered(c, n)
      /\ c.refs = {} => \A id \in c.sources : \A n \in Closest(c, id) :
           \E q \in c.quotes : q.source = id /\ (q.status = "verified" \/ SameQuote(q, n))
  BY <1>2, OfferedIs DEF Used
<1>4. ASSUME ~HasVerified(d), NEW n \in d.refs, graph[n].verified
      PROVE  Offered(d, n)
  <2>1. ~HasVerified(c)
    BY <1>2, <1>4 DEF HasVerified
  <2>2. PICK q \in c.quotes : q.node = n \/ Copied(q, n)
    BY <1>1, <1>3, <1>4, <2>1 DEF Offered
  <2>3. new(q).status = "absent"
    BY <1>2, <1>4 DEF HasVerified
  <2> QED
    BY <1>2, <2>2, <2>3 DEF Copied, Offered
<1>5. ASSUME d.refs = {}, NEW id \in d.sources, NEW n \in Closest(d, id)
      PROVE  \E q \in d.quotes : q.source = id /\ (q.status = "verified" \/ SameQuote(q, n))
  <2>1. n \in Closest(c, id) /\ id \in c.sources /\ c.refs = {}
    BY <1>1, <1>5 DEF Closest, Candidates
  <2>2. PICK q \in c.quotes : q.source = id /\ (q.status = "verified" \/ SameQuote(q, n))
    BY <1>3, <2>1
  <2>3. CASE new(q).status = "verified"
    BY <1>2, <2>2, <2>3
  <2>4. CASE new(q).status = "absent"
    BY <1>2, <2>2, <2>4 DEF SameQuote
  <2> QED
    BY <1>2, <2>3, <2>4
<1> QED
  BY <1>4, <1>5
-----------------------------------------------------------------------------
USE DEF At, Goto, given

\* A stamp that is true is given to a source that has text, so that its id is
\* a normalised one.
LEMMA TrueSourceIsHome ==
  ASSUME NEW q \in Quote, q.text \in Truth(q.source)
  PROVE  Home[q.source] = q.source
<1>1. CASE q.source \in Panel
  BY <1>1, SourcesAssumption
<1>2. CASE q.source \notin Panel
  BY <1>2, TextAssumption DEF Truth, Said
<1> QED
  BY <1>1, <1>2

LEMMA InitInv == Init => IInv
<1> SUFFICES ASSUME Init PROVE IInv
  OBVIOUS
<1>1. TypeOK
  <2>1. prose \in [Panel -> SUBSET Passage]
    BY SourcesAssumption, TextAssumption DEF Init
  <2> QED
    BY <2>1, InputAssumption DEF Init, TypeOK, Step
<1>2. StampsAreTrue
  BY InputAssumption, TextAssumption DEF Init, StampsAreTrue, Checked
<1>3. SourcesAreKnown /\ NodesAreUsed /\ VotesAreCounted
  BY DEF Init, SourcesAreKnown, NodesAreUsed, VotesAreCounted, Checked
<1> QED
  BY <1>1, <1>2, <1>3 DEF IInv

LEMMA PrepareInv == IInv /\ Prepare => IInv'
<1> SUFFICES ASSUME IInv, Prepare PROVE IInv'
  OBVIOUS
<1>1. ASSUME NEW c \in claims
      PROVE  /\ c \in Claim
             /\ Normalised(c) \in Claim
             /\ Prepared(c) \in Claim
             /\ Prepared(c).quotes \subseteq Normalised(c).quotes
  BY NormalisedClaim, StrippedClaim, LevelledClaim DEF IInv, TypeOK, Prepared
<1>2. TypeOK'
  <2>1. claims' \subseteq Claim
    BY <1>1 DEF Prepare
  <2> QED
    BY <2>1 DEF IInv, TypeOK, Prepare, Step
<1>3. StampsAreTrue'
  <2> SUFFICES ASSUME NEW c \in claims, NEW q \in Prepared(c).quotes, q.status = "verified"
               PROVE  q.text \in Truth(q.source)
    BY DEF Prepare, StampsAreTrue, Checked, Truth
  <2>1. PICK p \in c.quotes : q = [p EXCEPT !.source = Home[p.source]]
    BY <1>1, NormalisedClaim
  <2>2. p \in Quote
    BY <1>1
  <2>3. p.status = "verified" /\ p.text \in Truth(p.source)
    BY <2>1, <2>2 DEF IInv, StampsAreTrue
  <2>4. Home[p.source] = p.source
    BY <2>2, <2>3, TrueSourceIsHome
  <2> QED
    BY <2>1, <2>2, <2>3, <2>4
<1>4. SourcesAreKnown'
  <2> SUFFICES ASSUME profile = "lit", NEW c \in claims
               PROVE  /\ \A id \in Prepared(c).sources : Valid(id) /\ Home[id] = id
                      /\ \A q \in Prepared(c).quotes : Valid(q.source)
    BY DEF Prepare, SourcesAreKnown, Valid
  <2>1. Prepared(c) = Stripped(Normalised(c))
    BY DEF Prepared
  <2>2. ASSUME NEW id \in Prepared(c).sources PROVE Valid(id) /\ Home[id] = id
    <3>1. Valid(id) /\ id \in Normalised(c).sources
      BY <1>1, <2>1, StrippedClaim
    <3>2. PICK k \in c.sources : id = Home[k]
      BY <1>1, <3>1, NormalisedClaim
    <3> QED
      BY <1>1, <3>1, <3>2, HomeIsHome
  <2>3. \A q \in Prepared(c).quotes : Valid(q.source)
    BY <1>1, <2>1, StrippedClaim
  <2> QED
    BY <2>2, <2>3
<1>5. NodesAreUsed'
  BY DEF Prepare, NodesAreUsed, Checked
<1>6. VotesAreCounted'
  <2> SUFFICES ASSUME profile = "v1", NEW c \in claims, Experts(Prepared(c)) # {}
               PROVE  Prepared(c).level =
                        LevelFor(Cardinality(Experts(Prepared(c))), Cardinality(Panel))
    BY DEF Prepare, VotesAreCounted
  <2>1. Prepared(c) = Levelled(Normalised(c))
    BY DEF Prepared
  <2>2. Experts(Prepared(c)) = Experts(Normalised(c))
    BY <1>1, <2>1, LevelledClaim DEF Experts
  <2> QED
    BY <1>1, <2>1, <2>2, LevelledClaim
<1> QED
  BY <1>2, <1>3, <1>4, <1>5, <1>6 DEF IInv

\* What a verification leaves true, whatever step follows.
LEMMA VerifyQuotesInv ==
  ASSUME IInv, VerifyQuotes, UNCHANGED <<given, full, reports, round>>,
         pc # "prepare", pc' \in Step \ {"prepare", "done"},
         pc = "reverify" \/ ~(pc' = "reverify" \/ Checked') \/ profile = "v1"
  PROVE  IInv'
<1>1. PICK got \in Answers : claims' = {Verified(c, got) : c \in claims}
  BY DEF VerifyQuotes
<1>2. ASSUME NEW c \in claims
      PROVE  /\ c \in Claim
             /\ Verified(c, got) \in Claim
             /\ Verified(c, got).quotes = {Stamped(q, TextOf(q.source, got)) : q \in c.quotes}
             /\ Verified(c, got).sources = c.sources
             /\ Verified(c, got).level = c.level
  BY VerifiedClaim DEF IInv, TypeOK
<1>3. TypeOK'
  <2>1. claims' \subseteq Claim
    BY <1>1, <1>2
  <2> QED
    BY <2>1 DEF IInv, TypeOK
<1>4. ASSUME NEW c \in claims, NEW q \in Verified(c, got).quotes
      PROVE  /\ q.status # None
             /\ q.status = "verified" => q.text \in Truth(q.source)
             /\ \E p \in c.quotes : q.source = p.source
  <2>1. PICK p \in c.quotes : q = Stamped(p, TextOf(p.source, got))
    BY <1>2
  <2>2. p \in Quote
    BY <1>2
  <2>3. TextOf(p.source, got) \in SUBSET Passage /\ TextOf(p.source, got) \subseteq Truth(p.source)
    BY <2>2, TextIsTrue DEF IInv
  <2>4. /\ q.source = p.source
        /\ q.status \in {"verified", "absent"}
        /\ q.status = "verified" => q.text \in TextOf(p.source, got)
    BY <2>1, <2>2, <2>3, StampedQuote
  <2> QED
    BY <2>3, <2>4, TextAssumption
<1>5. StampsAreTrue'
  BY <1>1, <1>4 DEF StampsAreTrue, Truth
<1>6. SourcesAreKnown'
  <2> SUFFICES ASSUME profile = "lit", NEW c \in claims
               PROVE  /\ \A id \in Verified(c, got).sources : Valid(id) /\ Home[id] = id
                      /\ \A q \in Verified(c, got).quotes :
                           Valid(q.source) \/ \E n \in Node : graph[n].paper = q.source
    BY <1>1 DEF SourcesAreKnown, Valid
  <2>1. /\ \A id \in c.sources : Valid(id) /\ Home[id] = id
        /\ \A q \in c.quotes : Valid(q.source) \/ \E n \in Node : graph[n].paper = q.source
    BY DEF IInv, SourcesAreKnown
  <2> QED
    BY <1>2, <1>4, <2>1
<1>7. NodesAreUsed'
  <2> SUFFICES ASSUME profile = "lit", pc = "reverify", NEW c \in claims
               PROVE  Used(Verified(c, got))
    BY <1>1 DEF NodesAreUsed, Used, HasVerified, SameQuote, Copied, Miscopied, Closest, Candidates, IInv, TypeOK
  <2> QED
    BY VerifiedIsUsed DEF IInv, NodesAreUsed
<1>8. VotesAreCounted'
  <2> SUFFICES ASSUME profile = "v1", NEW c \in claims, Experts(Verified(c, got)) # {}
               PROVE  Verified(c, got).level =
                        LevelFor(Cardinality(Experts(Verified(c, got))), Cardinality(Panel))
    BY <1>1 DEF VotesAreCounted, Experts, LevelFor
  <2> QED
    BY <1>2 DEF IInv, VotesAreCounted, Experts
<1> QED
  BY <1>3, <1>5, <1>6, <1>7, <1>8 DEF IInv

LEMMA VerifyInv == IInv /\ Verify => IInv'
<1> SUFFICES ASSUME IInv, Verify PROVE IInv'
  OBVIOUS
<1>1. pc' \in Step \ {"prepare", "done"} /\ pc # "prepare"
  BY DEF Verify, AfterChecks, Step
<1>2. profile \in {"v1", "lit"}
  BY TextAssumption DEF IInv, TypeOK
<1>3. ~(pc' = "reverify" \/ Checked') \/ profile = "v1"
  BY <1>2 DEF Verify, Checked
<1> QED
  BY <1>1, <1>3, VerifyQuotesInv DEF Verify

LEMMA ReverifyInv == IInv /\ Reverify => IInv'
<1> SUFFICES ASSUME IInv, Reverify PROVE IInv'
  OBVIOUS
<1>1. pc' \in Step \ {"prepare", "done"} /\ pc = "reverify"
  BY DEF Reverify, AfterChecks, Step
<1> QED
  BY <1>1, VerifyQuotesInv DEF Reverify
LEMMA AttachInv == IInv /\ Attach => IInv'
<1> DEFINE new(c) == Inherited(Floored(c))
<1> SUFFICES ASSUME IInv, Attach PROVE IInv'
  OBVIOUS
<1>1. TypeOK /\ pc = "attach" /\ claims' = {new(c) : c \in claims}
  BY DEF IInv, Attach
<1>2. ASSUME NEW c \in claims
      PROVE  /\ c \in Claim /\ new(c) \in Claim
             /\ new(c).sources = c.sources /\ new(c).level = c.level
             /\ \A q \in new(c).quotes : q \in c.quotes \/
                  \E n \in Node : q.status = None /\ q.source = graph[n].paper
  <2>1. c \in Claim
    BY <1>1 DEF TypeOK
  <2>2. /\ Floored(c) \in Claim
        /\ Floored(c).sources = c.sources /\ Floored(c).level = c.level
        /\ \A q \in Floored(c).quotes : q \notin c.quotes => \E n \in c.refs : q = FromNode(n, n)
    BY <1>1, <2>1, FlooredClaim
  <2>3. /\ new(c) \in Claim
        /\ new(c).sources = c.sources /\ new(c).level = c.level
        /\ \A q \in new(c).quotes : q \notin Floored(c).quotes => \E n \in Node : q = FromNode(n, None)
    BY <1>1, <2>2, InheritedClaim
  <2>4. ASSUME NEW q \in new(c).quotes, q \notin c.quotes
        PROVE  \E n \in Node : q.status = None /\ q.source = graph[n].paper
    <3>1. CASE q \in Floored(c).quotes
      <4>1. PICK n \in c.refs : q = FromNode(n, n)
        BY <2>2, <2>4, <3>1
      <4>2. n \in Node
        BY <2>1
      <4> QED
        BY <1>1, <4>1, <4>2, NodeQuote
    <3>2. CASE q \notin Floored(c).quotes
      BY <1>1, <2>3, <3>2, NodeQuote
    <3> QED
      BY <3>1, <3>2
  <2> QED
    BY <2>1, <2>3, <2>4
<1>3. pc' \in {"reverify", "coverage", "minority"} /\ (pc' = "reverify" \/ claims' = claims)
  BY DEF Attach, AfterChecks
<1>4. TypeOK'
  <2>1. claims' \subseteq Claim
    BY <1>1, <1>2
  <2> QED
    BY <1>1, <1>3, <2>1 DEF TypeOK, Attach, Step
<1>5. StampsAreTrue'
  <2>1. CASE claims' = claims
    BY <1>1, <2>1 DEF IInv, StampsAreTrue, Truth, Attach
  <2>2. CASE pc' = "reverify"
    <3> SUFFICES ASSUME NEW c \in claims, NEW q \in new(c).quotes, q.status = "verified"
                 PROVE  q.text \in Truth(q.source)
      BY <1>1, <2>2 DEF StampsAreTrue, Checked, Truth, Attach
    <3>1. q \in c.quotes
      BY <1>2, TextAssumption
    <3> QED
      BY <3>1 DEF IInv, StampsAreTrue
  <2> QED
    BY <1>3, <2>1, <2>2
<1>6. SourcesAreKnown'
  <2> SUFFICES ASSUME profile = "lit", NEW c \in claims
               PROVE  /\ \A id \in new(c).sources : Valid(id) /\ Home[id] = id
                      /\ \A q \in new(c).quotes :
                           Valid(q.source) \/ \E n \in Node : graph[n].paper = q.source
    BY <1>1 DEF SourcesAreKnown, Valid, Attach
  <2>1. /\ \A id \in c.sources : Valid(id) /\ Home[id] = id
        /\ \A q \in c.quotes : Valid(q.source) \/ \E n \in Node : graph[n].paper = q.source
    BY <1>1 DEF IInv, SourcesAreKnown
  <2> QED
    BY <1>2, <2>1
<1>7. NodesAreUsed'
  <2> SUFFICES ASSUME NEW c \in claims PROVE Used(new(c))
    BY <1>1 DEF NodesAreUsed, Used, HasVerified, SameQuote, Copied, Miscopied, Closest, Candidates, Attach
  <2> QED
    BY <1>1, <1>2, AttachedIsUsed
<1>8. VotesAreCounted'
  <2> SUFFICES ASSUME profile = "v1", NEW c \in claims, Experts(new(c)) # {}
               PROVE  new(c).level =
                        LevelFor(Cardinality(Experts(new(c))), Cardinality(Panel))
    BY <1>1, <1>3 DEF VotesAreCounted, Experts, LevelFor, Attach
  <2> QED
    BY <1>1, <1>2 DEF IInv, VotesAreCounted, Experts
<1> QED
  BY <1>4, <1>5, <1>6, <1>7, <1>8 DEF IInv

\* The remaining steps leave the claims and the graph alone, or start anew.
LEMMA SameClaims ==
  ASSUME IInv, UNCHANGED <<profile, graph, prose, claims>>,
         full' \subseteq Shaped, reports' \subseteq Panel, round' \in {1, 2},
         pc' \in Step, pc' = pc \/ (Checked /\ pc' # "reverify"),
         (Checked' => Checked), (pc = "prepare" => pc' = "prepare"),
         pc' = "done" => pc = "done" /\ reports \subseteq reports'
  PROVE  IInv'
<1>1. TypeOK'
  BY DEF IInv, TypeOK
<1>2. StampsAreTrue'
  BY DEF IInv, StampsAreTrue, Truth, Checked
<1>3. SourcesAreKnown'
  BY DEF IInv, SourcesAreKnown, Valid
<1>4. NodesAreUsed'
  BY DEF IInv, NodesAreUsed, Used, HasVerified, SameQuote, Copied, Miscopied, Closest, Candidates, Checked
<1>5. VotesAreCounted'
  BY DEF IInv, VotesAreCounted, Experts, LevelFor
<1> QED
  BY <1>1, <1>2, <1>3, <1>4, <1>5 DEF IInv

LEMMA ReviseInv == IInv /\ Revise => IInv'
<1> SUFFICES ASSUME IInv, Revise PROVE IInv'
  OBVIOUS
<1>1. CASE UNCHANGED <<claims, reports>>
  BY <1>1, SameClaims DEF Revise, IInv, TypeOK, Checked, Step
<1>2. CASE claims' \in Draft /\ reports' \in Reports
  <2>1. TypeOK'
    BY <1>2, InputAssumption DEF IInv, TypeOK, Revise, Step
  <2>2. StampsAreTrue'
    BY <1>2, InputAssumption, TextAssumption DEF StampsAreTrue, Checked, Revise
  <2>3. SourcesAreKnown' /\ NodesAreUsed' /\ VotesAreCounted'
    BY DEF SourcesAreKnown, NodesAreUsed, VotesAreCounted, Checked, Revise
  <2> QED
    BY <2>1, <2>2, <2>3 DEF IInv
<1> QED
  BY <1>1, <1>2 DEF Revise

LEMMA MinorityInv == IInv /\ Minority => IInv'
<1> SUFFICES ASSUME IInv, Minority PROVE IInv'
  OBVIOUS
<1>1. Overlooked \subseteq Panel
  BY DEF Overlooked
<1>2. TypeOK'
  BY <1>1 DEF IInv, TypeOK, Minority, Step
<1>3. StampsAreTrue' /\ SourcesAreKnown'
  BY DEF IInv, StampsAreTrue, Truth, Checked, SourcesAreKnown, Valid, Minority
<1>4. NodesAreUsed'
  BY DEF IInv, NodesAreUsed, Used, HasVerified, SameQuote, Copied, Miscopied, Closest, Candidates, Checked, Minority
<1>5. VotesAreCounted'
  <2> SUFFICES ASSUME profile = "v1"
               PROVE  VotesAreCounted'
    BY DEF VotesAreCounted, Minority
  <2>1. ASSUME NEW c \in claims, Experts(c) # {}
        PROVE  c.level = LevelFor(Cardinality(Experts(c)), Cardinality(Panel))
    BY <2>1 DEF IInv, VotesAreCounted, Minority
  <2>2. ASSUME NEW id \in Panel, NEW c \in claims, id \in c.sources, id \notin reports'
        PROVE  \E d \in claims : id \in d.sources /\ d.level # "minority"
    <3>1. id \notin Overlooked
      BY <2>2 DEF Minority
    <3>2. c.level \in Level
      BY DEF IInv, TypeOK
    <3>3. CASE c.level # "minority"
      BY <2>2, <3>3
    <3>4. CASE c.level = "minority"
      <4>1. id \in CitedBy({"minority"})
        BY <2>2, <3>4 DEF CitedBy
      <4>2. id \in CitedBy(Level \ {"minority"})
        BY <3>1, <4>1 DEF Overlooked
      <4> QED
        BY <4>2 DEF CitedBy
    <3> QED
      BY <3>3, <3>4
  <2> QED
    BY <2>1, <2>2 DEF VotesAreCounted, Experts, LevelFor, Minority
<1> QED
  BY <1>2, <1>3, <1>4, <1>5 DEF IInv

LEMMA NextInv == IInv /\ [Next]_vars => IInv'
<1> SUFFICES ASSUME IInv, [Next]_vars PROVE IInv'
  OBVIOUS
<1>1. CASE RevisionFails \/ Covered
  BY <1>1, SameClaims DEF RevisionFails, Covered, IInv, TypeOK, Checked, Step
<1>2. ASSUME NEW id \in Shaped, Promote(id) PROVE IInv'
  BY <1>2, SameClaims DEF Promote, IInv, TypeOK, Checked, Step
<1>3. CASE UNCHANGED vars
  BY <1>3, SameClaims DEF vars, IInv, TypeOK, Checked
<1> QED
  BY <1>1, <1>2, <1>3, PrepareInv, VerifyInv, AttachInv, ReverifyInv, ReviseInv, MinorityInv
  DEF Next, Returned

-----------------------------------------------------------------------------
\* The checks of the chain of post_process_synthesis_with_graph hold for every
\* panel, store, graph and answer of a model.
THEOREM Invariance == Spec => []IInv
<1> QED
  BY InitInv, NextInv, PTL DEF Spec

\* Types.
THEOREM TypeCorrect == Spec => []TypeOK
BY Invariance, PTL DEF IInv

\* Stamps are earned, and nothing leaves the checks without one.
THEOREM StampsAreEarned == Spec => []StampsAreTrue
BY Invariance, PTL DEF IInv

\* What claims rest on is known.
THEOREM NoInventedSources == Spec => []SourcesAreKnown
BY Invariance, PTL DEF IInv

\* What the graph knows is offered: a claim that is left without a verified quote has
\* tried those of all verified nodes it refers to, or of the closest ones, save a node
\* under whose tag the model wrote another quote (attach_node_ref_quotes skips it,
\* against its comment).
THEOREM GraphQuotesAreUsed == Spec => []NodesAreUsed
BY Invariance, PTL DEF IInv

\* Levels and minority reports follow from the sources alone.
THEOREM LevelsFollowVotes == Spec => []VotesAreCounted
BY Invariance, PTL DEF IInv
=============================================================================
