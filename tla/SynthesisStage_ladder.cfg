SPECIFICATION Spec
CONSTANTS
  t1 = t1  t2 = t2  t3 = t3  p1 = p1  x1 = x1  label = label  qa = qa  qb = qb
  None = None
  Topic = {t1, t2, t3}
  Source = {p1, x1, label}
  Passage = {qa, qb}
  Garbled <- MCGarbled
  Panel = {p1}
  Papers = {x1}
  Answers <- MCAnswers
  GapAnswers <- MCGapAnswers
  Drafts = 2
  Rounds = 2
  QuoteCap = 1
  Graphs <- MCGraphs
  Profiles = {"v1", "lit"}
  Copies = FALSE
  Faults <- AllFaults
INVARIANTS ReadsWhatWasWritten EvidenceIsComplete VetoIsHeard
PROPERTIES ClaimsOutliveFallbacks
