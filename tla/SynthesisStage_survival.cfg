SPECIFICATION FairSpec
CONSTANTS
  t1 = t1  t2 = t2  t3 = t3  p1 = p1  x1 = x1  label = label  qa = qa  qb = qb
  None = None
  Topic = {t1, t2, t3}
  Source = {p1, x1, label}
  Passage = {qa, qb}
  Garbled = {}
  Panel = {p1}
  Papers = {x1}
  Answers <- LooseAnswers
  GapAnswers <- MCGapAnswers
  Drafts = 1
  Rounds = 1
  QuoteCap = 1
  Graphs <- MCGraphs
  Profiles = {"lit"}
  Copies = TRUE
  Faults = {}
PROPERTIES FieldsSurviveRegeneration
