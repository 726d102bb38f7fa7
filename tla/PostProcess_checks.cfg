\* Three graphs, eight syntheses a model may write, both kinds of profiles, every
\* fault; the store is asked for one outside document at most.
CONSTANTS
  p1 = p1  p2 = p2  x1 = x1  x2 = x2  p1_c1 = p1_c1  made_up = made_up  sys = sys
  a = a  b = b  near_a = near_a  t1 = t1  t2 = t2  None = None
  Id <- MCId
  Shaped = {p1, x1, x2, p1_c1}
  System = {sys}
  Others = {p3, p4, p5, p6, p7}
  Panel = {p1, p2, p3, p4, p5, p6, p7}
  Home <- MCHome
  Passage = {a, b, near_a}
  Near <- MCNear
  Abstract <- MCAbstract
  Full <- MCFull
  M = 2
  Topic = {t1, t2}
  Like <- MCLike
  Draft <- MCDraft
  Reports = {{}, {p1}}
  Graphs <- MCGraphs
  RefreshCap = 1
  Profiles = {"v1", "lit"}
  Faults = {"resolver", "revision", "promotion"}

SPECIFICATION Spec

INVARIANTS
  StampsAreTrue
  SourcesAreKnown
  NodesAreUsed
  VotesAreCounted
