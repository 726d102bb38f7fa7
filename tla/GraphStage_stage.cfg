SPECIFICATION FairSpec
CONSTANTS
  e1 = e1  e2 = e2  x1 = x1  a = a  b = b  A = A
  n = n  e1_n = e1_n  e2_n = e2_n  h0 = h0  h1 = h1  h2 = h2
  None = None
  Expert = {e1, e2}
  Paper = {e1, e2, x1}
  Permits = 1
  Passage <- MCPassage
  SameLetters <- MCLetters
  Prose <- MCProse
  Stored <- MCStored
  Id <- MCId
  Scope <- MCScope
  HeuristicId <- MCHeuristicId
  NewId = e1_n
  Answers <- MCAnswers
  Related <- MCRelated
  Guesses <- MCGuesses
  Rounds = 2
  Cap = 2
  Profiles = {"v1", "lit"}
  Faults <- AllFaults
INVARIANTS NothingHeardIsLost IdsNameOneNode StatusIsEarned PanelSurvives
PROPERTIES StageEnds
