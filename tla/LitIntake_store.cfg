SPECIFICATION FairSpec
CONSTANTS
  Paper = {p1}
  Worker = {w1, w2}
  K = 2
  Budget = 2
  FaultSets <- Environments
  None = None
INVARIANTS IndexedIsWhole RowsAreRetrievable BlankIsBeingFilled
PROPERTIES FlightsEnd
