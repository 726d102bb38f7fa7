SPECIFICATION FairSpec
CONSTANTS
  N = 2
  S = 2
  J = 2
  MaxEvals = 0
  Limits = {0, 3, 4, 5, 6, 8, 9, 10}
  MaxScore = 1
  ResolveAnyway = FALSE
  Plateau = TRUE
  Faults <- EveryFault
  None = None
INVARIANTS CallsBounded TruncationReported WinnerIsBest BudgetSuffices
PROPERTIES StageReturns
