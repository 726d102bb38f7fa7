CONSTANTS
  Inv = {p1, p2}
  Run = {r1}
  None = None
  Faults <- CrashAndLoss
SPECIFICATION Spec
INVARIANTS CleanMeansNoLoss
