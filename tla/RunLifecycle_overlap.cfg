CONSTANTS
  Inv = {p1, p2}
  Run = {r1}
  None = None
  Faults <- Everything
SPECIFICATION Spec
SYMMETRY Symmetry
INVARIANTS CleanMeansNoOwnLoss
PROPERTIES LedgerSpec
