CONSTANTS
  Inv = {p1, p2, p3}
  Run = {r1, r2}
  None = None
  Faults <- NoLossOfCheckpoints
SPECIFICATION FairSpec
INVARIANTS OutputsCoherent OutputsPaired
PROPERTIES HintWorks ResumeCompletes
