CONSTANTS
  Runs = {r1}
  Resumes = {d1, d2}
  None = None
  MaxIterations = 2
  MaxToolCalls = 2
  MaxTurnCalls = 2
  MaxRestarts = 1
SPECIFICATION Spec
SYMMETRY CallSymmetry
CHECK_DEADLOCK FALSE
INVARIANTS
  Limits
  EffectNeedsItsApproval
  ResolvedOnceInAProcess
  StoreCatchesUp
PROPERTIES
