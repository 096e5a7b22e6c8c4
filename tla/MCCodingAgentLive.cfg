CONSTANTS
  Runs = {r1}
  Resumes = {d1, d2}
  None = None
  MaxIterations = 2
  MaxToolCalls = 2
  MaxTurnCalls = 1
  MaxRestarts = 0
SPECIFICATION FairSpec
PROPERTIES
  EveryCallReturns
  ImplementsPromise
CHECK_DEADLOCK FALSE
