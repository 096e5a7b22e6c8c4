CONSTANTS
  Runs = {r1}
  Resumes = {d1}
  None = None
  MaxIterations = 2
  MaxToolCalls = 3
  MaxTurnCalls = 2
  MaxRestarts = 0
SPECIFICATION Spec
INVARIANT HistoryIsAnswered
CHECK_DEADLOCK FALSE
