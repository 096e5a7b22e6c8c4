CONSTANTS
  Messages = {m1, m2}
  None = None
  maxAttempts = 2
  MaxChunks = 1
  MaxStops = 1
  MaxDrops = 1
SPECIFICATION FairSpec
CHECK_DEADLOCK FALSE
INVARIANTS
  AnsweredOnce
  ClientSettles
PROPERTIES
  StopIsHeeded
  EveryStreamEnds
