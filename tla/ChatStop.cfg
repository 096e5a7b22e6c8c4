CONSTANTS
  Messages = {m1, m2}
  None = None
  maxAttempts = 2
  MaxChunks = 1
  MaxStops = 2
  MaxDrops = 0
SPECIFICATION Spec
CHECK_DEADLOCK FALSE
PROPERTY StopStopsStream
