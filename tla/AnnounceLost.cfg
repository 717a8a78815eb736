SPECIFICATION FairSpec
CONSTANTS
  Writers = {w1, w2}
  None = None
  MaxConn = 1
  MaxNotified = 1
  MaxQueue = 1
  MaxFlight = 1
  MaxRetry = 1
PROPERTIES CancellationKnown
