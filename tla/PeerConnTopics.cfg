SPECIFICATION FairSpec
CONSTANTS
  Writers = {w1, w2}
  None = None
  MaxConn = 1
  MaxNotified = 1
  MaxIncoming = 1
  MayUnsupport = FALSE
  Lru = FALSE
  Foreign = FALSE
PROPERTIES TopicsOfPeers
