SPECIFICATION FairSpec
CONSTANTS
  Writers = {w1, w2}
  None = None
  MaxConn = 2
  MaxNotified = 1
  MaxIncoming = 1
  MayUnsupport = TRUE
  Lru = TRUE
  Foreign = TRUE
INVARIANTS CurrentOpen WriterServed
PROPERTIES Forgotten Settles GoroutinesEnd
