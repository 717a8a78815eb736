SPECIFICATION Spec
CONSTANTS
  Peers = {p1}
  Self = me
  Topics = {t1, t2}
  Ids = {i1}
  TopicsOf <- AllTopics
  Author <- OwnMessages
  D = 1
  Dlo = 1
  Dhi = 1
  HistoryLength = 2
  HistoryGossip = 1
  QueueLen = 2
  Controls = {}
INVARIANT GraftHeard
