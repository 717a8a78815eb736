SPECIFICATION Spec
CONSTANTS
  Peers = {p1, p2}
  Self = me
  Topics = {t1}
  Ids = {i1}
  TopicsOf <- AllTopics
  Author <- OwnMessages
  D = 1
  Dlo = 1
  Dhi = 1
  HistoryLength = 2
  HistoryGossip = 1
  QueueLen = 1
  Controls <- SmallControls
SYMMETRY PeerSymmetry
INVARIANTS GraftHeard PruneHeard GossipServable FanoutExpires
PROPERTIES Degree Retried
