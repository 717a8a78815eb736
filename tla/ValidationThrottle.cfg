SPECIFICATION Spec
CONSTANTS
  c1 = c1  c2 = c2  p1 = p1  me = me
  i1 = i1  i2 = i2  t1 = t1  t2 = t2  v1 = v1  v2 = v2  v3 = v3  w1 = w1  w2 = w2
  Peers = {p1}
  Self = me
  NoVal = NoVal
  NoReq = NoReq
  Idle = Idle
  Gone = Gone
  Copies = {c1, c2}
  Ids = {i1, i2}
  Author <- AuthorOf
  Topics = {t1, t2}
  Messages <- TwoTopicsOrBad
  Vals = {v1, v2, v3}
  ValTopic <- ThreeOf
  ValInline <- ThirdInline
  ValThrottle <- OneSlot
  Workers = {w1}
  GlobalThrottle = 2
  QueueLen = 1
  Strict = TRUE
  Signing = TRUE
  MaxExpire = 0
SYMMETRY CopySymmetry
INVARIANTS FullyValidated ValThrottleRespected
CHECK_DEADLOCK FALSE
