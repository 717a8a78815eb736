SPECIFICATION FairSpec
CONSTANTS
  c1 = c1  c2 = c2  p1 = p1  me = me
  i1 = i1  i2 = i2  t1 = t1  t2 = t2  v1 = v1  v2 = v2  v3 = v3  w1 = w1  w2 = w2
  Peers = {p1}
  Self = me
  NoVal = NoVal
  NoReq = NoReq
  Idle = Idle
  Gone = Gone
  Copies = {c1, c2}
  Ids = {i1}
  Author <- AuthorOfOne
  Topics = {t1}
  Messages <- TwoForms
  Vals = {v1}
  ValTopic <- OneTopic
  ValInline <- NoneInline
  ValThrottle <- OneSlot
  Workers = {w1, w2}
  GlobalThrottle = 1
  QueueLen = 1
  Strict = FALSE
  Signing = FALSE
  MaxExpire = 1
INVARIANTS OncePerWindow
PROPERTIES Decided SlotsReturned WorkersStop
CHECK_DEADLOCK FALSE
