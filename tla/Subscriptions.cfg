SPECIFICATION FairSpec
CONSTANTS
  t1 = t1  t2 = t2  s1 = s1  s2 = s2
  None = None
  Topics = {t1, t2}
  Subs = {s1, s2}
  TopicOf <- Two
  Callers = {n1, n2}
  Lists <- OneTwoTwice
  Capacity = 1
  MaxCancel <- TwiceS1
INVARIANTS PanicsOnlyOnMisuse Joined InOrder
PROPERTIES Refines CallsReturn Served
CHECK_DEADLOCK FALSE
