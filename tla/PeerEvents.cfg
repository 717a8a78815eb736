SPECIFICATION FairSpec
CONSTANTS
  p1 = p1  p2 = p2  s1 = s1  s2 = s2  n1 = n1  n2 = n2  n3 = n3
  Peers = {p1, p2}
  Subs = {s1, s2}
  Callers = {n1, n2, n3}
  SubOf <- SharedSub
INVARIANTS LogExact NoLostWakeup
PROPERTIES Refines Served
