CONSTANTS
    a = a
    b = b
    c = c
    d = d
    m1 = m1
    m2 = m2
    t1 = t1
    t2 = t2
    Nodes = {a, b, c, d}
    Msgs = {m1, m2}
    Topics = {t1, t2}
    Links <- Diamond
    Router <- Mixed
    Subs <- Interests
    MayCancel = {b}
    TopicIDs <- Lists
    Source <- Authors
    RandomSubD = 1
    Capacity = 1
    MaxExpire <- OneForgets
SPECIFICATION FairSpec
INVARIANTS SentOnce Handed
PROPERTIES Refines Reaches
CHECK_DEADLOCK FALSE
