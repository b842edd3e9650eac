SPECIFICATION Spec
CONSTANTS
    t1 = t1  t2 = t2  t3 = t3  p = p  q = q
    rendezvous = rendezvous  buffer = buffer
    Thread = {t1, t2, t3}
    Chan = {rendezvous, buffer}
    Svc = {p, q}
    Dest = Dest
    Cap <- Sizes
    Value = {1, 2}
    Programs <- All
    Nobody = Nobody
    MAXQUEUE = 1
    MaxRing = 3
    MaxRpc = 2
CHECK_DEADLOCK FALSE
INVARIANTS RepliesFound SleepersIdle
PROPERTIES ChannelRefines RecvServed
