\* One subsystem, two transports of one type; futures may be dropped.
CONSTANTS
    o1 = o1
    o2 = o2
    o3 = o3
    s1 = s1
    t1 = t1
    t2 = t2
    a1 = a1
    n1 = n1
    None = None
    Ops <- ThreeOps
    Subs <- OneSub
    Transports <- TwoTransports
    Addrs <- OneAddr
    Bdevs <- OneBdev
    Errnos <- EIo
    Results <- SomeResults
SPECIFICATION FairSpec
CONSTRAINT InOrder
CHECK_DEADLOCK FALSE
INVARIANT OkMeansDone
PROPERTY ImplementsAsyncOp
PROPERTY EveryCallAnswered
