\* Two I/Os on two queue pairs of depths one and two; futures may be dropped.
CONSTANTS
    o1 = o1
    o2 = o2
    q1 = q1
    q2 = q2
    b1 = b1
    b2 = b2
    None = None
    Ops <- TwoOps
    Qpairs <- TwoQpairs
    Bufs <- TwoBufs
    Depth <- Depths
    Errnos <- SomeErrnos
    Statuses <- SomeStatuses
    Results <- SomeResults
SPECIFICATION FairSpec
CHECK_DEADLOCK FALSE
INVARIANT FromRawOnce
INVARIANT DropsSettleIo
INVARIANT AwaitedIoCovered
PROPERTY ImplementsAsyncOp
PROPERTY EveryIoAnswered
