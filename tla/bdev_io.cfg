\* Futures may be dropped at any time: what the callers are promised.
CONSTANTS
    d1 = d1
    d2 = d2
    c1 = c1
    b1 = b1
    b2 = b2
    o1 = o1
    o2 = o2
    None = None
    Descs <- OneDesc
    Chans <- OneChan
    Bufs <- TwoBufs
    Ops <- TwoOps
    Errnos <- EInval
    Results <- IoResults
SPECIFICATION FairSpec
CHECK_DEADLOCK FALSE
INVARIANT TypeOK
INVARIANT FromRawOnce
INVARIANT AwaitedIoCovered
PROPERTY ImplementsAsyncOp
PROPERTY EveryIoAnswered
