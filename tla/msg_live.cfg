\* Callers follow the discipline and the pool suffices: liveness.
CONSTANTS
    t1 = t1
    t2 = t2
    o1 = o1
    o2 = o2
    o3 = o3
    None = None
    Threads <- TwoThreads
    Ops <- TwoOps
    Results <- OkResult
    PoolSize = 2
    Cached = 0
    Batch = 2
    HandleScope = "owned"
    ClosuresPoll = "running"
    CarryReceivers = FALSE
SPECIFICATION FairSpec
PROPERTY SentClosureRuns
PROPERTY BlockOnReturns
PROPERTY DropReturns
