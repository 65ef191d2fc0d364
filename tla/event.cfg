\* Two reactors and three events; everything callers can do.
CONSTANTS
    k1 = k1
    k2 = k2
    o1 = o1
    o2 = o2
    o3 = o3
    None = None
    Start = Start
    Main = k1
    Cores <- TwoCores
    Ops <- ThreeOps
    Results <- OkResult
    Batch = 2
    PoolSize = 2
SPECIFICATION FairSpec
CHECK_DEADLOCK FALSE
INVARIANT BoxReclaimedOnce
INVARIANT StartsInOrder
INVARIANT ReplyMeansRan
PROPERTY RunReturns
PROPERTY CalledRuns
