\* Callers follow the discipline; closures may poll: safety.
CONSTANTS
    t1 = t1
    t2 = t2
    o1 = o1
    o2 = o2
    o3 = o3
    None = None
    Threads <- TwoThreads
    Ops <- ThreeOps
    Results <- OkResult
    PoolSize = 3
    Cached = 1
    Batch = 2
    HandleScope = "owned"
    ClosuresPoll = "any"
    CarryReceivers = FALSE
SYMMETRY Symmetry
SPECIFICATION Spec
INVARIANT TypeOK
INVARIANT OnePlace
INVARIANT DrainedOnDrop
INVARIANT ReplyMeansRan
INVARIANT NoWaitCycle
PROPERTY ReclaimedOnce
PROPERTY InOrderUnlessNested
