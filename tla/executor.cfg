\* Two tasks share an executor with spdk_poller, or with one that polls twice.
CONSTANTS
    o1 = o1
    o2 = o2
    o3 = o3
    t1 = t1
    t2 = t2
    Poller = Poller
    None = None
    Ops <- ThreeOps
    Tasks <- TwoTasks
    MaxIters <- Iters
    Results <- OkOnly
SPECIFICATION FairSpec
CONSTRAINT InOrder
CHECK_DEADLOCK FALSE
INVARIANT NoLostWakeup
PROPERTY AwaitsReturn
PROPERTY PollerEnds
