\* A future is dropped while its I/O is in flight: expected to violate.
CONSTANTS
    d1 = d1
    d2 = d2
    c1 = c1
    b1 = b1
    b2 = b2
    o1 = o1
    o2 = o2
    None = None
    Descs <- OneDesc
    Chans <- OneChan
    Bufs <- TwoBufs
    Ops <- TwoOps
    Errnos <- EInval
    Results <- IoResults
SPECIFICATION Spec
CHECK_DEADLOCK FALSE
INVARIANT NotSharedDuringIo
