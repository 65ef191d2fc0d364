\* Four connects on two OS threads, nested as their polls allow.
CONSTANTS
    p1 = p1
    p2 = p2
    c1 = c1
    c2 = c2
    c3 = c3
    c4 = c4
    Nil = Nil
    Procs <- TwoProcs
    Calls <- FourCalls
SPECIFICATION ConnectSpec
CHECK_DEADLOCK FALSE
INVARIANT ResultIsOwn
INVARIANT RefsMatch
