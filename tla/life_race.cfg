\* Two unsynchronised lifetimes: the library goes down under a thread.
CONSTANTS
    p1 = p1
    p2 = p2
    p3 = p3
    s1 = s1
    s2 = s2
    s3 = s3
    s4 = s4
    None = None
    Procs <- TwoProcs
    Main = p1
    Objs <- ThreeObjs
    Nested = FALSE
    WithApp = FALSE
SYMMETRY Symmetry
SPECIFICATION Spec
CHECK_DEADLOCK FALSE
INVARIANT LibUpWhileLive
