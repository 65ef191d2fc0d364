\* Nested lifetimes of SpdkEnv and SpdkThread, and SpdkApp::run.
CONSTANTS
    p1 = p1
    p2 = p2
    p3 = p3
    s1 = s1
    s2 = s2
    s3 = s3
    s4 = s4
    None = None
    Procs <- ThreeProcs
    Main = p1
    Objs <- FourObjs
    Nested = TRUE
    WithApp = TRUE
SYMMETRY Symmetry
SPECIFICATION Spec
CHECK_DEADLOCK FALSE
INVARIANT LibUpWhileLive
INVARIANT LibFlagTracks
INVARIANT EnvExclusive
INVARIANT CurrentNeverDangles
