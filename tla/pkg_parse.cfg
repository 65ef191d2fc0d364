\* Every list of up to five tokens of eight kinds, and every one of four cflags.
CONSTANTS
    foo = foo
    pthread = pthread
    opt = opt
    usr = usr
    incl = incl
    def = def
    None = None
    Libs <- TwoLibs
    Pthread = pthread
    Dirs <- TwoDirs
    Archives <- SomeArchives
    SystemDirs <- System
    Forced <- ForcedLibs
    Inputs <- OneLong
    CTokens <- TwoCTokens
SPECIFICATION Spec
CHECK_DEADLOCK FALSE
INVARIANT KindIsPromised
INVARIANT OrderKept
