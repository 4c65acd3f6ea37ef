SPECIFICATION FairSpec
CONSTANTS
    Thread = {main, other}
    main = main
    other = other
    Interruptible = {main}
    urandom = urandom
    alias = alias
    Shim <- MCNames
    Audit <- MCNames
    MaxContexts = 3
    MaxInterrupts = 1
    MaxReplaced = 1
    Options <- MCOptions
    Seeds = 2
    MaxUser = 1
    Real = Real
    Other = Other
    None = None
INVARIANTS
    RestoredWhenIdle
    WrapperActsOnItsThread
    LockIsHeldForAContext
    FirstFailureReported
PROPERTIES
    SweepEnds
CHECK_DEADLOCK FALSE
