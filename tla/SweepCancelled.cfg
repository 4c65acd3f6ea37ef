SPECIFICATION Spec
CONSTANTS
    Thread = {main}
    main = main
    other = other
    Interruptible = {}
    urandom = urandom
    alias = alias
    Shim <- MCNames
    Audit <- MCNames
    MaxContexts = 3
    MaxInterrupts = 0
    MaxReplaced = 0
    Options <- MCSweepOnly
    Seeds = 2
    MaxUser = 0
    Real = Real
    Other = Other
    None = None
INVARIANTS
    AnyExceptionIsReported
CHECK_DEADLOCK FALSE
