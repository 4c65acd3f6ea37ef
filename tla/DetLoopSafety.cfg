SPECIFICATION Spec
CONSTANTS
    Callback = {c1}
    MaxTime = 1
    MaxTimers = 3
    MaxSteps = 0
    None = None
INVARIANTS
    FiringOrder
PROPERTIES
    ClockMovesToNextLiveTimer
    ClockStaysOnceDone
    DeadlockIsReal
    TwoStopSteps
    ImplementsVirtualTime
