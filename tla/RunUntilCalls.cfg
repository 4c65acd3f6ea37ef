SPECIFICATION FairSpec
CONSTANTS
    Task = {scenario, node}
    Scenario = scenario
    Deadlines = {0, 1, None}
    MaxTime = 2
    MaxSteps = 6
    MaxCalls = 2
    None = None
INVARIANTS
    NothingLeftBehind
    DeadlineIsKept
PROPERTIES
    SameStepPriority
    CallEnds
CHECK_DEADLOCK FALSE
