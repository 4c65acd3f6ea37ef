SPECIFICATION Spec
CONSTANTS
    MaxTasks = 2
    MaxSteps = 4
    TeardownSteps = 3
    Rounds = 2
    MaxInterrupts = 0
    MaxInvariants = 1
    None = None
INVARIANTS
    FirstErrorReported
