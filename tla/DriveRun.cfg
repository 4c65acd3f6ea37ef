SPECIFICATION FairSpec
CONSTANTS
    MaxTasks = 3
    MaxSteps = 4
    TeardownSteps = 3
    Rounds = 2
    MaxInterrupts = 2
    MaxInvariants = 1
    None = None
INVARIANTS
    FailureSurvives
    InterruptPropagates
    NothingAbandonedSilently
    SuccessIsEarned
    NoChecksAfterFailure
PROPERTIES
    ScenarioUnwindsFirst
    RunEnds
VIEW Relevant
