SPECIFICATION FairSpec
CONSTANTS
    Callback = {c1, c2}
    MaxTime = 0
    MaxTimers = 1
    MaxSteps = 1
    None = None
PROPERTIES
    StepEnds
    NoStarvation
    LimitEndsDrive
