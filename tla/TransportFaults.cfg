SPECIFICATION Spec
CONSTANTS
    Addr = {a1, a2}
    Lat = {1}
    Factors = {2}
    Policies <- MCSimple
    Splits <- MCSplits
    Specs <- MCSpecs
    Secs = {0, 2}
    MaxTime = 5
    MaxSends = 1
    MaxCalls = 1
    MaxFaults = 2
    None = None
INVARIANTS
    FaultsFollowSchedule
    DecidedAtDelivery
    FaultsAreEffective
    RunForResolves
    SlowedAtSend
SYMMETRY Symmetry
