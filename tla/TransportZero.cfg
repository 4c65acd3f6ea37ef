SPECIFICATION Spec
CONSTANTS
    Addr = {a1, a2}
    Lat = {1}
    Factors = {2}
    Policies <- MCSimple
    Splits <- NoSplits
    Specs <- MCSeed
    Secs = {0, 1}
    MaxTime = 2
    MaxSends = 1
    MaxCalls = 1
    MaxFaults = 1
    None = None
INVARIANTS
    NothingLeaksPastRunFor
SYMMETRY Symmetry
