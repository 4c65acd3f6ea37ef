SPECIFICATION Spec
CONSTANTS
    Addr = {a1, a2}
    Lat = {1, 2}
    Factors = {2}
    Policies <- MCPolicies
    Splits <- MCSplits
    Specs <- MCSlow
    Secs = {0}
    MaxTime = 3
    MaxSends = 2
    MaxCalls = 0
    MaxFaults = 0
    None = None
INVARIANTS
    ReliableFIFO
    CopiesConserved
    NetStreamUnshifted
SYMMETRY Symmetry
