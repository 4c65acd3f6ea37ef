SPECIFICATION Spec
CONSTANTS
    Node = {n1, n2, n3}
    Buggy = FALSE
    MaxTerm = 2
    None = None
INVARIANTS
    ElectionSafety
    OneWinnerPerTerm
PROPERTIES
    LeaderStepsDownForNewerTerm
SYMMETRY Symmetry
