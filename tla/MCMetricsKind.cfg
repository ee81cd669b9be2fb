SPECIFICATION Spec
CONSTANTS
    Callers = {c1, c2}
    Kind <- MCKind
    Backends <- MCBackends
    Labels <- MCLabels
    Patterns <- MCPatterns
    Values = {1, 2}
    Properties <- MCProperties
    Requests <- MCRequests
    Attempts <- MCAttempts
    MaxCalls = 1
SYMMETRY Symmetry
INVARIANTS
    LatencyByKind
CHECK_DEADLOCK FALSE
