SPECIFICATION Spec
CONSTANTS
    Callers = {c1, c2}
    Kind <- MCKind
    Backends <- MCBackends
    Labels <- MCLabels
    Patterns <- MCPatterns
    Values = {1, 2}
    Properties <- MCProperties
    Requests <- MCRequests
    Attempts <- MCAttempts
    MaxCalls = 3
SYMMETRY Symmetry
INVARIANTS
    BackendsAgree
    RequestsCounted
CHECK_DEADLOCK FALSE
