CONSTANTS
    Keys = {k1, k2}
    Root = "Ready"
    Dependents <- MCDependents
    Independents <- MCIndependents
    Values <- MCValues
    Labels = {la}
    Finalizers = {f1}
    None = None
    MaxWrites = 3
SPECIFICATION Spec
INVARIANTS
    DeprecatedSeriesExact
    TransitionsBalance
    FinalizersAnnounced
CHECK_DEADLOCK FALSE
