CONSTANTS
    Keys = {k1}
    Root = "Ready"
    Dependents <- MCDependents
    Independents <- MCIndependents
    Values <- MCValues
    Labels = {la, lb}
    Finalizers = {f1}
    None = None
    MaxWrites = 3
SPECIFICATION Spec
INVARIANT DeprecatedSeriesExact
CHECK_DEADLOCK FALSE
