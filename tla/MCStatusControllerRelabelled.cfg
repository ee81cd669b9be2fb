CONSTANTS
    Keys = {k1}
    Root = "Ready"
    Dependents <- MCDependents
    Independents <- MCIndependents
    Values <- MCValues
    Labels = {la, lb}
    Finalizers = {f1}
    None = None
    MaxWrites = 4
SPECIFICATION Spec
INVARIANT TerminationSeriesUnique
CHECK_DEADLOCK FALSE
