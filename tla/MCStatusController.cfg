CONSTANTS
    Keys = {k1}
    Root = "Ready"
    Dependents <- MCDependents
    Independents <- MCIndependents
    Values <- MCValues
    Labels = {la, lb}
    Finalizers = {f1}
    None = None
    MaxWrites = 3
SPECIFICATION FairSpec
INVARIANTS
    TypeOK
    ConditionSeriesExact
    DeprecatedSeriesKept
    TerminationRemembered
    TerminationsObserved
    TransitionsBalance
    FinalizersAnnounced
    NeverForgotten
PROPERTY Converges
CHECK_DEADLOCK FALSE
