CONSTANTS
    Root = "Ready"
    Dependents <- MCDependents
    Independents <- MCIndependents
    Settable <- MCSettable
    Reasons = {"Failed"}
    TypeRank <- MCTypeRank
    NoCondition = NoCondition
    MaxGeneration = 3
    MaxTime = 1
SPECIFICATION Spec
INVARIANTS
    TypeOK
    RootMatchesDependents
    RootIsFreshest
    DeletionBumpsTogether
    KnownStayPresent
    ReadyIffDependentsReady
    ReadySinceDependentsReady
    ListsEveryCondition
PROPERTY NeverRewinds
CHECK_DEADLOCK FALSE
