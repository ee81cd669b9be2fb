CONSTANTS
    Root = "Ready"
    Dependents <- MCDependents
    Independents <- MCIndependents
    Settable <- MCSettable
    Reasons = {"Failed"}
    TypeRank <- MCTypeRank
    NoCondition = NoCondition
    MaxGeneration = 2
    MaxTime = 1
SPECIFICATION Spec
PROPERTY SetFalseFailsRoot
CHECK_DEADLOCK FALSE
