CONSTANTS
    Keys = {"id", "name"}
    MaxOps = 4
SPECIFICATION Spec
INVARIANT EveryWrapped
CHECK_DEADLOCK FALSE
