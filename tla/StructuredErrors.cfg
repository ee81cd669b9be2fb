CONSTANTS
    Keys = {"id", "name"}
    MaxOps = 4
SPECIFICATION Spec
INVARIANTS
    ReportsWrapped
    AnswerReported
CHECK_DEADLOCK FALSE
