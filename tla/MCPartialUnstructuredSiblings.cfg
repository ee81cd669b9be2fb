CONSTANTS
    Names = {"a", "b"}
    Documents <- MCDocuments
    FieldSets <- Siblings
    MaxCalls = 2
SPECIFICATION Spec
INVARIANT FieldsConverted
CHECK_DEADLOCK FALSE
