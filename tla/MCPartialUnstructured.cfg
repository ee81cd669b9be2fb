CONSTANTS
    Names = {"a", "b"}
    Documents <- MCDocuments
    FieldSets <- MCFieldSets
    MaxCalls = 2
SPECIFICATION Spec
INVARIANTS
    ConvertsExactly
    ConversionIsPure
    OnlyRequested
CHECK_DEADLOCK FALSE
