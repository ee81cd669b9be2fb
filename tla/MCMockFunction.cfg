CONSTANTS
    c1 = c1
    c2 = c2
    c3 = c3
    Callers = {c1, c2, c3}
    Outputs = {o1}
    Errors = {e1}
    Nil = Nil
    Zero = Zero
    Default = Default
    Quiescent = TRUE
    MaxInvocations = 4
SYMMETRY MCSymmetry
SPECIFICATION Spec
INVARIANTS
    TypeOK
    ErrorOnce
    CallsAccounted
    ReturnsOutputOfCall
CHECK_DEADLOCK FALSE
