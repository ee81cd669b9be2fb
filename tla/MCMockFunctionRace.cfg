CONSTANTS
    c1 = c1
    c2 = c2
    c3 = c3
    Callers = {c1, c2}
    Outputs = {o1}
    Errors = {e1}
    Nil = Nil
    Zero = Zero
    Default = Default
    Quiescent = TRUE
    MaxInvocations = 3
SYMMETRY MCSymmetry
SPECIFICATION Spec
INVARIANT ReturnsWhatWasSet
CHECK_DEADLOCK FALSE
