CONSTANTS
    e1 = e1
    e2 = e2
    h1 = h1
    h2 = h2
    Electors = {e1, e2}
    Hijackers = {h1}
    Nobody = Nobody
    Skew <- MCSkew
    MaxSkew = 1
    LeaseDuration = 3
    GiveUp = 2
    Extra = 2
    MaxTime = 6
SYMMETRY MCSymmetry
SPECIFICATION Spec
PROPERTY HijackAlwaysWins
CHECK_DEADLOCK FALSE
