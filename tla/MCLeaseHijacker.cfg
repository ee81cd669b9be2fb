CONSTANTS
    e1 = e1
    e2 = e2
    h1 = h1
    h2 = h2
    Electors = {e1, e2}
    Hijackers = {h1, h2}
    Nobody = Nobody
    Skew <- MCSkew
    MaxSkew = 1
    LeaseDuration = 2
    GiveUp = 1
    Extra = 2
    MaxTime = 5
SYMMETRY MCSymmetry
SPECIFICATION Spec
INVARIANTS
    TypeOK
    OneLeader
PROPERTY HijackWins
CHECK_DEADLOCK FALSE
