CONSTANTS
    r1 = r1
    r2 = r2
    e1 = e1
    e2 = e2
    Replicas = {r1}
    Names = {e1, e2}
    Ours = {e1}
    NoEvent = NoEvent
    Standbys = FALSE
    Resolution = 2
    MaxTime = 5
SPECIFICATION EventsSpec
INVARIANT LifetimeCounted
CHECK_DEADLOCK FALSE
