CONSTANTS
    Keys = {w, s}
    Watched = {w}
    Failing = {}
    Requeueing = {w, s}
    Delay <- BucketDelay
    UserDelays = {2}
    None = None
    MaxFailures = 3
SPECIFICATION Spec
INVARIANT NoLostRequeue
CHECK_DEADLOCK FALSE
