CONSTANTS
    Keys = {w, s}
    Watched = {w}
    Failing = {w, s}
    Requeueing = {w, s}
    Delay <- MCDelay
    UserDelays = {2}
    None = None
    MaxFailures = 3
SPECIFICATION Spec
PROPERTY SameAsNative
CHECK_DEADLOCK FALSE
