CONSTANTS
    Keys = {w, s}
    Watched = {w}
    Failing = {w, s}
    Requeueing = {w, s}
    Delay <- MCDelay
    UserDelays = {2}
    None = None
    MaxFailures = 4
SPECIFICATION FairSpec
INVARIANTS
    TypeOK
    NoLostRequeue
    CountsFollowAnswers
PROPERTIES
    AskedRunsAgain
    BacksOffAsNative
CHECK_DEADLOCK FALSE
