SPECIFICATION FairSpec
CONSTANTS
    Subscribers = {audio, video}
    None = None
    Delays = {1, 2, 3}
    LongWait = 3
    Horizon = 1
    MaxTime = 2
    MaxRequests = 3
INVARIANTS
    Sorted
PROPERTY Served
CHECK_DEADLOCK FALSE
