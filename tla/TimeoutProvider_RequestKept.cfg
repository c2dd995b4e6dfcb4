SPECIFICATION Spec
CONSTANTS
    Subscribers = {audio, video}
    None = None
    Delays = {1, 2}
    LongWait = 4
    Horizon = 1
    MaxTime = 2
    MaxRequests = 2
INVARIANT RequestKept
CHECK_DEADLOCK FALSE
