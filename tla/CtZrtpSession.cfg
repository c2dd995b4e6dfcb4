SPECIFICATION FairSessionSpec
CONSTANT MaxCalls = 3
INVARIANTS
    SlaveStarted
    MasterFirst
PROPERTY SlaveStarts
CHECK_DEADLOCK FALSE
