SPECIFICATION Spec
CONSTANTS
    Peers = {alice, bob}
    Paranoid = {FALSE}
    EnoughMedia = 1
    MaxSessions = 2
    MaxCrashes = 0
INVARIANTS
    MatchIsShared
CHECK_DEADLOCK FALSE
