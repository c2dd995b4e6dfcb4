SPECIFICATION Spec
CONSTANTS
    IndexMod = 8
    WordSize = 3
    MaxSent = 6
INVARIANTS
    HighestNotReplayed
    HighestKept
    FreshAccepted
CHECK_DEADLOCK FALSE
