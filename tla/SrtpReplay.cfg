SPECIFICATION Spec
CONSTANTS
    SeqMod = 8
    RocMod = 8
    WordSize = 2
    MaxSent = 17
INVARIANTS
    WindowExact
    NoReplay
    FreshAccepted
CHECK_DEADLOCK FALSE
