SPECIFICATION Spec
CONSTANTS
    Peers = {alice, bob}
    Modes = {FALSE}
    MaxHvi = 4
    MaxChain = 2
    MaxStarts = 1
    MaxLosses = 0
INVARIANTS
    KeysAgree
SYMMETRY Symmetry
CHECK_DEADLOCK FALSE
