SPECIFICATION Spec
CONSTANTS
    Peers = {alice, bob}
    maxNoOfAlgos = 7
    Flags = {"iPreferNIST", "iDisableECDH384", "iDisableSkeinHash", "iEnableSHA384=0"}
    Indices = {0}
    MaxChanges = 1
    MaxReplaced = 1
INVARIANTS
    PubKeySymmetric
    CommitAccepted
    StrongHashOffered
    OnlyOffered
SYMMETRY Symmetry
CHECK_DEADLOCK FALSE
