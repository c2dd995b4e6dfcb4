SPECIFICATION FairSpec
CONSTANTS
    Peers = {alice, bob}
    Modes = {FALSE, TRUE}
    MaxHvi = 2
    MaxChain = 1
    MaxStarts = 1
    MaxLosses = 4
INVARIANTS
    MediaDecodable
    NoFalseAlarm
PROPERTIES
    BothSecure
    ImplementsKeyAgreement
CHECK_DEADLOCK FALSE
