SPECIFICATION Spec
CONSTANTS
    Peers = {alice, bob}
    Paranoid = {FALSE, TRUE}
    EnoughMedia = 1
    MaxSessions = 4
    MaxCrashes = 1
INVARIANTS
    SameSecretChosen
    LinkKept
    SasFlagEarned
    FlagsAgree
PROPERTIES
    SecretHeldBack
SYMMETRY Symmetry
CHECK_DEADLOCK FALSE
