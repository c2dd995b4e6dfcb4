SPECIFICATION FairSpec
CONSTANTS
    Calls <- MCCalls
    MaxMedia = 1
    MaxMishaps = 1
INVARIANTS
    SdesInUse
    TunnelsAgree
    MediaFlows
    SecureIsEncrypted
    DiscriminatorSound
    DiscriminatorWarned
PROPERTY ZrtpCompletes
