SPECIFICATION FairSpec
CONSTANTS
    Versions <- MCVersions
    PeerVersions <- MCPeerVersions
    T1Resend = 1
    T1ResendExtend = 1
    T2Resend = 1
    MaxStarters = 2
    MaxRelays = 1
INVARIANTS
    TypeOK
    ResendMatchesState
    TimerMatchesState
    RequestsBounded
    SrtpMatchesState
    NoSilentAbort
PROPERTIES
    SenderOnlyWhenSecure
    WaitingEnds
