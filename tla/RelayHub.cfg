SPECIFICATION FairSpec
CONSTANTS
    Peers = {p1, p2}
    SendCapacity = 1
    MaxBroadcasts = 3
INVARIANTS
    TypeOK
    NoChannelPanic
    StreamSafety
PROPERTIES
    ImplementsFanout
    HubGoesOn
CHECK_DEADLOCK FALSE
