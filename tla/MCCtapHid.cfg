CONSTANTS
    c1 = c1
    c2 = c2
    Channels <- MCChannels
    Broadcast = Broadcast
    None = None
    MaxConts = 1
    MaxAnswer = 2
    MaxPackets = 4
SPECIFICATION Spec
INVARIANTS
    NothingStale
    OwnsBuffers
    CancelOwned
    FreshConsent
PROPERTY
    Served
