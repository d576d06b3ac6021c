CONSTANTS
    c1 = c1
    c2 = c2
    Channels <- MCChannels
    Broadcast = Broadcast
    None = None
    MaxConts = 1
    MaxAnswer = 2
    MaxPackets = 3
SPECIFICATION Spec
PROPERTY
    ResyncAnswered
