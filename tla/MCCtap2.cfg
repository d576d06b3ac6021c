CONSTANTS
    r1 = r1
    r2 = r2
    p1 = p1
    u1 = u1
    u2 = u2
    None = None
    RPs <- MCRP
    Pins <- MCPin
    Users <- MCUsers
    PermSets <- MCPermSets
    MaxRetries = 1
    MaxConsec = 1
    InitialUse = 0
    MaxLife = 0
    TickRange = 4
    MaxUptime = 1
    NSlots = 2
    MaxSeq = 2
    NextTimeout = 0
    UpTimeout = 1
    ResetWindow = 0
SPECIFICATION Spec
SYMMETRY MCUserSymmetry
INVARIANTS
    TypeOK
    OneAccount
    NoStaleLists
    AlwaysUvHolds
PROPERTY
    ImplementsClientPin
