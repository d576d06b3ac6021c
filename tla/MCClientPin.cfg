CONSTANTS
    r1 = r1
    r2 = r2
    p1 = p1
    p2 = p2
    None = None
    RPs <- MCRPs
    Pins <- MCPins
    PermSets <- MCPermSets
    MaxRetries = 3
    MaxConsec = 2
    InitialUse = 1
    MaxLife = 2
    TickRange = 8
    MaxUptime = 4
SPECIFICATION PinSpec
SYMMETRY MCSymmetry
INVARIANTS
    TokenOfThisPin
    GrantedUse
PROPERTY
    LockoutHolds
