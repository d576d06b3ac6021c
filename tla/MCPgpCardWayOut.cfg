CONSTANTS
    x1 = x1
    x2 = x2
    c1 = c1
    c2 = c2
    Rounds = 1
    Secrets <- MCSecrets
    Codes = {}
    None = None
    C4s = {}
    Uifs = {}
    BootTries = 2
    MaxFaults = 2
SPECIFICATION FairSpec
PROPERTY
    WayOut
