CONSTANTS
    x1 = x1
    x2 = x2
    c1 = c1
    c2 = c2
    Rounds = 1
    Secrets <- MCSecrets
    Codes <- MCCodes
    None = None
    C4s = {0, 1}
    Uifs = {0, 1, 2}
    BootTries = 2
    MaxFaults = 1
SPECIFICATION Spec
SYMMETRY Symmetry
INVARIANTS
    KeysOfThisPin
    RecordIsTrue
    OnlyLatestCode
    KekIsLive
    SigsCounted
    PermanentTouch
    WipeErasesAll
