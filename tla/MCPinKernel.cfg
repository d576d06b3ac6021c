CONSTANTS
    p1 = p1
    p2 = p2
    s1 = s1
    s2 = s2
    s3 = s3
    s4 = s4
    Ranges = 2
    Rounds = 2
    Pins <- MCPins
    Secrets <- MCSecrets
    None = None
SPECIFICATION Spec
SYMMETRY KernelSymmetry
INVARIANTS
    NoFreeGuess
    Usable
    OldRangeRetired
PROPERTY
    SecretKept
