CONSTANTS
    k1 = k1
    k2 = k2
    k3 = k3
    NSlots = 2
    Keys <- MCKeys
    None = None
    Bad = Bad
    MaxCount = 2
SPECIFICATION Spec
SYMMETRY KeySymmetry
INVARIANTS
    OwnKey
    Survives
    NeverUnprotected
    ResetErasesAll
PROPERTY
    SignCountGrows
