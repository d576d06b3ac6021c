CONSTANTS
    None = None
    MaxResets = 4
    MaxSent = 5
SPECIFICATION Spec
CHECK_DEADLOCK FALSE
INVARIANTS
    BuffersStable
    Listens
PROPERTY
    ImplementsCardSession
