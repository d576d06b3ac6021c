CONSTANTS
    MaxCalls = 4
    MaxFaults = 3
SPECIFICATION Spec
CHECK_DEADLOCK FALSE
INVARIANTS
    OneFailurePerFault
    NoBlindRun
PROPERTY
    ImplementsChipCall
