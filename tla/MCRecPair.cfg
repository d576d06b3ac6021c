CONSTANTS
    p1 = p1
    p2 = p2
    p3 = p3
    Payloads <- MCPayloads
    TooLong <- MCTooLong
    None = None
    Absent = Absent
    MaxGen = 3
    MaxFaults = 1
SPECIFICATION Spec
INVARIANTS
    NeverStale
    Durable
PROPERTY
    ImplementsAtomicRecord
