CONSTANTS
    Sessions = {s1, s2}
    Payloads = {p, q}
    None = None
    Torn = Torn
    NoCut = NoCut
    FlushEvery = 2
    MaxRecords = 4
SPECIFICATION Spec
CHECK_DEADLOCK FALSE
SYMMETRY Symmetry
INVARIANTS OneChain Verifiable TamperEvident
PROPERTY KeepsPromise
