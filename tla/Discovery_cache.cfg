SPECIFICATION BusySpec
CONSTANTS
    Callers = {c1, c2}
    Callbacks = {q1}
    CacheTTL = 1
    MaxGeneration = 1
    MaxRotation = 2
    NoData = NoData
INVARIANTS TypeOK LookupFindsData
PROPERTIES OneRotationTolerated EventuallyCurrent
