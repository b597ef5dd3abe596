SPECIFICATION ServiceSpec
CONSTANTS
    Callers = {c1}
    Callbacks = {q1}
    CacheTTL = 1
    MaxGeneration = 1
    MaxRotation = 1
    NoData = NoData
PROPERTIES FailureTriggersRefresh
