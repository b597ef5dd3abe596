SPECIFICATION FairSpec
CONSTANTS
    Requests = {r1, r2}
    Calls = {c1}
    TokenIDs = {t1}
    NoToken = NoToken
    FailureThreshold = 2
    HalfOpenMax = 1
    maxRetries = 2
    TokenTTL = 1
    MaxTime = 2
INVARIANTS TypeOK WriteNeedsGrant
PROPERTIES PromiseKept RefusalLeavesNoRow OutageNeverDenies IssuanceDecided
