SPECIFICATION Spec
CONSTANTS
    LockIDs = {l1, l2}
    NoLock = NoLock
    Requests = {r1, r2}
    LockDuration = 2
    MaxLockLifetime = 3
    MaxTime = 3
INVARIANTS MutualExclusion
