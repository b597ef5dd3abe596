SPECIFICATION Spec
CONSTANTS
    LockIDs = {l1, l2}
    NoLock = NoLock
    Requests = {r1}
    LockDuration = 2
    MaxLockLifetime = 2
    MaxTime = 5
PROPERTIES TakeoverHonoursLifetime
