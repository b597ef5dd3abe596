\* One request at a time: no two calls overlap, but replies may be lost,
\* locks expire, the sweep runs, and sessions crash without unlocking.
SPECIFICATION Spec
CONSTANTS
    LockIDs = {l1, l2, l3}
    NoLock = NoLock
    Requests = {r1}
    LockDuration = 2
    MaxLockLifetime = 3
    MaxTime = 6
INVARIANTS HolderKeepsLock
PROPERTIES ImplementsLease
SYMMETRY Symmetric
