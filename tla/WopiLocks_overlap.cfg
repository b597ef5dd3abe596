SPECIFICATION Spec
CONSTANTS
    LockIDs = {l1, l2}
    NoLock = NoLock
    Requests = {r1, r2}
    LockDuration = 2
    MaxLockLifetime = 2
    MaxTime = 4
INVARIANTS TypeOK SnapshotCurrent StealOnlyByOverlap ForeignWriteOnlyByOverlap TakeoverOnlyOverAge ExpiryBounded
PROPERTIES ConflictNamesHolder NoRevival
SYMMETRY Symmetric
VIEW Observed
