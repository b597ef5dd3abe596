SPECIFICATION FairSpec
CONSTANTS
    Requests = {r1, r2}
    Docs = {d1, d2}
    Flusher = Flusher
    Callers = {r1, r2, Flusher}
    Nobody = Nobody
    NoEvent = NoEvent
    Followed = {r1, r2}
    MaxDials = 2
    MaxFaults = 1
INVARIANTS TypeOK ConnectionsOwned ExitClean AtMostOnce RenamesInOrder
CHECK_DEADLOCK FALSE
PROPERTIES EventuallyExits ActivityFlushed
