SPECIFICATION Spec
CONSTANTS
    Docs = {d1, d2}
    Actors = {a1}
    Requests = {r1, r2}
    MaxWindows = 2
    None = None
SYMMETRY Symmetric
VIEW Observed
INVARIANTS TypeOK EveryWindowCounted NothingLeftBehind
PROPERTIES EventsExact
