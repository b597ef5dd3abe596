SPECIFICATION Spec
CONSTANTS
    Replicas = {p1, p2}
    Nowhere = Nowhere
    Sources = {s1}
    PreviewIDs = {f1, f2}
    NoFile = NoFile
    Requests = {r1}
    NoSource = NoSource
    maxActiveRenders = 1
    waitingCapacity = 0
    MaxVersion = 2
INVARIANTS TypeOK PermitsAccounted NoWaiterForgotten MappingNotAhead
PROPERTIES ServedFresh NoStrandedPreview
SYMMETRY Symmetric
VIEW Observed
