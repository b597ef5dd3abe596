SPECIFICATION FairSpec
CONSTANTS
    Probes = {p1, p2}
    MaxOutages = 1
    MaxRecords = 3
INVARIANTS OneLostPerOutage
