SPECIFICATION FairSpec
CONSTANTS
    Probes = {p1, p2}
    MaxOutages = 2
    MaxRecords = 3
INVARIANTS LostBounded
PROPERTIES RecordsAlternate OutageNoticed
