SPECIFICATION ArchivesSpec
CONSTANTS
    Insights = {}
    Seeds = {s1, s2}
    Branches = {}
    GCs = {g1, g2}
    ArchiveFaults = {}
    MaxFaults = 0
INVARIANT NeverErased
