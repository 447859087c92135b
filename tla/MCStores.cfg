SPECIFICATION StoresSpec
CONSTANTS
    Insights = {i1}
    Seeds = {s1, s2}
    Branches = {b1}
    GCs = {g1, g2}
    ArchiveFaults = {"crash", "read", "write", "unlink"}
    MaxFaults = 2
    Origins = {"user", "endogenous"}
    MaxHistory = 3
    Interval = 2
    Faults = {"interrupt", "history", "archive"}
    MaxCrashes = 2
    MaxMessages = 9
    StateFiles = 2
    MaxBackups = 1
    MaxStamp = 2
    MaxMade = 3
    Versions = {"v1", "v2"}
    Processes = {"chat", "daemon"}
    MaxLines = 4
    Metrics = {"m1", "m2"}
    MaxMeasured = 4
    Chats = {c1, c2}
    Daemons = {d1, d2}
    c1 = c1
    c2 = c2
    d1 = d1
    d2 = d2
    Machines = {TRUE, FALSE}
    Patient = TRUE
    MaxJournal = 2
    MaxImpulses = 3
    MaxSteps = 1
SYMMETRY Alike
INVARIANTS
    OnlyFailuresErase
    SessionsWhole
    RestoreFindsIt
    IntegrityHonest
    OneOwner JournalExact
PROPERTIES OnlyFailuresDelete MetricsKept WorkKept
CHECK_DEADLOCK FALSE
