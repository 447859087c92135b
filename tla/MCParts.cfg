SPECIFICATION PartsSpec
CONSTANTS
    Threshold = 3
    Timeout = 3
    MaxFailures = 7
    Callers = {c1, c2, c3}
    Urgencies = {1, 2}
    MaxBuffer = 2
    Cooldown = 3
    MaxFeed = 2
    MaxImpulses = 4
    Days = 2
    MaxRecords = 4
    MaxFaults = 3
    NumFiles = 3
    InPlace = {2}
    Statistical = {1, 2}
    MaxEras = 2
    MaxWorth = 2
    MaxMishaps = 2
    MaxRequests = 3
    Addresses = {"client", "proxy"}
    TrustedProxies = {"proxy"}
    Rpm = 2
    WindowSeconds = 1
    SweepInterval = 2
    MaxInFlight = 2
    MaxTime = 4
INVARIANTS
    PartsTypeOK
    ToldOnce
    AckedAreFound
    EraIsolated
    StopHolds
    LimitIsFair
PROPERTIES
    EventuallyProbes
    OnlyTheWeakVanish
    WorthGrows
    StopIsHeard
