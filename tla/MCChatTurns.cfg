SPECIFICATION FairSpec
CONSTANTS
    Threshold = 1
    Timeout = 2
    MaxFailures = 3
    Origins = {"user", "endogenous"}
    RetryMax = 1
    IdleAfter = 1
    MinIdle = 2
    MaxSteps = 8
INVARIANT LoneTurnKept
PROPERTIES BreakerSpec EveryTurnEnds
CHECK_DEADLOCK FALSE
