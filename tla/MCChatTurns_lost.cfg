SPECIFICATION Spec
CONSTANTS
    Threshold = 2
    Timeout = 2
    MaxFailures = 3
    Origins = {"user", "endogenous"}
    RetryMax = 1
    IdleAfter = 1
    MinIdle = 2
    MaxSteps = 7
INVARIANT OwnStepsKept
CHECK_DEADLOCK FALSE
