SPECIFICATION HistorySpec
CONSTANTS
    Origins = {"user", "endogenous"}
    MaxHistory = 4
    Interval = 2
    Faults = {"interrupt"}
    MaxCrashes = 0
    MaxMessages = 10
PROPERTY NeverDeleted
CHECK_DEADLOCK FALSE
