SPECIFICATION Spec
CONSTANTS
    Dreamers = {"heartbeat", "api"}
    Dashboard = TRUE
    Workers = {1}
    Places = {0, 1}
    MinHistory = 2
    MaxHistory = 2
    Threshold = 1
    MaxSteps = 3
INVARIANT OneSleeper
