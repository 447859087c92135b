SPECIFICATION HandoffSpec
CONSTANTS
    Chats = {c1, c2}
    Daemons = {d1, d2, d3}
    c1 = c1
    c2 = c2
    d1 = d1
    d2 = d2
    d3 = d3
    Machines = {TRUE, FALSE}
    Patient = FALSE
    MaxJournal = 2
    MaxImpulses = 3
    MaxSteps = 2
PROPERTY KillsAnyDaemon
CHECK_DEADLOCK FALSE
