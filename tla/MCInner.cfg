SPECIFICATION InnerSpec
CONSTANTS
    Dreamers = {"heartbeat", "api", "session", "turn", "tick"}
    Dashboard = FALSE
    Workers = {1, 2}
    Places = {0, 1}
    MinHistory = 2
    MaxHistory = 2
    Threshold = 1
    MaxSteps = 3
    Paths = {f}
    Branches = {main}
    MaxEvents = 3
    IdleScans = 1
    ValidateSupport = 1
    PromoteSupport = 2
    DemoteIdle = 1
    PurgeIdle = 1
    MaxEmitting = 2
    Needs = {n1}
    Phis = {0, 1, 2}
    DeclineWindow = 3
    DeclineMagnitude = 1
    Persistence = 3
    BaseCooldown = 3
    CuriousAt = 2
    Conditions <- MCConditions
    MaxBeats = 3
    MaxTold = 2
    PhiIits = {600, 1500, 1700}
    Ideas <- MCIdeas
    Vocabulary = {w1}
    EdgesKnown = 2
    SkillsKnown = 2
    Period = 2
    MaxSeen = 2
    MaxEdges = 3
    MaxSkills = 3
INVARIANTS DreamsInOrder SensorsAreEarned FallsOnRecord RipeByIntegration
PROPERTIES AlwaysWakes UnusedSensorsGo NeedsAreVoiced
