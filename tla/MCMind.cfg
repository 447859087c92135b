SPECIFICATION MindSpec
CONSTANTS
    Confidences = {0, 700}
    MetricValues = {300}
    Factor = 2000
    Promoted = {1000}
    Divergences = {750}
    HistoryMost = 1
    HistoryKept = 1
    Tendencies <- MCTendencies
    MaxDelta = 20
    Window = 2
    MaxAge = 2
    MaxDreams = 3
    MaxCuts = 2
    Topics = {"a", "b", "c"}
    Heuristic <- MCHeuristic
    Capacity = 2
    Founders = 1
    MinCount = 2
    MaxEpisodes = 3
    TopPhi = 17
    Band = 1
    Fibonacci = {1, 2, 3, 5, 8, 13, 21}
    MinSteps = 3
    GrowthRate = 2
    PrecisionMin = 2
    RetryInterval = 6
    MaxEnergySteps = 21
    NumTargets = 3
    Beside = {1, 2}
    Existing = {1, 3}
    InitialW = 1
    CooldownCycles = 3
    EscalationWindow = 3
    RollbackThreshold = 2
    MaxW = 2
    Cells = 4
    MaxSpans = 3
    MostListed = 2
    PhiMoves <- MCPhiMoves
    RankMoves = {0}
    Drifts = {0, 400}
    MaxTurns = 4
    MaxNights = 1
    Draws <- MCDraws
    ReplayCycles <- MCReplayCycles
    ReplayK = 2
    Generations = 2
    Corpus <- MCCorpus
    Marks = {300, 310, 500}
INVARIANTS
    ThoughtsHold FifthAtMost
    CutsCostLittle
    TiedTagsLinked
    PrecisionHonest RollbackIsFelt
    SpokenAsCorrected StaysCalm ValidatedIsBetter
PROPERTIES PhaseConverges NeverWorse
