\* The jobs beside the main path, up to three at a time.
SPECIFICATION Spec
CONSTANTS
    x1 = x1
    x2 = x2
    x3 = x3
    Jobs = {x1, x2, x3}
    None = None
    MaxAttempts = 3
    IterationCap = 3
    ValidIssues = {"A-1", "B-1"}
    BotBranches = {"ai/1", "ai/2", "ai/3"}
    Configured = {"d1", "d2"}
    DefaultRetention = 4
    BatchSize = 2
    DayLength = 4
    UnhealthyAfter = 3
    HealthyAfter = 2
    Normalised <- MCNormalised
    SeenMax = 1
    Tolerance = 1
    TokenCap = 2
    ToolLimit = 2
    MaxRateLimits = 3
    MaxServerErrors = 3
    Versions <- MCVersions
    Crons <- MCCrons
    PoolTries = 2
    MaxActions = 3
    Issues = {"A-1", "B-1"}
    Paths = {"a", "b"}
    Mixes <- MCMixes
INVARIANTS
    ReviewWorkAddsUp
    LimitsHold
    RecordsSurvive
    EffectsAreTrue
    ProcessesComeAndGo
PROPERTIES
    EveryJobEnds
CHECK_DEADLOCK FALSE
