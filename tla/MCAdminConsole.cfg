SPECIFICATION Spec
CONSTANTS
    r1 = r1
    r2 = r2
    r3 = r3
    None = None
    Reqs = {r1, r2, r3}
    Mixes <- MCMixes
    Paths <- MCPaths
    SafeName <- MCSafeName
    MaxNow = 1
    Flags = {"k", "l"}
    FlagDepts = {"d1", "d2"}
    Providers = {"p1", "p2"}
    Flows = {"w1"}
    Spaces = {"W-1"}
    Runners = {"n1", "n2", "n3"}
    DefaultRunner = "n3"
    RunDepts = {"d1", "d2"}
    EnvRunner = FALSE
INVARIANTS
    AnswersAreTrue
    PromptsAreTraceable
    ProvidersKeepKeys
PROPERTIES
    FlagEditsAreExact
    EveryRequestAnswered
CHECK_DEADLOCK FALSE
