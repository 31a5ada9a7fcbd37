SPECIFICATION Spec
CONSTANTS
    r1 = r1
    r2 = r2
    r3 = r3
    None = None
    Requests = {r1, r2, r3}
    Services = {"ui", "app", "base"}
    Keys = {"k1", "k2"}
    Kind <- MCKind
    DependsOn <- MCDependsOn
    Schema <- MCSchema
    Probed = {"ui"}
    MaxDepth = 2
    Threshold = 2
    MaxFaults = 2
    Mixes <- MCMixes
INVARIANTS
    CommandsAreRecorded
    SlotsAreTrue
PROPERTIES
    DeferredIsWritten
CHECK_DEADLOCK FALSE
