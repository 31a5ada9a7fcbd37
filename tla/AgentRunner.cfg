\* A cap of two iterations, a streak of two, a banner at the second; runs
\* started at the first and second iteration and beyond the last, with a cap of
\* their own of one or without; one diff, which a signal
\* names or not; one output action of each severity.
SPECIFICATION Spec
CONSTANTS
    None = None
    Hashes = {d1}
    Roles = {user, admin}
    MAX_ITER = 2
    NEEDS_INFO_MAX_STREAK = 2
    ITER_WARNING_THRESHOLD = 2
    Iterations = {1, 2, 4}
    MaxIters = {0, 1}
    MaxActions = 1
INVARIANTS
    RunIsOrderly
    WorkStaysUnderCap
    CompensationOnce
PROPERTIES
    CancelIsFinal
    RunnerCloses
