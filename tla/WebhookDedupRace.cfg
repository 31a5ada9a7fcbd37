SPECIFICATION Spec
CONSTANTS
    d1 = d1
    d2 = d2
    d3 = d3
    e1 = e1
    e2 = e2
    i1 = i1
    None = None
    Deliveries <- MCPair
    Events <- MCEvents
    Issues <- MCIssues
    Payloads <- MCPayloads
    STORM_THRESHOLD = 2
    MAX_CONCURRENT = 1
INVARIANTS
    IterationOncePerComment
CHECK_DEADLOCK FALSE
