SPECIFICATION Spec
CONSTANTS
    r1 = r1
    r2 = r2
    i1 = i1
    d1 = d1
    d2 = d2
    d3 = d3
    Requests <- MCRequests
    Issues <- MCIssues
    Depts <- MCDepts
    Events <- MCEvents
    Info <- MCInfo
    Mixes <- MCMixes
    MaxTries = 2
    Cap = 1
    DayCap = 2
    None = None
SYMMETRY Perms
INVARIANTS
    DeliveredOnce
    AcknowledgedIsHandled
    StartsAreEntitled
CHECK_DEADLOCK FALSE
