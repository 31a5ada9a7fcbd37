SPECIFICATION Spec
CONSTANTS
    None = None
    Issues <- MCIssues
    Events <- MCEvents
    LlmAnswers <- MCLlmAnswers
    Departments <- MCDepartments
    RuleConfigs <- MCRuleConfigs
    MAX_ITERATIONS = 3
INVARIANTS
    RunIsAccounted
    WorkIsAllowed
    RepliesAreHeard
PROPERTIES
    GatewayCloses
    FollowsLifecycle
