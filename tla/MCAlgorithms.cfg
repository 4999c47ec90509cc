SPECIFICATION Spec
CONSTANTS
    MaxRule = 3
    MaxClass = 3
    MaxPath = 4
    MaxTarget = 3
    MaxEdges = 3
    MaxFlowEdges = 3
    MaxImports = 2
    MaxSources = 8
    Name <- MCName
    skipDirNames = {".wt"}
    skipPathFragments <- MCFragments
    NoHint = {}
    defaultGraphMax = 2
    maxGraphResults = 3
    defaultImpactDepth = 2
    maxImpactDepth = 3
    defaultAffectedDepth = 2
    maxAffectedDepth = 3
    Question <- MCQuestion
    Change <- MCChange
    Depth = {0, 1, 3}
    FlowQuery <- MCFlowQuery
    AnswerQuery <- MCAnswerQuery
    specificMax = 1
    pickMax = 2
    seedMax = 2
    maxHops = 4
INVARIANTS
    RulesAgree
    OneVisibility
    SessionSeesItsTree
    SelectorKept
    GraphToolsExact
    ExploreHonest
    ImportsReachTheirTarget
\* An input is built to its bounds and left.
CHECK_DEADLOCK FALSE
