SPECIFICATION FairSpec
CONSTANTS
    File = {a, b}
    InTree = {a}
    Text = {x, y}
    Broken = {y}
    QueueLen = 1
    MaxRetries = 2
    MaxEdits = 2
INVARIANTS
    Converged
    ResolvedAtRest
    OverflowSparesThePresent
    NoPassAfterClose
PROPERTIES
    ComesToRest
\* The database may be closed for good.
CHECK_DEADLOCK FALSE
