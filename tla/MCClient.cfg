SPECIFICATION Spec
CONSTANTS
    Conn = {c1}
    Other = Other
    Pid = {p1, p2}
    MaxProc = 3
    MaxEvents = 2
    Pidfd = TRUE
    Scope = TRUE
INVARIANTS
    PinnedIsDaemon
    ClearedIsDead
    OneChild
PROPERTIES
    EveryCallEnds
CHECK_DEADLOCK FALSE
