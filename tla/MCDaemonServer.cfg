SPECIFICATION FairSpec
CONSTANTS
    Conn = {c1, c2}
    Timer = {t1, t2}
    NoConn = NoConn
    NoTimer = NoTimer
    MaxSessions = 1
    MaxPerm = 2
    IdleEnabled = TRUE
INVARIANTS
    NoStrandedSession
PROPERTIES
    CleanupAfterDrain
    IdleStopSparesServed
    WaitGroupNeverRevived
    StopDrains
    IdleDaemonStops
\* The process really stops: after exit, and for good when the accept loop
\* shuts the daemon down (EveryStopDrains).
CHECK_DEADLOCK FALSE
