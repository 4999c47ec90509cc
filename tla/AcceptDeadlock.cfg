SPECIFICATION FairSpec
CONSTANTS
    Conn = {c1}
    Timer = {t1, t2}
    NoConn = NoConn
    NoTimer = NoTimer
    MaxSessions = 1
    MaxPerm = 2
    IdleEnabled = TRUE
PROPERTIES
    EveryStopDrains
CHECK_DEADLOCK FALSE
