SPECIFICATION FairSpec
CONSTANTS
    Proc = {p1, p2}
    Guest = {g1}
    Pid = {n1, n2}
    NoProc = NoProc
    Corrupt = Corrupt
    NumPaths = 2
    MaxAttempts = 2
    MaxStrangers = 1
    HardLinks = TRUE
PROPERTIES
    StaleFilesNeverBlock
CHECK_DEADLOCK FALSE
