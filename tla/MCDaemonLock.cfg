SPECIFICATION Spec
CONSTANTS
    Proc = {p1, p2, p3}
    Guest = {g1}
    Pid = {n1, n2, n3}
    NoProc = NoProc
    Corrupt = Corrupt
    NumPaths = 1
    MaxAttempts = 2
    MaxStrangers = 0
    HardLinks = FALSE
SYMMETRY Symmetry
INVARIANTS
    ServingOwnsIndex
    CleanExitLeavesNothing
PROPERTIES
    ImplementsIndexWriter
\* Every process may have ended.
CHECK_DEADLOCK FALSE
