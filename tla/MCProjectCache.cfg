SPECIFICATION Spec
CONSTANTS
    Root = {r1, r2, r3}
    Extra = {r1}
    Caller = {c1, c2, c3}
    MaxLRU = 2
SYMMETRY Symmetric
INVARIANTS
    InUseIsOpen
    NothingLeaks
CHECK_DEADLOCK FALSE
