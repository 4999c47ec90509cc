SPECIFICATION Spec
CONSTANTS
    Row = {r1, r2}
    MaxFaults = 3
INVARIANTS
    EdgesSurvive
    OpenedIsCurrent
PROPERTIES
    OpensAtLast
