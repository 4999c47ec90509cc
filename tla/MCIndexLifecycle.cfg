SPECIFICATION Spec
CONSTANTS
    File = {f1, f2}
    Rev = {1, 2}
    MaxVer = 2
SYMMETRY FileSymmetry
INVARIANTS
    RevisionHonest
    MarkedPassIsComplete
PROPERTIES
    KeepsLiveFiles
