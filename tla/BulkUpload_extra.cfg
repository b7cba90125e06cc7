SPECIFICATION Spec
CONSTANTS
    Files = {f1, f2}
    Workers = {w1, w2}
    Clerks = {c1, c2}
    f1 = f1
    f2 = f2
    w1 = w1
    w2 = w2
    c1 = c1
    c2 = c2
    Archives <- MCAnyArchive
    Content <- MCDistinct
    Person <- MCDistinct
    Prior = {}
    Members = {}
    FileAttempts = 2
    MaxReplays = 2
    MaxFaults <- MCMaxFaults
    Mixes <- MCSafetyMixes
SYMMETRY MCSymmetry
INVARIANT TypeOK
PROPERTY RunningFinishes
PROPERTY CancelledFileStays
PROPERTY ProcessedStays
CHECK_DEADLOCK FALSE
