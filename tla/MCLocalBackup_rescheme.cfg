\* The same content backed up with a second Reed-Solomon scheme.
SPECIFICATION Spec
CONSTANTS
    f1 = f1
    f2 = f2
    c1 = c1
    c2 = c2
    c3 = c3
    p1 = p1
    p2 = p2
    None = None
    Missing = Missing
    Torn = Torn
    Paths = {f1}
    Contents = {c1}
    NumChunks <- Chunks
    Schemes <- TwoSchemes
    Procs = {p1}
    MaxVersions = 1
    MaxShards = 5
    MaxIds = 2
    MaxFaults = 0
SYMMETRY Symmetric
INVARIANT AllVersionsRestorable
CHECK_DEADLOCK FALSE
