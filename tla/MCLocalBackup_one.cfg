\* One operation at a time, with edits, kills and failed writes.
SPECIFICATION Spec
CONSTANTS
    f1 = f1
    f2 = f2
    c1 = c1
    c2 = c2
    c3 = c3
    p1 = p1
    p2 = p2
    None = None
    Missing = Missing
    Torn = Torn
    Paths = {f1, f2}
    Contents = {c1, c2}
    NumChunks <- Chunks
    Schemes <- OneScheme
    Procs = {p1}
    MaxVersions = 1
    MaxShards = 3
    MaxIds = 3
    MaxFaults = 2
SYMMETRY Symmetric
INVARIANTS
    TypeOK
    EntriesBacked
    VersionsUnique
    SingleSchemeRestorable
    CatalogueComplete
PROPERTY LatestNeverRegresses
CHECK_DEADLOCK FALSE
