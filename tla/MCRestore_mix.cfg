\* Two schemes over one content: every mixture a backup under way, or a late
\* delivery, can leave.
SPECIFICATION Spec
CONSTANTS
    b1 = b1
    Here = Here
    None = None
    Bad = Bad
    NoFile = NoFile
    Schemes <- TwoSchemes
    Chunks = 2
    Buddies = {b1}
    MaxVersions = 2
    MaxFaults = 1
    Fragile = {3}
INVARIANTS
    TypeOK
    RestoredIsRecorded
    ToleratesLoss
CHECK_DEADLOCK FALSE
