\* Two calls at a time, commands or calls of the GUI, on one keystore.
SPECIFICATION Spec
CONSTANTS
    c1 = c1
    c2 = c2
    p1 = p1
    p2 = p2
    family = family
    Calls = {c1, c2}
    Passwords = {p1, p2}
    Names = {family}
    MaxKeys = 3
    MaxSeeds = 2
    MaxCalls = 3
    MaxFaults = 1
    CliOps = {"init", "recover", "phrase", "backup", "add", "remove"}
    GuiOps = {"unlock", "passwd"}
    Ports = {4001}
    MaxSignals = 0
SYMMETRY Symmetric
INVARIANTS
    PhraseOfIdentity
    IdentityKept
    ChangesKept
    ManifestReadable
    SessionOpens
CHECK_DEADLOCK FALSE
