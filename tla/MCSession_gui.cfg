\* Two calls of the GUI at a time, one of which may stop the daemon.
SPECIFICATION LiveSpec
CONSTANTS
    c1 = c1
    c2 = c2
    p1 = p1
    p2 = p2
    family = family
    Calls = {c1, c2}
    Passwords = {p1, p2}
    Names = {family}
    MaxKeys = 2
    MaxSeeds = 2
    MaxCalls = 4
    MaxFaults = 1
    CliOps = {}
    GuiOps = {"unlock", "serve", "watch"}
    Ports = {4001, 4002}
    MaxSignals = 1
INVARIANTS
    TypeOK
    ServeTracked
PROPERTY CallsReturn
CHECK_DEADLOCK FALSE
