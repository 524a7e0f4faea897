\* StartWatch in the GUI.
SPECIFICATION LiveSpec
CONSTANTS
    c1 = c1
    c2 = c2
    p1 = p1
    p2 = p2
    family = family
    Calls = {c1, c2}
    Passwords = {p1}
    Names = {family}
    MaxKeys = 1
    MaxSeeds = 1
    MaxCalls = 3
    MaxFaults = 0
    CliOps = {}
    GuiOps = {"unlock", "watch"}
    Ports = {}
    MaxSignals = 0
PROPERTY WatchCallReturns
CHECK_DEADLOCK FALSE
