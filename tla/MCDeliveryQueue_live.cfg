\* Every buddy is on the LAN.
SPECIFICATION LiveSpec
CONSTANTS
    b1 = b1
    b2 = b2
    s1 = s1
    s2 = s2
    w1 = w1
    w2 = w2
    d1 = d1
    d2 = d2
    NoBuddy = NoBuddy
    Buddies = {b1}
    Lan = {b1}
    Shards = {s1, s2}
    Backups = {w1}
    Flushes = {d1}
    MaxRuns = 2
    MaxFaults = 1
PROPERTY FlushedOnReconnect
CHECK_DEADLOCK FALSE
