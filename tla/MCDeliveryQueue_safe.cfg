\* Two flushes overlap while a backup enqueues, with kills and write errors.
SPECIFICATION Spec
CONSTANTS
    b1 = b1
    b2 = b2
    s1 = s1
    s2 = s2
    w1 = w1
    w2 = w2
    d1 = d1
    d2 = d2
    NoBuddy = NoBuddy
    Buddies = {b1, b2}
    Lan = {b1, b2}
    Shards = {s1}
    Backups = {w1}
    Flushes = {d1, d2}
    MaxRuns = 2
    MaxFaults = 1
SYMMETRY Symmetric
INVARIANTS
    TypeOK
    QueueDurable
PROPERTY ImplementsDelivery
CHECK_DEADLOCK FALSE
