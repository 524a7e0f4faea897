\* Two owners push to one holder over two streams.
SPECIFICATION LiveSpec
CONSTANTS
    a = a
    b = b
    h = h
    s1 = s1
    s2 = s2
    f1 = f1
    f2 = f2
    None = None
    Torn = Torn
    Manifest = Manifest
    Nodes = {a, b, h}
    Links <- Circle
    Registries <- FirstKnown
    Shards = {f1, f2}
    Unsafe = {f2}
    Streams = {s1, s2}
    Versions = {1, 2}
    MaxFaults = 1
    MaxSends = 2
    MaxTrust = 1
INVARIANTS
    TypeOK
    HeldAsAcked
    OnlyOwn
PROPERTY RotIsFlagged
CHECK_DEADLOCK FALSE
