\* Two goroutines push small and large shards; the limiter is replaced once.
SPECIFICATION Spec
CONSTANTS
    c1 = c1
    c2 = c2
    Callers = {c1, c2}
    Sizes = {1, 3, 4}
    Capacity = 2
    MaxTime = 12
    MaxSets = 1
SYMMETRY Symmetric
INVARIANTS
    TypeOK
    WithinShare
CHECK_DEADLOCK FALSE
