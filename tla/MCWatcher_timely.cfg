\* fire runs within the debounce time.
SPECIFICATION Spec
CONSTANTS
    p1 = p1
    p2 = p2
    t1 = t1
    t2 = t2
    t3 = t3
    t4 = t4
    None = None
    Paths = {p1, p2}
    Timers = {t1, t2, t3, t4}
    Debounce = 2
    MaxLag = 1
    MaxGen = 2
SYMMETRY Symmetric
INVARIANTS
    TypeOK
    ArmedIsCurrent
    ChangesHandled
PROPERTY Debounced
