\* Two peers present invitations while a command and the redial loop run.
SPECIFICATION Spec
CONSTANTS
    w1 = w1
    m1 = m1
    j1 = j1
    j2 = j2
    h1 = h1
    h2 = h2
    d1 = d1
    c1 = c1
    Words = {w1}
    Mails = {m1}
    Peers = {j1, j2}
    Handlers = {h1, h2}
    Dialers = {d1}
    Commands = {c1}
    MaxRevokes = 1
    MaxDials = 1
    MaxFaults = 1
SYMMETRY Symmetric
INVARIANTS
    TypeOK
    SingleUse
    InvitationsKept
    RegistryFaithful
    BothSides
CHECK_DEADLOCK FALSE
