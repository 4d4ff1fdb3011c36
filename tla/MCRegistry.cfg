SPECIFICATION Spec
CONSTANTS
    Slug = {s1}
    User = {u1, u2}
    Role = {}
    Proc = {p1, p2}
    Inst = {i1, i2}
    Shared = Shared
    NoInst = NoInst
    MaxVer = 3
    MaxRot = 2
    MaxBus = 1
SYMMETRY Symmetry
INVARIANTS
    NothingLost
    OwnCredentials
    AppliedInFull
PROPERTY ImplementsLifecycle
CHECK_DEADLOCK FALSE
