SPECIFICATION FairSpec
CONSTANTS
    Slug = {s1, s2}
    User = {u1}
    Role = {r1}
    Proc = {p1}
    Inst = {i1, i2}
    Shared = Shared
    NoInst = NoInst
    MaxVer = 2
    MaxRot = 1
    MaxBus = 1
INVARIANT OrderMatches
PROPERTIES
    RBACOnCall
    DroppedIsClosed
CHECK_DEADLOCK FALSE
