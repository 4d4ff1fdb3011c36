SPECIFICATION QuotaSpec
CONSTANTS
    Replica = {p1, p2}
    Org = {o1, o2}
    User = {u1, u2}
    Call = {c1, c2}
    Backends = {"memory", "redis"}
    OrgLimit = 2
    UserLimit = 1
    Window = 2
    Ahead = {0, 1}
    MaxTime = 3
    MaxCalls = 3
    MaxFaults = 1
    MaxSets = 1
SYMMETRY Symmetry
INVARIANTS
    WithinLimit
    OwnCallsOnly
CHECK_DEADLOCK FALSE
