SPECIFICATION Spec
CONSTANTS
    Inst = {i1, i2, i3, i4}
    Caller = {c1, c2}
    CfgMinWarm = 2
    CfgMaxSize = 3
    IdleTimeout = 2
SYMMETRY Symmetry
INVARIANTS
    Accounted
    Capacity
    ExclusiveUse
PROPERTY ReapSparesFloor
