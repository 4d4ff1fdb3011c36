SPECIFICATION Spec
CONSTANTS
    Request = {r1, r2}
    Kid = {k1, k2}
    TTL = 2
    FetchTime = 1
    MaxTime = 5
    MaxFaults = 1
SYMMETRY Symmetry
INVARIANTS
    RetiredKeysFade
    PublishedKeyAccepted
CHECK_DEADLOCK FALSE
