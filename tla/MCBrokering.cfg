SPECIFICATION BrokerSpec
CONSTANTS
    Caller = {h1, h2, h3}
    Cfg = {c1, c2}
    Mapping = {m1}
    Secret = {s1, s2}
    None = None
    MaxReqs = 4
    MaxFaults = 1
SYMMETRY Symmetry
INVARIANTS
    RetryIsFresh
    LinkedUnlessAmiss
CHECK_DEADLOCK FALSE
