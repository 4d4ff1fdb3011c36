SPECIFICATION FairSpec
CONSTANTS
    Op = {o1, o2}
    Faults = {"refused", "lost", "abandoned"}
    None = None
    NoRealm = NoRealm
    MaxReqs = 5
    MaxFaults = 3
INVARIANTS
    OneSaga
    StatusTellsRealm
PROPERTIES
    RetentionKept
    SettlesDown
CHECK_DEADLOCK FALSE
