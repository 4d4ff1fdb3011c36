SPECIFICATION FairSpec
CONSTANTS
    Caller = {g1, g2}
    Closer = {k1}
    Process = {p1, p2}
    NoProcess = NoProcess
    Self = Self
    Unlocked = Unlocked
    MaxCalls = 3
    MaxCloses = 1
    MaxLines = 1
INVARIANTS
    NoStray
    HandshakeFirst
    NilOnlyAfterClose
PROPERTIES
    OwnAnswer
    CloseReturns
    CallsEnd
CHECK_DEADLOCK FALSE
