SPECIFICATION RemoteSpec
CONSTANTS
    Call = {c1, c2}
    MaxExpiries = 2
    MaxFaults = 1
INVARIANTS
    ExcusedFailure
    ExecutedOnce
PROPERTY SessionSettles
