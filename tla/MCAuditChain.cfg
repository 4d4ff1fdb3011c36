SPECIFICATION Spec
CONSTANTS
    MaxEvents = 4
    MaxCrashes = 2
INVARIANTS
    AcknowledgedKept
    NoFalseAlarm
PROPERTY ImplementsLedger
