SPECIFICATION Spec
CONSTANTS
    ann = ann
    tools = tools
    ops = ops
    group = group
    Username = {ann}
    RealmRole = {tools}
    Req = {h1, h2}
    MaxReqs = 4
    MaxFaults = 1
    Invite = {i1, i2}
    Offer <- MCOffer
    Group = {group}
    Mapping <- MCMapping
    MaxBearers = 3
SYMMETRY Symmetry
CHECK_DEADLOCK FALSE
INVARIANTS
    SingleUse
    StatusTellsAccount
    ReplacedStaysReplaced
    SuccessIsDone
    ConnectionAsAsked
