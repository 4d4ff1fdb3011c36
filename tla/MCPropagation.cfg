SPECIFICATION FairSpec
CONSTANTS
    Slug = {s1}
    Id = {d1, d2}
    Cfg = {c1, c2, c3}
    Supported = {c1, c2}
    Admin = {a1, a2}
    Ops = {"create", "patch", "delete", "put_cred", "delete_cred", "purge"}
    None = None
    MaxOps = 4
    MaxDrops = 1
    MaxRestarts = 1
INVARIANTS
    AgreesUnlessAmiss
PROPERTY CatchesUp
CHECK_DEADLOCK FALSE
