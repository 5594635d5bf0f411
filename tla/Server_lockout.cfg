SPECIFICATION MCSpec
CONSTANTS
    OID = {"o1", "o2"}
    TID = {"t1", "t2"}
    Blank = ""
    Null = Null
    NoTenant = NoTenant
    Request = {r1, r2}
    ForeignId = {}
    Name = {}
    RowId = {1, 2}
    Bearer = {}
    KeyConfigured = TRUE
    MaxAudit = 5
    Trim <- MCTrim
    Lower <- MCLower
    UPN <- MCUPN
    Actor <- MCActor
    SomeOp <- StewardOp
SYMMETRY RequestSymmetry
INVARIANTS
    SomeStewardRemains
CHECK_DEADLOCK FALSE
