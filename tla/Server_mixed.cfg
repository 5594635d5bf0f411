SPECIFICATION MCSpec
CONSTANTS
    OID = {"o1", "o2"}
    TID = {"t1", "t2"}
    Blank = ""
    Null = Null
    NoTenant = NoTenant
    Request = {r1, r2}
    ForeignId = {"7"}
    RowId = {1, 2}
    KeyConfigured = FALSE
    MaxAudit = 4
    Trim <- MCTrim
    Lower <- MCLower
    UPN <- MCUPN
    Actor <- MCActor
    SomeOp <- AllOp
    Bearer <- MCBearer
    Name <- MCName
SYMMETRY RequestSymmetry
INVARIANTS
    WriterIsCurrent
    TenantAgrees
PROPERTIES
    RegistrySpec
