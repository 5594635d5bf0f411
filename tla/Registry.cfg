SPECIFICATION MCSpec
CONSTANTS
    OID = {"o1", "o2", "o3"}
    TID = {t1, t2}
    Blank = ""
    Null = Null
    NoTenant = NoTenant
    ForeignId = {"7"}
    RowId = {1, 2, 3, 4}
    Scenario = {"stewards", "entities"}
    Trim <- MCTrim
    Lower <- MCLower
    UPN <- MCUPN
    Actor <- MCActor
    Name <- MCName
SYMMETRY TenantSymmetry
INVARIANTS
    TypeOK
    IdsIssuedInOrder
    ConstraintsNeverFire
    OneStandingPerUPN
    BindingIsFirst
    LogIsConsistent
    LinksFollowLog
PROPERTIES
    PermanentRecord
    InvitesAreHonoured
    TrailSpec
CHECK_DEADLOCK FALSE
