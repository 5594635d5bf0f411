SPECIFICATION MCSpec
CONSTANTS
    OID = {"o1", "o2", "o3"}
    TID = {"t1", "t2"}
    Blank = ""
    Null = Null
    NoTenant = NoTenant
    Scenario = {"stewards"}
    RowId = {1, 2, 3, 4}
    Name = {"x"}
    ForeignId = {}
    Trim <- MCTrim
    Lower <- MCLower
    UPN <- MCUPN
    Actor <- MCActor
PROPERTIES
    NothingUnrecorded
CHECK_DEADLOCK FALSE
