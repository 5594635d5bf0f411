SPECIFICATION MCSpec
CONSTANTS
    OID = {"o1", "o2", "o3"}
    TID = {"t1", "t2"}
    Blank = ""
    Null = Null
    NoTenant = NoTenant
    Name = {"x"}
    ForeignId = {"7"}
    RowId = {1, 2, 3, 4}
    Scenario = {"gate", "loss"}
    Trim <- MCTrim
    Lower <- MCLower
    UPN <- MCUPN
    Actor <- MCActor
INVARIANTS
    SomeStewardRemains
    EveryRecoveryIsConsistent
CHECK_DEADLOCK FALSE
