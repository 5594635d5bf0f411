SPECIFICATION MCSpec
CONSTANTS
    OID = {"o1", "o2"}
    TID = {"t1"}
    Blank = ""
    Null = Null
    NoTenant = NoTenant
    Name = {"x", "y"}
    ForeignId = {"7"}
    RowId = {1}
    Base = 2
    Width = 2
    SecondsPerDay = 2
    LastDay = 3
    DefaultAuditLimit = 2
    MaxAuditLimit = 3
    Times = {1, 2, 4, 6, 8, 15}
    ClockMayStep = FALSE
    Trim <- MCTrim
    Lower <- MCLower
    UPN <- MCUPN
    Actor <- MCActor
    Queries <- JustAll
    Opened <- AllPages
    Scenario = {"order"}
INVARIANTS
    CsvIsTheFullSet
CHECK_DEADLOCK FALSE
