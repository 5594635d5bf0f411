SPECIFICATION MCSpec
CONSTANTS
    OID = {"o1", "o2"}
    TID = {"t1"}
    Blank = ""
    Null = Null
    NoTenant = NoTenant
    Name = {"", " x", "x"}
    ForeignId = {""}
    RowId = {1, 2}
    Width = 2
    MaxId = 120
    Alphabet = {"X", "x", "-", "+", "0", "1", "9", " "}
    MaxLen = 5
    Scenario = {"texts"}
    Field <- MCField
    FieldName <- MCFieldName
    Setting <- MCSetting
    IdText <- MCIdText
    Trim <- MCTrim
    Lower <- MCLower
    UPN <- MCUPN
    Actor <- MCActor
INVARIANTS
    OnlyDocumentedIsAccepted
CHECK_DEADLOCK FALSE
