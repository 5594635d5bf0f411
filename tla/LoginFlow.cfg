SPECIFICATION MCSpec
CONSTANTS
    Tab = {tabA, tabB}
    User <- ThreeUser
    ReturnTo = {"/", "/x"}
    Local = {"/", "/x"}
    Home = "/"
    NoTenant = NoTenant
    None = None
    LoginMaxAge = 1
    SessionMaxAge = 1
    MaxTime = 2
    MaxAttempts = 3
    MaxKey = 1
INVARIANTS
    SessionsAreOfTheTenant
    CodesMeetTheirAttempt
PROPERTIES
    LandsWhereAsked
    ExchangesAreInTime
