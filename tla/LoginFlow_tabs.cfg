SPECIFICATION MCQuietSpec
CONSTANTS
    Tab = {tabA, tabB}
    User <- ThreeUser
    ReturnTo = {"/", "/x", "//y"}
    Local = {"/", "/x"}
    Home = "/"
    NoTenant = NoTenant
    None = None
    LoginMaxAge = 1
    SessionMaxAge = 1
    MaxTime = 2
    MaxAttempts = 2
    MaxKey = 1
PROPERTIES
    PromptLoginsLand
