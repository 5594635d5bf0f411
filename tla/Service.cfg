SPECIFICATION ServiceFairSpec
CONSTANTS
    Newest = 3
    Request = {r1, r2}
    Drain = 1
    Burst = 2
    Size <- MCSize
INVARIANTS
    ServesMigrated
    FailsOnlyOnRuins
PROPERTIES
    StopEnds
    ImplementsProcess
    ServesOrIsGivenUp
