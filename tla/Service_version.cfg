SPECIFICATION ServiceFairSpec
CONSTANTS
    Newest = 1
    Request = {r1}
    Drain = 1
    Burst = 2
    Size <- OneSize
INVARIANTS
    VersionIsReadable
