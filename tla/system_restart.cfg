CONSTANTS
    UINT32_MAX = 3
    Sessions = {1, 2, 3}
    RawAccess = FALSE
    Interrupts = FALSE
    MaxFeed = 3
    Topics = {"timer", "run"}
    MaxChanges = 3
    MaxDrops = 0
    MaxFaults = 1
SPECIFICATION SystemSpec
INVARIANTS
    FreshUnlessLost
PROPERTIES
    NoSpuriousReconnect
    CatchesUp
