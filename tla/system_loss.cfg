CONSTANTS
    UINT32_MAX = 3
    Sessions = {1}
    RawAccess = FALSE
    Interrupts = FALSE
    MaxFeed = 5
    Topics = {"timer", "run"}
    MaxChanges = 5
    MaxDrops = 1
    MaxFaults = 0
SPECIFICATION SystemSpec
INVARIANTS
    SystemTypeOK
    FreshUnlessLost
PROPERTIES
    NoSpuriousResync
