CONSTANTS
    UINT32_MAX = 3
    Sessions = {1, 2}
    RawAccess = FALSE
    Interrupts = FALSE
    MaxFeed = 4
SPECIFICATION Spec
INVARIANTS
    TypeOK
    OneSession
    FeedContiguous
    NoSocketLeak
    SnapshotOneSession
    UsableConnections
PROPERTIES
    NothingWhileDegraded
    RecoveryLadder
    ContractSpec
