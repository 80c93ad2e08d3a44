CONSTANTS
    UINT32_MAX = 3
    Sessions = {1, 2}
    RawAccess = TRUE
    Interrupts = TRUE
    MaxFeed = 2
SPECIFICATION Spec
INVARIANTS
    OneSession
    NoSocketLeak
PROPERTIES
    NothingWhileDegraded
    ContractSpec
