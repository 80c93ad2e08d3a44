SPECIFICATION ArchivesSpec
CONSTANTS
    Wheels <- MCWheels
    Sdists <- MCSdists
INVARIANTS OnlyKnownGaps
CHECK_DEADLOCK FALSE
