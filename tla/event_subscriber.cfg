CONSTANTS
    MaxSent = 4
SPECIFICATION Spec
INVARIANTS
    TypeOK
    ToldInOrder
PROPERTIES
    LossIsFinal
    EverythingTold
    CloseNoticed
