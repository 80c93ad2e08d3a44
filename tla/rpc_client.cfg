CONSTANTS
    UINT32_MAX = 2
    Sessions = {1, 2}
    Methods = {"GET_RUN", "TIMER"}
    MaxCalls = 4
    MaxInterrupts = 2
SPECIFICATION Spec
INVARIANTS
    TypeOK
    AnswerMatchesCall
    ToldTheTruth
    NoLateAnswer
PROPERTIES
    OutcomeSpec
