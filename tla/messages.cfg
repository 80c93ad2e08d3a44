CONSTANTS
    UINT32_MAX = 5
    INT32_MAX = 3
    INT64_MAX = 9
    Loads <- JsonLoads
    Value <- JsonValue
    Calls <- MCCalls
    Typed <- MCTyped
    Answers <- MCAnswers
    EventFrames <- MCEventFrames
    Pictures <- MCPictures
SPECIFICATION Spec
INVARIANTS
    OneBranch
    ResultFitsMethod
    EventReadable
    SentAsCalled
    NothingIgnored
    IconsReadable
CHECK_DEADLOCK FALSE
