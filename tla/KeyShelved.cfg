SPECIFICATION LoadedSpec
CONSTANTS
    k1 = k1
    k2 = k2
    Requests = {r1}
    Keys <- AllKeys
    KeyLists <- OneKey
    IndexPeriod = 1
    Answers <- AllAnswers
    FailureThreshold = 3
    HalfOpenMaxCalls = 3
    FailureCap = 3
PROPERTIES
    KeyNotShelved
