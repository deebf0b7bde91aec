SPECIFICATION Spec
CONSTANTS
    k1 = k1
    k2 = k2
    Requests = {r1, r2}
    Keys <- AllKeys
    KeyLists <- TwoKeysOrOne
    IndexPeriod = 2
    Answers <- AllAnswers
    FailureThreshold = 1
    HalfOpenMaxCalls = 1
    FailureCap = 1
SYMMETRY RequestSymmetry
INVARIANTS
    TypeOK
    ShelvedOnlyByUnrecorded
    EveryKeyTried
    ParkedKeyDrains
