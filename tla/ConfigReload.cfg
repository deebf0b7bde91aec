SPECIFICATION Spec
CONSTANTS
    t1 = t1
    t2 = t2
    Loop = Loop
    Unusable = Unusable
    TimerReloads <- Timers
    MaxEdits = 2
    MaxEvents = 1
    PortFlag = 8080
    k1 = k1
    k2 = k2
    k3 = k3
    Keys <- ThreeKeys
    NoKey = NoKey
    FileConfigs <- ThreeFiles
    Envs <- TwoEnvs
INVARIANTS
    TypeOK
    PublishedComplete
PROPERTIES
    NeverBack
    SettledFileApplied
CHECK_DEADLOCK FALSE
