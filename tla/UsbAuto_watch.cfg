SPECIFICATION FairSpec
CONSTANTS
    wheel = wheel
    mic = mic
    None = None
    Busids <- OnePort
    GiveUp = 2
    QuickReplug = FALSE
    ToolInstalled = TRUE
    MaxPlugs = 2
    MaxSettings = 1
    MaxOutages = 1
    MaxTrouble = 1
INVARIANTS
    TypeOK
    MemoryIsKernel
    NoHostage
    NothingOverlooked
PROPERTIES
    Converges
    NoLimbo
    HandsBack
CHECK_DEADLOCK FALSE
