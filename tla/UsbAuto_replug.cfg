SPECIFICATION FairSpec
CONSTANTS
    wheel = wheel
    mic = mic
    None = None
    Busids <- OnePort
    GiveUp = 2
    QuickReplug = TRUE
    ToolInstalled = TRUE
    MaxPlugs = 3
    MaxSettings = 0
    MaxOutages = 0
    MaxTrouble = 0
PROPERTY
    Converges
CHECK_DEADLOCK FALSE
