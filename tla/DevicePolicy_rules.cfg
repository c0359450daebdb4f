SPECIFICATION FairSpec
CONSTANTS
    Busids <- MCBusids
    Models <- MCModels
    Describe <- MCDescribe
    AtBoot <- MCAtBoot
    Mounted <- MCMounted
    Lists <- MCLists
    Families <- Inet
    Nothing = Nothing
    NoId = NoId
    MaxPlugs = 3
    MaxSettings = 1
    MaxRoutes = 2
INVARIANTS
    TypeOK
    BootStays
PROPERTIES
    CarrierStays
    SharedStays
    Settles
CHECK_DEADLOCK FALSE
