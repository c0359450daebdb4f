SPECIFICATION FairSpec
CONSTANTS
    c1 = c1
    c2 = c2
    c3 = c3
    Clients <- TwoClients
    Preserve = "restart"
    MayFail = TRUE
    MayBeBusy = TRUE
    MaxCrashes = 1
    MaxHangs = 1
INVARIANT
    LeftoverExplained
PROPERTY
    EveryoneEnds
