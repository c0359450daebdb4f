SPECIFICATION FairSpec
CONSTANTS
    c1 = c1
    c2 = c2
    wheel = wheel
    webcam = webcam
    Clients <- MCClients
    Busids <- OneBusid
    Kind <- OneKind
    Preserve = "restart"
    MaxCrashes = 2
    MaxHangs = 1
    MaxOps = 2
INVARIANT
    NoOrphanExport
PROPERTIES
    ClosingReleases
    SyncEnds
