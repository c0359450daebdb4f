SPECIFICATION FairSpec
CONSTANTS
    u1 = u1
    u2 = u2
    Updaters <- OneUpdater
    Latest = 3
    Healthy <- GoodReleases
    ManualPick = FALSE
    SlowInstall = TRUE
    TornWrites = FALSE
    GrubMayFail = TRUE
    MaxCuts = 1
INVARIANT
    InstalledIsTrue
PROPERTIES
    PendingResolves
    HangRecovers
