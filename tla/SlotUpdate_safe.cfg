SPECIFICATION Spec
CONSTANTS
    u1 = u1
    u2 = u2
    Updaters <- TwoUpdaters
    Latest = 3
    Healthy <- GoodReleases
    ManualPick = FALSE
    SlowInstall = TRUE
    TornWrites = TRUE
    GrubMayFail = FALSE
    MaxCuts = 2
SYMMETRY Symmetry
INVARIANTS
    TypeOK
    FallbackIntact
    DefaultIsProven
    OneShotOnRecord
