SPECIFICATION Spec
CONSTANTS
    c1 = c1
    c2 = c2
    c3 = c3
    Clients <- MCClients
    Preserve = "no"
    MayFail = TRUE
    MayBeBusy = TRUE
    MaxCrashes = 2
    MaxHangs = 0
SYMMETRY Symmetry
INVARIANTS
    TypeOK
    RefsCountOwners
    OwnedIsServed
    TargetJournalled
PROPERTIES
    ImplementsLease
