SPECIFICATION Spec
CONSTANTS
    c1 = c1
    c2 = c2
    c3 = c3
    Clients <- TwoClients
    Preserve = "no"
    MayFail = FALSE
    MayBeBusy = FALSE
    MaxCrashes = 1
    MaxHangs = 0
INVARIANT
    NoIdleTarget
