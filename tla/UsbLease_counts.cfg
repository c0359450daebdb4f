SPECIFICATION Spec
CONSTANTS
    c1 = c1
    c2 = c2
    wheel = wheel
    webcam = webcam
    Clients <- MCClients
    Busids <- MCBusids
    Kind <- MCKind
    Preserve = "restart"
    MaxCrashes = 1
    MaxHangs = 0
    MaxOps = 2
SYMMETRY Symmetry
INVARIANTS
    TypeOK
    RefsCountHolders
    JournalIsLease
PROPERTIES
    LastOwnerWithdraws
    ImplementsLease
