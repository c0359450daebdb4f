SPECIFICATION Spec
CONSTANTS
    h1 = h1
    h2 = h2
    menu = menu
    root = root
    channel = channel
    autoshare = autoshare
    x = x
    y = y
    Absent = Absent
    Keep = Keep
    Writers <- All
    Style <- AllStyle
    Keys <- MCKeys
    Values <- TwoValues
    MaxCuts = 1
SYMMETRY Symmetry
INVARIANTS
    TypeOK
    SettingsPreserved
    NeverMissing
