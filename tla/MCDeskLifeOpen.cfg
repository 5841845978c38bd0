SPECIFICATION Spec
CONSTANTS
    Desks <- OneDesk
    Copy <- TwoFiles
    Openable <- BothFiles
    First = "A"
    Interval = 1
    MaxEdits = 1
INVARIANT
    SavesGoHome
CHECK_DEADLOCK FALSE
