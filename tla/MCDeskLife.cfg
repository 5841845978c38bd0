SPECIFICATION Spec
CONSTANTS
    Desks <- TwoDesks
    Copy <- TwoFiles
    Openable <- BothFiles
    First = "A"
    Interval = 1
    MaxEdits = 3
INVARIANTS
    LampTellsTruth
    RescueIsThere
    DocumentNamesTheDesk
    StandsDownRightly
CHECK_DEADLOCK FALSE
