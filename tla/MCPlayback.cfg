SPECIFICATION Spec
CONSTANTS
    Lists <- ThreeLists
    Slots <- OneHead
    Htp <- Dim
    Home <- AtHome
    Aim <- Pan
    Lead = "follow"
    Members <- Dim
    Full = 4
    Unity = 2
    Kinds <- Played
    DeskKinds <- AtTheDesk
    Levels <- TwoLevels
    Speeds <- TwoSpeeds
    MaxMissed = 1
    TapWindow = 3
    MaxClock = 5
    MaxCommands = 3
INVARIANTS MergeIsExact
PROPERTIES LookIsTheCue NothingJumps FollowWaits LeavesTheMerge
CHECK_DEADLOCK FALSE
