SPECIFICATION Spec
CONSTANTS
    Fixtures = {1, 2, 3}
    Types = {1, 2}
    Groups = {1, 2}
    Marks = {1, 2}
    Presets = {1, 2}
    Lists = {1, 2}
    Executors = {1, 2}
    CueNumbers = {1, 2}
    Addresses = {1, 2}
    Channels = 2
    Footprints = {0, 1, 2}
    MaxMarks = 1
    MaxValue = 1
    Default = 0
    Levels = {0, 1}
    Rest = 0
    Full = 1
    Settings = {Usual, Other}
    Usual = Usual
    Other = Other
    Absent = Absent
    Capacity = 2
    Repertoires <- MCRepertoires
INVARIANT HistoryIsALine
INVARIANT JournalFits
PROPERTY EditsComeBack
PROPERTY StepsAreWhole
