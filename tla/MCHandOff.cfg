SPECIFICATION HandOffSpec
CONSTANTS
    Payload = {a, b}
    Decodable = {a, b}
    Capacity = 2
    Cells = 2
    Modulus = 4
    Nothing = nothing
    WordsPerSlot = 2
    SequenceModulus = 5
    Callers = {c1, c2}
    Tick = tick
    Nobody = nobody
    MaxSubscribers = 2
    SetUp = 1
    MaxId = 3
    Wide = 8
INVARIANTS
    NoSharedSlot
    SlotsArePermuted FrameIsWhole
    RollIsExact NoLostWakeUp
PROPERTIES
    ImplementsFifo DrainEnds
    ImplementsLatest UnreadIsTaken
    ChangesTakeEffect
