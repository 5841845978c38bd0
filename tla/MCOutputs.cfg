SPECIFICATION Spec
CONSTANTS
    Rows <- TwoRows
    Receivers = {r1, r2}
    Looks = {dark, lit}
    Dark = dark
    Slots <- TwoSlots
    Offered <- NetworkAndCable
    Places = 1
    Refresh = 3
    MaxDelay = 2
    Timeout = 1
INVARIANTS RigRuns GreenMeansHeld AnswersAreCurrent
PROPERTIES ReconcileEnds
CHECK_DEADLOCK FALSE
