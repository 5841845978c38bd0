CONSTANTS
    Values = {u, v}
    Capacity = 2
    MaxEdition = 2
SPECIFICATION Spec
INVARIANT OrderIsKept
INVARIANT NewestBodyRuns
INVARIANT NoGhostChannels
PROPERTY BodyArrives
