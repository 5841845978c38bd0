SPECIFICATION Spec
CONSTANTS
  Controls <- MCTwoFaders
  Faders = {"strip", "main"}
  Values = {0, 1}
  Dark = 0
  Unknown = Unknown
  Frame = 2
  Gap = 1
  Resync = 2
  Silence = 2
  Probe = 1
  FirstAttempt = 1
  Ceiling = 2
  Presence = 2
  QuickReplug = FALSE
  Elapsed = {0, 2}
  MaxFaults = 2
INVARIANT HandIsLeftAlone
