SPECIFICATION Spec
CONSTANTS
  Controls <- MCControls
  Faders = {"strip"}
  Values = {0, 1}
  Dark = 0
  Unknown = Unknown
  Frame = 2
  Gap = 1
  Resync = 2
  Silence = 2
  Probe = 1
  FirstAttempt = 1
  Ceiling = 2
  Presence = 2
  QuickReplug = FALSE
  Elapsed = {0, 2}
  MaxFaults = 2
INVARIANTS PictureIsTrue AskedOnce LearnedIsEaten
PROPERTY PictureArrives
