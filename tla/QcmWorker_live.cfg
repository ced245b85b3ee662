SPECIFICATION FairSpec
CONSTANTS
  Gains = {g1}
  Window = 1
  MinSamples = 1
  WriteFaults = TRUE
  Freqs = {1}
  Readings = {1}
  Junk = junk
  Stray = stray
  NoFreqs = NoFreqs
  NoLock = NoLock
  Settle = 1
  Timeout = 2
  Thicknesses = {0, 1}
  NoThickness = NoThickness
  Targets = {0, 1}
  Sent = {"target", "limits"}
  MaxDeferred = 1
PROPERTIES
  AttemptEnds
  TargetFlagSurvivesDips
