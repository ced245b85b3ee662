SPECIFICATION Spec
CONSTANTS
  Gains = {g1}
  Window = 2
  MinSamples = 1
  WriteFaults = FALSE
  Freqs = {0, 1}
  Readings = {1}
  Junk = junk
  Stray = stray
  NoFreqs = NoFreqs
  NoLock = NoLock
  Settle = 1
  Timeout = 3
  Thicknesses = {0}
  NoThickness = NoThickness
  Targets = {0}
  Sent = {"mode", "hold", "agc", "relock", "track"}
  MaxDeferred = 0
INVARIANTS
  RelockKeepsRunMode
  OpenLoopDriveIsManual
