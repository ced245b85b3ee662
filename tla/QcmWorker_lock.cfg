SPECIFICATION Spec
CONSTANTS
  Gains = {g1, g2}
  Window = 1
  MinSamples = 1
  WriteFaults = TRUE
  Freqs = {0, 1}
  Readings = {1}
  Junk = junk
  Stray = stray
  NoFreqs = NoFreqs
  NoLock = NoLock
  Settle = 1
  Timeout = 2
  Thicknesses = {0}
  NoThickness = NoThickness
  Targets = {0}
  Sent = {"gain", "freq"}
  MaxDeferred = 1
SYMMETRY GainSymmetry
INVARIANTS
  TypeOK
  LockingHasAttempt
  IntegratorsFollowAttempt
  StartFreqsAreResonances
  HeldBackByAttempt
PROPERTY
  RunLifecycleHolds
