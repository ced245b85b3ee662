SPECIFICATION Spec
CONSTANTS
  Stamps = {t1}
  NoBase = NoBase
  NoPart = NoPart
  Faults = TRUE
  MaxRuns = 2
  MaxParts = 3
  MaxFiles = 3
  MaxNews = 2
INVARIANT FailureReported
