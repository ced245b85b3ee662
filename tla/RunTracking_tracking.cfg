SPECIFICATION TrackingSpec
CONSTANTS
  MaxRuns = 2
  MaxLogs = 3
  MaxQueue = 3
INVARIANTS
  TrackingTypeOK
  CreditedOnce
  ViewSettles
PROPERTY
  RecordedRunRefused
