SPECIFICATION Spec
CONSTANTS
  Readings <- MCReadings
  Offered <- MCOffered
  Nothing = Nothing
  HISTORY_S = 2
  Criteria <- MCCriteria
  DefaultCriteria <- MCDefault
  LongestHold = 1
  REARM_HZ = 4
  DEPART_S = 2
  MIN_POINT_SECONDS = 2
  STALE_S = 1
  MaxId = 2
INVARIANTS
  TypeOK
  IdsNeverReused
  RememberedIsListed
PROPERTY
  PlateauOnce
