SPECIFICATION FairSpec
CONSTANTS
  Urls = {u1}
  NoConn = NoConn
  MaxQueue = 1
INVARIANTS
  TypeOK
  OffOnceSeen
  OneSubscription
  OneStartPerEdge
PROPERTIES
  MeasurementsCarryTheLevel
  StatusCatchesUp
