SPECIFICATION Spec
CONSTANTS
  Urls = {u1, u2}
  NoConn = NoConn
  MaxQueue = 1
INVARIANTS
  OffMeansOff
