SPECIFICATION Spec
CONSTANTS
  Threads = {request}
  Loop = loop
  Pushed = {p0, p1}
  Kept = {k0}
  DefaultPushed = p0
  DefaultKept = k0
  Names = {crystal}
  Cals = {c0, c1}
  Blank = c0
  None = None
  Absent = absent
  Empty = empty
  Torn = torn
  CardFull = TRUE
  MaxTotal = 1
  UploadTotals = {0}
INVARIANT
  ServerKeepsServing
