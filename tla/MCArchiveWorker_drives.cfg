SPECIFICATION Spec
CONSTANTS
  Drives = {d1, d2}
  Streams = {s1}
  Clients = {c1, c2}
  d1 = d1
  d2 = d2
  s1 = s1
  c1 = c1
  c2 = c2
  MaxObjects = 2
  MaxCalls = 5
  MayFail = TRUE
SYMMETRY Alike
CHECK_DEADLOCK FALSE
INVARIANTS TypeOK DeletedNotProcessed ReporterAlive 
