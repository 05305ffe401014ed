SPECIFICATION FairSpec
CONSTANTS
  Drives = {d1}
  Streams = {s1, s2}
  Clients = {c1, c2}
  d1 = d1
  s1 = s1
  s2 = s2
  c1 = c1
  c2 = c2
  MaxObjects = 2
  MaxCalls = 4
  MayFail = FALSE
CHECK_DEADLOCK FALSE
PROPERTIES ReleaseServed DestructorEnds DeleteReturns
