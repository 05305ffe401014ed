\* registry: two drives, two streams, two threads of the application, eight calls.
SPECIFICATION Spec
CONSTANTS
  d1 = d1
  d2 = d2
  s1 = s1
  s2 = s2
  c1 = c1
  c2 = c2
  Drives <- MCDrives
  Streams <- MCStreams
  Clients <- MCClients
  MaxWorkers = 3
  MaxObjects = 3
  MaxCalls = 8
  MaxPaths = 2
SYMMETRY MCSymmetry
INVARIANTS RegistryAgrees NullsExplained PathsAgree
\* Nothing follows an undefined use, and the calls are bounded.
CHECK_DEADLOCK FALSE
