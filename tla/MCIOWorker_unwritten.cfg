SPECIFICATION Spec
CONSTANTS
  Shapes <- TwoFrames
  MaxFrames = 2
  MaxChunks = 2
  MaxFlushes = 1
  MaxFaults = 1
  Drives = {"C"}
  QueueMax = 3
  MaxBufferSize = 5
  MemoryMax = 2
  InitSize = 3
  NomalSize = 3
  BusySize = 3
  IndexSize = 100
INVARIANT UnwrittenNotSaved
