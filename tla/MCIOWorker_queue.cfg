SPECIFICATION Spec
CONSTANTS
  Shapes <- OneShape
  MaxFrames = 2
  MaxChunks = 4
  MaxFlushes = 1
  MaxFaults = 0
  Drives = {"C", "D"}
  QueueMax = 3
  MaxBufferSize = 7
  MemoryMax = 1
  InitSize = 2
  NomalSize = 2
  BusySize = 2
  IndexSize = 200
INVARIANTS QueueBounded FramesAccounted 
