SPECIFICATION Spec
CONSTANTS
  Shapes <- MixedShapes
  MaxFrames = 2
  MaxChunks = 3
  MaxFlushes = 1
  MaxFaults = 1
  Drives = {"C"}
  QueueMax = 3
  MaxBufferSize = 5
  MemoryMax = 1
  InitSize = 3
  NomalSize = 3
  BusySize = 4
  IndexSize = 70
INVARIANTS TypeOK FramesAccounted EntriesLocateBlocks SavedIsFindable
PROPERTY FailureIsFinal
