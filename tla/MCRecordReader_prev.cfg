SPECIFICATION Spec
CONSTANTS
  Content <- FourChunks
  Targets = {29, 49}
  Hour = 16
  Width = 3
  Duration = 1
  MaxCalls = 2
CHECK_DEADLOCK FALSE
PROPERTIES PrevFound
