SPECIFICATION FairSpec
CONSTANTS
  Content <- FourChunks
  Targets = {19, 27, 40}
  Hour = 16
  Width = 3
  Duration = 1
  MaxCalls = 2
CHECK_DEADLOCK FALSE
INVARIANTS TypeOK ForwardOnly SkipsOnlyTheNew Decodable
PROPERTIES SeekLands CatchesUp
