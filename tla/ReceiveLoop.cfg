SPECIFICATION FairSpec
CONSTANTS
  Block = 2
  Chunk = 4
  MaxFrame = 9
  Length <- Lengths
  MaxSessions = 2
  MaxRequests = 2
  MaxExtra = 1
INVARIANTS
  BufferInStep
  
  NoFalseAlarm
PROPERTIES
  Frames
  LoopEnds
CHECK_DEADLOCK FALSE
