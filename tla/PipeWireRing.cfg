SPECIFICATION FairSpec
CONSTANTS
  Capacity = 3
  IndexModulus = 12
  BlockMax = 2
  MaxFrames = 14
  BufferSizes <- MCBufferSizes
  RequestSizes <- MCRequestSizes
INVARIANTS
  TypeOK
  BacklogBounded
  NoDataRace
PROPERTIES
  PlaysInOrder
  FramesReachPlayback
  RefinesQueue
CHECK_DEADLOCK FALSE
