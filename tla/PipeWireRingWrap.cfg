SPECIFICATION Spec
CONSTANTS
  Capacity = 3
  IndexModulus = 16
  BlockMax = 2
  MaxFrames = 22
  BufferSizes <- MCBufferSizes
  RequestSizes <- MCRequestSizes
PROPERTY PlaysInOrder
