CONSTANTS
  Capacity = 3
  MaxWritten = 6
  MaxBuffers = 4
SPECIFICATION Spec
INVARIANT PeekAgrees
PROPERTY ImplementsQueue
