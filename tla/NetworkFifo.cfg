CONSTANTS
  Mod32 = 16
  Mod64 = 64
  MaxPayloadSize = 1
  RetxTimeout = 1
  CongestionControl = FALSE
  MaxRetxAttempts = 1
  LingerFactor = 0
  UInt16Max = 15
  ToSend <- TwoBytes
  IsnOf <- Isns
  SendCap = 2
  RecvCap = 1
  NetCapacity = 2
  QueueBound = 1
  Lossy = TRUE
  Reorders = FALSE
  Repeats = FALSE
SPECIFICATION Spec
CHECK_DEADLOCK FALSE
INVARIANTS NoOverrun StreamsDelivered
PROPERTY FollowsDiagram
