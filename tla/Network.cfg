CONSTANTS
  Mod32 = 16
  Mod64 = 64
  MaxPayloadSize = 1
  RetxTimeout = 1
  CongestionControl = FALSE
  MaxRetxAttempts = 0
  LingerFactor = 0
  UInt16Max = 15
  ToSend <- OneByte
  IsnOf <- Isns
  SendCap = 1
  RecvCap = 2
  NetCapacity = 2
  QueueBound = 0
  Lossy = FALSE
  Reorders = TRUE
  Repeats = TRUE
SPECIFICATION Spec
CHECK_DEADLOCK FALSE
INVARIANTS StreamsDelivered AcksAreTrue OneEndLingers
