SPECIFICATION Spec
CONSTANTS
  Mod32 = 16
  Mod64 = 64
  MaxPayloadSize = 2
  RetxTimeout = 1
  CongestionControl = FALSE
  MaxRetxAttempts = 0
  LingerFactor = 1
  UInt16Max = 15
  PairCapacity = 1
  CopyCapacity = 1
  SendCap = 2
  RecvCap = 3
  Isn = 5
  PeerIsn = 9
  ToType <- MCToType
  ToSend <- MCToSend
  InputEnd = "file"
  Faults = {"reset", "abort"}
INVARIANTS DiesOnlyOfFailure BytesDelivered
PROPERTY ProgramEnds
CHECK_DEADLOCK FALSE
