CONSTANTS
  Mod32 = 12
  Mod64 = 144
  MaxPayloadSize = 2
  RetxTimeout = 1
  CongestionControl = TRUE
  SendCapacity = 4
  ISN = 9
  MaxBytes = 4
  MaxWindow = 3
  MaxTick = 1
  MaxRetx = 1
  MaxDupAcks = 4
SPECIFICATION Spec
INVARIANTS RenoWindow NoStall
PROPERTY EmitsNewOrOldest
