SPECIFICATION Spec
CONSTANTS
  Broadcast = Broadcast
  Unknown = Unknown
  Garbled = Garbled
  ArpEntryTtl = 24
  ArpResponseTtl = 8
  AddressBits = 3
  NoRoute = NoRoute
  Direct = Direct
  DefaultTtl = 3
  ClientIp <- MCClientIp
  ServerIp <- MCServerIp
  ClientGate <- MCClientGate
  ServerGate <- MCServerGate
  ClientRouter <- MCClientRouter
  ServerRouter <- MCServerRouter
  LanPrefix = 2
  ServerPort = 9
  Nobody = Nobody
  Hello = Hello
  Mod32 = 16
  Mod64 = 64
  MaxPayloadSize = 1
  RetxTimeout = 4
  CongestionControl = FALSE
  MaxRetxAttempts = 8
  LingerFactor = 0
  UInt16Max = 15
  Capacity = 2
  Isn = 14
  MaxData = 1
  MaxLosses = 1
  MaxRuns = 2
INVARIANT OneConnection
PROPERTY Connects
CHECK_DEADLOCK FALSE
