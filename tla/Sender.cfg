CONSTANTS
  Mod32 = 16
  Mod64 = 128
  MaxPayloadSize = 2
  RetxTimeout = 2
  CongestionControl = FALSE
  SendCapacity = 4
  ISN = 13
  MaxBytes = 5
  MaxWindow = 4
  MaxTick = 2
  MaxRetx = 2
  MaxDupAcks = 4
SPECIFICATION FairSpec
INVARIANTS TypeOK InFlightExact TimerGuardsOutstanding SequenceMatchesStream BackoffExponential
PROPERTIES WindowRespected OldestRetransmitted
