SPECIFICATION FairSpec
CONSTANTS
  Broadcast = Broadcast
  Unknown = Unknown
  Garbled = Garbled
  ArpEntryTtl = 3
  ArpResponseTtl = 2
  Station = {"a", "b"}
  Absent = {}
  MaxDatagrams = 3
  MaxRestarts = 1
  MaxOnWire = 2
  Lossy = TRUE
INVARIANTS TypeOK WaitsOnOpenRequest DeliveredInOrder
PROPERTIES RequestsSpaced NoneWaitsForEver
CHECK_DEADLOCK FALSE
