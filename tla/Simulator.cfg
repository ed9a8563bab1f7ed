SPECIFICATION Spec
CONSTANTS
  Broadcast = Broadcast
  Unknown = Unknown
  Garbled = Garbled
  ArpEntryTtl = 3
  ArpResponseTtl = 2
  AddressBits = 4
  NoRoute = NoRoute
  Direct = Direct
  DefaultTtl = 3
  Host <- Hosts
  HostIp <- Ips
  HostNextHop <- NextHops
  RouterIps <- Interfaces
  Connections <- Wires
  FromLua = FALSE
  Candidates <- Entries
  MaxRoutes = 6
  Destinations <- Targets
  Ttls = {1, 2}
  Senders = {"applesauce", "dm42"}
  MaxSends = 2
  Rounds = 6
INVARIANTS NoTestFails TrieIsTable ReportsHaveCause
PROPERTIES ComesToRest
CHECK_DEADLOCK FALSE
