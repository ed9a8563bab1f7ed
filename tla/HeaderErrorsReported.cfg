SPECIFICATION Spec
CONSTANTS
  Thrown = Thrown
  Segments <- Segs
  IcmpMessages <- Icmps
  ArpMessages <- Arps
  EthSrc <- Eth1
  EthDst <- Eth2
  IpSrc <- Ip1
  IpDst <- Ip2
  Values <- ByteValues
  MaxFaults = 1
  MaxHops = 1
INVARIANT HeaderErrorsReported
CHECK_DEADLOCK FALSE
