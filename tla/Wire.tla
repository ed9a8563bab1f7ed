-------------------------------- MODULE Wire --------------------------------
(***************************************************************************)
(* One packet on its way: an Ethernet frame with an ARP message, or with   *)
(* an IPv4 datagram that carries a TCP segment (wrap_tcp_in_ip) or an ICMP *)
(* message.  On the way a byte of it may change, it may be cut short, and  *)
(* routers may forward it, each of which parses the datagram, counts its   *)
(* TTL down and serialises it anew.  The station at the end parses it.     *)
(***************************************************************************)
EXTENDS PacketFormats

CONSTANTS Segments, IcmpMessages, ArpMessages,   \* what is sent
          EthSrc, EthDst, IpSrc, IpDst,
          Values,       \* the values a byte may change to
          MaxFaults,    \* bound: changes and cuts
          MaxHops       \* bound: routers on the way

ASSUME WireAssumption == Values \subseteq Byte /\ MaxFaults \in Nat /\ MaxHops \in Nat

VARIABLES sent,     \* <<kind, packet>>, or <<>>
          wire,     \* the bytes of the frame under way
          faults, hops, cut,
          got       \* what the station made of it: <<kind, packet>>, <<"nothing">>; <<>> before

vars == <<sent, wire, faults, hops, cut, got>>

Init == sent = <<>> /\ wire = <<>> /\ faults = 0 /\ hops = 0 /\ cut = FALSE /\ got = <<>>

Frame(dst, type, payload) ==
  EthernetFrameSerialize([header |-> [dst |-> dst, src |-> EthSrc, type |-> type],
                          payload |-> payload])

DatagramFor(proto, len) ==
  [NewIPv4Header EXCEPT !.proto = proto, !.src = IpSrc, !.dst = IpDst, !.len = IPv4Length + len]

Launch(kind, packet, bytes) ==
  /\ sent = <<>>
  /\ sent' = <<kind, packet>> /\ wire' = bytes
  /\ UNCHANGED <<faults, hops, cut, got>>

WrapTcpInIp(s) ==
  LET h == DatagramFor(ProtoTcp, s.header.doff * 4 + Len(s.payload))
  IN  [header |-> h, payload |-> TCPSegmentSerialize(s, PseudoCksum(h))]

SendTcp(s) ==
  Launch("TCP", [segment |-> s, src |-> IpSrc, dst |-> IpDst],
         Frame(EthDst, TypeIPv4, IPv4DatagramSerialize(WrapTcpInIp(s))))

SendIcmp(m) ==
  Launch("ICMP", m, Frame(EthDst, TypeIPv4, IPv4DatagramSerialize(
         [header |-> DatagramFor(ProtoIcmp, Len(IcmpSerialize(m))), payload |-> IcmpSerialize(m)])))

SendArp(m) ==
  Launch("ARP", m, Frame(IF m.opcode = OpcodeRequest THEN EthernetBroadcast ELSE EthDst, TypeArp,
                         ArpSerialize(m)))

-----------------------------------------------------------------------------
UnderWay == sent # <<>> /\ got = <<>>

Damage(i, b) ==
  /\ UnderWay /\ faults < MaxFaults /\ wire[i] # b
  /\ wire' = [wire EXCEPT ![i] = b] /\ faults' = faults + 1
  /\ UNCHANGED <<sent, hops, cut, got>>

Truncate(n) ==
  /\ UnderWay /\ faults < MaxFaults
  /\ wire' = SubSeq(wire, 1, n) /\ faults' = faults + 1 /\ cut' = TRUE
  /\ UNCHANGED <<sent, hops, got>>

ForMe(frame) == frame.result = "NoError" /\ frame.header.dst \in {EthDst, EthernetBroadcast}

\* recv_frame(): the IPv4 datagram in a frame for this station.
Datagrams(frame) ==
  LET d == IPv4DatagramParse(frame.payload)
  IN  IF ForMe(frame) /\ frame.header.type = TypeIPv4 /\ d.result = "NoError" THEN {d} ELSE {}

\* A router on the way.  A datagram it cannot serialise again ends its thread, one that has
\* no hop left or does not parse goes no further.
Forward ==
  /\ UnderWay /\ hops < MaxHops
  /\ hops' = hops + 1
  /\ LET ready == {d \in Datagrams(EthernetFrameParse(wire)) : d.header.ttl > 1}
         Onward(d) == IPv4DatagramSerialize([header |-> [d.header EXCEPT !.ttl = @ - 1],
                                            payload |-> d.payload])
     IN  \/ \E d \in ready : /\ Onward(d) # Thrown
                             /\ wire' = Frame(EthDst, TypeIPv4, Onward(d)) /\ got' = got
         \/ /\ \A d \in ready : Onward(d) = Thrown
            /\ wire' = <<>> /\ got' = <<"nothing">>
  /\ UNCHANGED <<sent, faults, cut>>

\* What the station makes of the frame.
ReadTcp(d) ==
  LET s == TCPSegmentParse(d.payload, PseudoCksum(d.header))
  IN  IF s.result # "NoError" THEN <<"nothing">>
      ELSE <<"TCP", [segment |-> [header |-> [s.header EXCEPT !.cksum = 0], payload |-> s.payload],
                     src |-> d.header.src, dst |-> d.header.dst]>>

ReadIcmp(d) ==
  LET m == IcmpParse(d.payload)
  IN  IF m.result # "NoError" THEN <<"nothing">> ELSE <<"ICMP", m.message>>

ReadDatagram(d) ==
  IF d.header.proto = ProtoTcp THEN ReadTcp(d)
  ELSE IF d.header.proto = ProtoIcmp THEN ReadIcmp(d) ELSE <<"nothing">>

Read(frame) ==
  IF Datagrams(frame) # {} THEN ReadDatagram(CHOOSE d \in Datagrams(frame) : TRUE)
  ELSE IF ForMe(frame) /\ frame.header.type = TypeArp /\ ArpParse(frame.payload).result = "NoError"
  THEN <<"ARP", ArpParse(frame.payload).message>>
  ELSE <<"nothing">>

Receive ==
  /\ UnderWay
  /\ got' = Read(EthernetFrameParse(wire)) /\ wire' = <<>>
  /\ UNCHANGED <<sent, faults, hops, cut>>

Next ==
  \/ \E s \in Segments : SendTcp(s)
  \/ \E m \in IcmpMessages : SendIcmp(m)
  \/ \E m \in ArpMessages : SendArp(m)
  \/ \E i \in DOMAIN wire, b \in Values : Damage(i, b)
  \/ \E n \in 0..(Len(wire) - 1) : Truncate(n)
  \/ Forward
  \/ Receive

Spec == Init /\ [][Next]_vars

-----------------------------------------------------------------------------

\* What is not damaged arrives as it was sent, field by field, however many routers have
\* taken it apart and put it together again: every serialize() has its parse().  ARP stays
\* on its segment.
RoundTrip ==
  got # <<>> /\ faults = 0 => got = sent \/ (got = <<"nothing">> /\ sent[1] = "ARP" /\ hops > 0)


\* ipv4_header.cc:13-22: parsing a datagram reports a wrong version, a header length below
\* the minimum, a length other than the data's and a bad checksum.
HeaderErrorsReported ==
  UnderWay => \A d \in Datagrams(EthernetFrameParse(wire)) : d.headerResult = "NoError"
=============================================================================
