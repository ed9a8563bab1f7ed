--------------------------- MODULE PacketFormats ----------------------------
(***************************************************************************)
(* The packets of the stack as bytes: Ethernet frames, ARP messages, IPv4  *)
(* datagrams, ICMP messages and TCP segments (libsponge/tcp_helpers).  An  *)
(* operator ...Serialize gives the bytes of a packet, or Thrown where the  *)
(* method throws; ...Parse gives the packet, and the result the method     *)
(* returns.  A header parser also returns what is left of the parser, with *)
(* the error the parser noted itself.                                      *)
(***************************************************************************)
EXTENDS Parser

CONSTANT Thrown

TypeIPv4 == 2048   \* 0x800
TypeArp == 2054    \* 0x806
ProtoTcp == 6
ProtoIcmp == 1

-----------------------------------------------------------------------------
(* Ethernet: ethernet_header.cc, ethernet_frame.cc *)

EthernetHeaderLength == 14
EthernetBroadcast == [i \in 1..6 |-> 255]

\* The header object as it is made, and as it stays when parse() returns early.
NewEthernetHeader == [dst |-> Zeros(6), src |-> Zeros(6), type |-> 0]

EthernetFields(token) == [dst |-> token[1], src |-> token[2], type |-> U16(token[3])]

EthernetHeaderParse(p) ==
  LET q == ParseInts(p, <<6, 6, 2>>)
  IN  IF Len(p.buffer) < EthernetHeaderLength
      THEN [p |-> p, header |-> NewEthernetHeader, result |-> "PacketTooShort"]
      ELSE [p |-> q, header |-> EthernetFields(q.tokens), result |-> q.error]

EthernetHeaderSerialize(h) == h.dst \o h.src \o Bytes16(h.type)

\* The result of the header's parse() is not looked at.
EthernetFrameParse(buffer) ==
  LET h == EthernetHeaderParse(NewParser(buffer))
  IN  [header |-> h.header, payload |-> h.p.buffer, result |-> h.p.error]

EthernetFrameSerialize(f) == EthernetHeaderSerialize(f.header) \o f.payload

-----------------------------------------------------------------------------
(* ARP: arp_message.cc *)

ArpLength == 28
TypeEthernet == 1
OpcodeRequest == 1
OpcodeReply == 2

Supported(m) ==
  /\ m.hardwareType = TypeEthernet /\ m.protocolType = TypeIPv4
  /\ m.hardwareAddressSize = 6 /\ m.protocolAddressSize = 4
  /\ m.opcode \in {OpcodeRequest, OpcodeReply}

ArpFields(token) ==
  [hardwareType |-> U16(token[1]), protocolType |-> U16(token[2]),
   hardwareAddressSize |-> U8(token[3]), protocolAddressSize |-> U8(token[4]),
   opcode |-> U16(token[5]), senderEth |-> token[6], senderIp |-> token[7],
   targetEth |-> token[8], targetIp |-> token[9]]

ArpParse(buffer) ==
  LET p == ParseInts(NewParser(buffer), <<2, 2, 1, 1, 2, 6, 4, 6, 4>>)
      m == ArpFields(p.tokens)
  IN  IF Len(buffer) < ArpLength THEN [result |-> "PacketTooShort"]
      ELSE IF ~Supported(m) THEN [result |-> "Unsupported"]
      ELSE [message |-> m, result |-> p.error]

ArpSerialize(m) ==
  IF ~Supported(m) THEN Thrown
  ELSE Bytes16(m.hardwareType) \o Bytes16(m.protocolType)
         \o <<m.hardwareAddressSize, m.protocolAddressSize>> \o Bytes16(m.opcode)
         \o m.senderEth \o m.senderIp \o m.targetEth \o m.targetIp

-----------------------------------------------------------------------------
(* IPv4: ipv4_header.cc, ipv4_datagram.cc *)

IPv4Length == 20

NewIPv4Header ==
  [ver |-> 4, hlen |-> 5, tos |-> 0, len |-> 0, id |-> 0, df |-> TRUE, mf |-> FALSE, offset |-> 0,
   ttl |-> 128, proto |-> ProtoTcp, cksum |-> 0, src |-> Zeros(4), dst |-> Zeros(4)]

IPv4Fields(token) ==
  LET first == U8(token[1])
      flags == U16(token[5])
  IN  [ver |-> first \div 16, hlen |-> first % 16, tos |-> U8(token[2]),
       len |-> U16(token[3]), id |-> U16(token[4]),
       df |-> Bit(flags, 14), mf |-> Bit(flags, 13), offset |-> flags % 2^13,
       ttl |-> U8(token[6]), proto |-> U8(token[7]), cksum |-> U16(token[8]),
       src |-> token[9], dst |-> token[10]]

\* What parse() makes of the fields h, the parser being at q and the packet in buffer.
IPv4HeaderChecks(buffer, q, h) ==
  LET Stop(result) == [p |-> q, header |-> h, result |-> result]
      r == RemovePrefix(q, h.hlen * 4 - IPv4Length)
      sum == AddBytes(0, SubSeq(buffer, 1, 4 * h.hlen))
  IN  IF Len(buffer) < 4 * h.hlen THEN Stop("PacketTooShort")
      ELSE IF h.ver # 4 THEN Stop("WrongIPVersion")
      ELSE IF h.hlen < 5 THEN Stop("HeaderTooShort")
      ELSE IF Len(buffer) # h.len THEN Stop("TruncatedPacket")
      ELSE [p |-> r, header |-> h,
            result |-> IF r.error # "NoError" THEN r.error
                       ELSE IF CheckValue(sum) # 0 THEN "BadChecksum" ELSE "NoError"]

IPv4HeaderParse(p) ==
  LET q == ParseInts(p, <<1, 1, 2, 2, 2, 1, 1, 2, 4, 4>>)
  IN  IF Len(p.buffer) < IPv4Length
      THEN [p |-> p, header |-> NewIPv4Header, result |-> "PacketTooShort"]
      ELSE IPv4HeaderChecks(p.buffer, q, IPv4Fields(q.tokens))

IPv4HeaderSerialize(h) ==
  Resize(<<h.ver * 16 + h.hlen, h.tos>> \o Bytes16(h.len) \o Bytes16(h.id)
           \o Bytes16(BitIf(h.df, 14) + BitIf(h.mf, 13) + h.offset)
           \o <<h.ttl, h.proto>> \o Bytes16(h.cksum) \o h.src \o h.dst,
         4 * h.hlen)

\* A 16-bit number: a length below the header's wraps.
PayloadLength(h) == (h.len - 4 * h.hlen) % 2^16


PseudoCksum(h) == AddBytes(0, h.src) + AddBytes(0, h.dst) + h.proto + PayloadLength(h)

\* The result of the header's parse() is not looked at; the payload has to have the length
\* the header claims.
IPv4DatagramOf(h) ==
  [header |-> h.header, payload |-> h.p.buffer, headerResult |-> h.result,
   result |-> IF Len(h.p.buffer) # PayloadLength(h.header) THEN "PacketTooShort" ELSE h.p.error]

IPv4DatagramParse(buffer) == IPv4DatagramOf(IPv4HeaderParse(NewParser(buffer)))

IPv4DatagramSerialize(d) ==
  LET zero == [d.header EXCEPT !.cksum = 0]
  IN  IF \/ Len(d.payload) # PayloadLength(d.header) \/ d.header.ver # 4 \/ d.header.hlen < 5
      THEN Thrown
      ELSE IPv4HeaderSerialize(
             [zero EXCEPT !.cksum = CheckValue(AddBytes(0, IPv4HeaderSerialize(zero)))]) \o d.payload

-----------------------------------------------------------------------------
(* ICMP: icmp_message.cc *)

EchoReply == 0
DestinationUnreachable == 3
EchoRequest == 8
TimeExceeded == 11
IsEcho(type) == type \in {EchoRequest, EchoReply}

\* The checksum is read and not verified.
IcmpParse(buffer) ==
  LET p == ParseInts(NewParser(buffer), <<1, 1, 2>>)
      echo == IsEcho(U8(p.tokens[1]))
      q == IF echo THEN ParseInts(p, <<2, 2>>)
           ELSE IF Len(p.buffer) >= 4 THEN RemovePrefix(p, 4) ELSE p
  IN  IF Len(buffer) < 4 \/ (echo /\ Len(p.buffer) < 4) THEN [result |-> "PacketTooShort"]
      ELSE [message |-> [type |-> U8(p.tokens[1]), code |-> U8(p.tokens[2]),
                         identifier |-> IF echo THEN U16(q.tokens[4]) ELSE 0,
                         sequenceNumber |-> IF echo THEN U16(q.tokens[5]) ELSE 0,
                         payload |-> q.buffer],
            result |-> q.error]

IcmpBytes(m, cksum) ==
  <<m.type, m.code>> \o Bytes16(cksum)
    \o (IF IsEcho(m.type) THEN Bytes16(m.identifier) \o Bytes16(m.sequenceNumber) ELSE Zeros(4))
    \o m.payload

ComputeChecksum(m) == CheckValue(AddBytes(0, IcmpBytes(m, 0)))
IcmpSerialize(m) == IcmpBytes(m, ComputeChecksum(m))

-----------------------------------------------------------------------------
(* TCP: tcp_header.cc, tcp_segment.cc *)

TCPLength == 20

TCPFields(token) ==
  LET flags == U8(token[6])
  IN  [sport |-> U16(token[1]), dport |-> U16(token[2]), seqno |-> token[3],
       ackno |-> token[4], doff |-> U8(token[5]) \div 16,
       urg |-> Bit(flags, 5), ack |-> Bit(flags, 4), psh |-> Bit(flags, 3),
       rst |-> Bit(flags, 2), syn |-> Bit(flags, 1), fin |-> Bit(flags, 0),
       win |-> U16(token[7]), cksum |-> U16(token[8]), uptr |-> U16(token[9])]

\* What parse() makes of the fields h, the parser being at q.
TCPHeaderChecks(q, h) ==
  LET r == RemovePrefix(q, h.doff * 4 - TCPLength)
  IN  IF h.doff < 5 THEN [p |-> q, header |-> h, result |-> "HeaderTooShort"]
      ELSE [p |-> r, header |-> h, result |-> r.error]

TCPHeaderParse(p) ==
  LET q == ParseInts(p, <<2, 2, 4, 4, 1, 1, 2, 2, 2>>) IN TCPHeaderChecks(q, TCPFields(q.tokens))

\* Faulty variant of TCPHeaderSerialize: psh and rst share a bit.
TCPHeaderSerializeShared(h) ==
  Resize(Bytes16(h.sport) \o Bytes16(h.dport) \o h.seqno \o h.ackno
           \o <<h.doff * 16,
                BitIf(h.urg, 5) + BitIf(h.ack, 4) + BitIf(h.psh \/ h.rst, 3)
                  + BitIf(h.syn, 1) + BitIf(h.fin, 0)>>
           \o Bytes16(h.win) \o Bytes16(h.cksum) \o Bytes16(h.uptr),
         4 * h.doff)

TCPHeaderSerialize(h) ==
  Resize(Bytes16(h.sport) \o Bytes16(h.dport) \o h.seqno \o h.ackno
           \o <<h.doff * 16,
                BitIf(h.urg, 5) + BitIf(h.ack, 4) + BitIf(h.psh, 3) + BitIf(h.rst, 2)
                  + BitIf(h.syn, 1) + BitIf(h.fin, 0)>>
           \o Bytes16(h.win) \o Bytes16(h.cksum) \o Bytes16(h.uptr),
         4 * h.doff)

\* Here too the result of the header's parse() is not looked at.
TCPSegmentParse(buffer, pseudo) ==
  LET h == TCPHeaderParse(NewParser(buffer))
  IN  IF CheckValue(AddBytes(pseudo, buffer)) # 0 THEN [result |-> "BadChecksum"]
      ELSE [header |-> h.header, payload |-> h.p.buffer, result |-> h.p.error]

TCPSegmentSerialize(s, pseudo) ==
  LET Bytes(cksum) == TCPHeaderSerialize([s.header EXCEPT !.cksum = cksum]) \o s.payload
  IN  IF s.header.doff < 5 THEN Thrown ELSE Bytes(CheckValue(AddBytes(pseudo, Bytes(0))))
=============================================================================
