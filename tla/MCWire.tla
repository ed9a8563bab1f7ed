------------------------------- MODULE MCWire -------------------------------
EXTENDS Wire

Header(flags, seqno, ackno) ==
  [sport |-> 1234, dport |-> 80, seqno |-> seqno, ackno |-> ackno, doff |-> 5,
   urg |-> "urg" \in flags, ack |-> "ack" \in flags, psh |-> "psh" \in flags,
   rst |-> "rst" \in flags, syn |-> "syn" \in flags, fin |-> "fin" \in flags,
   win |-> 65535, cksum |-> 0, uptr |-> 0]

Seg(flags, seqno, ackno, payload) == [header |-> Header(flags, seqno, ackno), payload |-> payload]

\* A SYN, data with an odd and an even number of bytes (zeros among them), a segment with
\* options, and every flag alone.
Segs ==
  {Seg({"syn"}, <<255, 255, 255, 255>>, Zeros(4), <<>>),
   Seg({"ack", "psh"}, <<0, 0, 1, 0>>, <<128, 0, 0, 1>>, <<0, 255, 0>>),
   Seg({"ack", "fin"}, <<0, 0, 0, 0>>, <<255, 255, 0, 0>>, <<1, 2>>),
   [Seg({"ack"}, <<1, 2, 3, 4>>, <<5, 6, 7, 8>>, <<9>>) EXCEPT !.header.doff = 6]}
  \cup {Seg({f}, <<0, 1, 0, 1>>, <<1, 0, 1, 0>>, <<>>) : f \in {"urg", "ack", "psh", "rst", "fin"}}

Icmp(type, id, seqno, payload) ==
  [type |-> type, code |-> 0, identifier |-> id, sequenceNumber |-> seqno, payload |-> payload]
Icmps == {Icmp(EchoRequest, 258, 65535, <<7, 0, 7>>), Icmp(EchoReply, 0, 1, <<>>),
          Icmp(DestinationUnreachable, 0, 0, <<69, 0>>), Icmp(TimeExceeded, 0, 0, <<>>)}

Eth1 == <<2, 0, 0, 0, 0, 1>>
Eth2 == <<2, 0, 255, 0, 0, 2>>
Ip1 == <<192, 168, 0, 50>>
Ip2 == <<172, 16, 0, 100>>

Arps == {[hardwareType |-> 1, protocolType |-> TypeIPv4, hardwareAddressSize |-> 6,
          protocolAddressSize |-> 4, opcode |-> o, senderEth |-> Eth1, senderIp |-> Ip1,
          targetEth |-> t, targetIp |-> Ip2] : o \in {OpcodeRequest, OpcodeReply}, t \in {Eth2, Zeros(6)}}

\* Small numbers, the first bytes of an IPv4 header with and without options, and the ends
\* of the range.
ByteValues == 0..16 \cup 64..71 \cup {100, 101, 127, 128, 254, 255}
====
