----------------------------- MODULE FdAdapter ------------------------------
(***************************************************************************)
(* The adapters between a TCPConnection and what carries its segments: in  *)
(* UDP payloads (libsponge/tcp_helpers/fd_adapter.cc) and in IPv4          *)
(* datagrams (tcp_over_ip.cc).  An adapter keeps the two addresses of the  *)
(* connection and whether it still listens for a peer, and passes on only  *)
(* the segments of its connection.  Each read returns the adapter as it is *)
(* then and the segment, if any.  A payload is the segment it parses to.   *)
(***************************************************************************)
EXTENDS Sequences, TLC

NewAdapter(source, destination, listening) ==
  [source |-> source, destination |-> destination, listening |-> listening]

\* Only a SYN makes a listening adapter take its sender for the peer.
Opens(seg) == seg.syn /\ ~seg.rst

Passes(a, seg) == [adapter |-> a, segs |-> <<seg>>]
Ignores(a) == [adapter |-> a, segs |-> <<>>]

-----------------------------------------------------------------------------
(* TCPOverUDPSocketAdapter::read *)

\* Faulty variant of UdpRead: takes a segment from anyone.
UdpReadAny(a, datagram) ==
  IF ~a.listening THEN Passes(a, datagram.payload)
  ELSE IF Opens(datagram.payload)
  THEN Passes([a EXCEPT !.destination = datagram.source, !.listening = FALSE], datagram.payload)
  ELSE Ignores(a)

UdpRead(a, datagram) ==
  IF ~a.listening
  THEN IF datagram.source = a.destination THEN Passes(a, datagram.payload) ELSE Ignores(a)
  ELSE IF Opens(datagram.payload)
  THEN Passes([a EXCEPT !.destination = datagram.source, !.listening = FALSE], datagram.payload)
  ELSE Ignores(a)

UdpWrites(a, segs) == [i \in DOMAIN segs |-> [to |-> a.destination, payload |-> segs[i]]]

-----------------------------------------------------------------------------
(* TCPOverIPv4Adapter *)

\* Where a SYN leaves the adapter: bound to the address it was sent to and to its sender.
Bound(a, dgram) ==
  IF ~a.listening THEN a
  ELSE [source |-> [a.source EXCEPT !.ip = dgram.dst],
        destination |-> [ip |-> dgram.src, port |-> dgram.payload.sport],
        listening |-> FALSE]

\* Faulty variant of Related: the port of the peer is not compared.
RelatedAnyPort(a, dgram) ==
  /\ a.listening \/ (dgram.dst = a.source.ip /\ dgram.src = a.destination.ip)
  /\ dgram.proto = "TCP" /\ dgram.payload.dport = a.source.port
  /\ a.listening => Opens(dgram.payload)

Related(a, dgram) ==
  /\ a.listening \/ (dgram.dst = a.source.ip /\ dgram.src = a.destination.ip)
  /\ dgram.proto = "TCP" /\ dgram.payload.dport = a.source.port
  /\ a.listening => Opens(dgram.payload)
  /\ dgram.payload.sport = Bound(a, dgram).destination.port

UnwrapTcpInIp(a, dgram) ==
  IF Related(a, dgram) THEN Passes(Bound(a, dgram), dgram.payload) ELSE Ignores(a)

WrapTcpInIp(a, seg, ttl) ==
  [src |-> a.source.ip, dst |-> a.destination.ip, ttl |-> ttl, proto |-> "TCP",
   payload |-> [sport |-> a.source.port, dport |-> a.destination.port] @@ seg]
=============================================================================
