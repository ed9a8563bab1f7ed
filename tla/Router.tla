------------------------------- MODULE Router -------------------------------
(***************************************************************************)
(* The router (libsponge/router.cc): several asynchronous interfaces, each *)
(* with the datagrams it has received and the router has not yet routed,   *)
(* and the routing table.  A datagram is its source and destination, TTL,  *)
(* protocol and payload; the payload of an ICMP datagram is the message's  *)
(* type, code and body, or Garbled when it does not parse.                 *)
(***************************************************************************)
EXTENDS NetworkInterface, RoutingTrie, SequencesExt

CONSTANT DefaultTtl   \* IPv4Header::DEFAULT_TTL

Datagram(src, dst, ttl, proto, payload) ==
  [src |-> src, dst |-> dst, ttl |-> ttl, proto |-> proto, payload |-> payload]
IcmpMessage(type, code, body) == [type |-> type, code |-> code, body |-> body]

NewRouter(nics, icmpEnabled) ==
  [nics |-> nics, inbox |-> [i \in DOMAIN nics |-> <<>>], trie |-> EmptyTrie,
   icmpEnabled |-> icmpEnabled]

AddRoute(r, entry) == [r EXCEPT !.trie = Insert(@, entry)]

\* AsyncNetworkInterface::recv_frame(): the datagram is kept for route().
RouterRecvFrame(r, i, frame) ==
  [r EXCEPT !.inbox[i] = @ \o ReceivedDatagram(r.nics[i], frame),
            !.nics[i] = RecvFrame(@, frame)]

SendOn(r, i, dgram, nextHop) == [r EXCEPT !.nics[i] = SendDatagram(@, dgram, nextHop)]

\* Faulty variant of SendIcmp: reports to the destination.
SendIcmpOnward(r, type, dgram, i) ==
  SendOn(r, i, Datagram(r.nics[i].ip, dgram.dst, DefaultTtl, "ICMP",
                        IcmpMessage(type, 0, dgram)), dgram.dst)

\* An error report quotes the header of the datagram and the start of its payload, enough
\* to tell which datagram it is about.
SendIcmp(r, type, dgram, i) ==
  SendOn(r, i, Datagram(r.nics[i].ip, dgram.src, DefaultTtl, "ICMP",
                        IcmpMessage(type, 0, dgram)), dgram.src)

OwnInterfaces(r, ip) == {i \in DOMAIN r.nics : r.nics[i].ip = ip}

\* ICMP for one of the router's own addresses: an echo request is answered from the first
\* interface that has the address, anything else is dropped.
ToSelf(r, dgram) ==
  IF dgram.payload # Garbled /\ dgram.payload.type = "ECHO_REQUEST"
  THEN LET i == CHOOSE i \in OwnInterfaces(r, dgram.dst) :
                  \A j \in OwnInterfaces(r, dgram.dst) : i <= j
       IN  SendOn(r, i, Datagram(dgram.dst, dgram.src, DefaultTtl, "ICMP",
                                 IcmpMessage("ECHO_REPLY", 0, dgram.payload.body)), dgram.src)
  ELSE r

\* Faulty variant of Forward: always straight to the destination.
ForwardIgnoresNextHop(r, dgram, entry) ==
  SendOn(r, entry.interface, [dgram EXCEPT !.ttl = @ - 1], dgram.dst)

Forward(r, dgram, entry) ==
  SendOn(r, entry.interface, [dgram EXCEPT !.ttl = @ - 1],
         IF entry.nextHop = Direct THEN dgram.dst ELSE entry.nextHop)

RouteOneDatagram(r, dgram) ==
  LET entry == LongestPrefixMatch(r.trie, dgram.dst)
  IN  IF dgram.proto = "ICMP" /\ OwnInterfaces(r, dgram.dst) # {} THEN ToSelf(r, dgram)
      ELSE IF entry = NoRoute
      THEN IF r.icmpEnabled THEN SendIcmp(r, "DESTINATION_UNREACHABLE", dgram, 1) ELSE r
      ELSE IF dgram.ttl <= 1
      THEN IF r.icmpEnabled THEN SendIcmp(r, "TIME_EXCEEDED", dgram, entry.interface) ELSE r
      ELSE Forward(r, dgram, entry)

\* route(): every datagram received, interface by interface.
Route(r) ==
  FoldOver(RouteOneDatagram, [r EXCEPT !.inbox = [i \in DOMAIN r.nics |-> <<>>]],
           FlattenSeq(r.inbox))
=============================================================================
