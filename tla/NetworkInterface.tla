-------------------------- MODULE NetworkInterface --------------------------
(***************************************************************************)
(* The network interface (libsponge/network_interface.cc): IPv4 datagrams  *)
(* in Ethernet frames, the next hop's Ethernet address looked up with ARP. *)
(* One operator per method, over a record with the ARP table, the requests *)
(* that are pending, the datagrams that wait for an answer, and the frames *)
(* queued for the wire.  The three maps are functions whose domain is the  *)
(* set of IP addresses that have an entry.  An address is a plain value; a *)
(* payload is the datagram or the ARP message it carries, or Garbled when  *)
(* it does not parse.                                                      *)
(***************************************************************************)
EXTENDS Basics, Sequences

CONSTANTS Broadcast,        \* ETHERNET_BROADCAST
          Unknown,          \* the all-zero Ethernet address of a request's target
          Garbled,          \* a payload that does not parse
          ArpEntryTtl,      \* ARP_ENTRY_TTL_MS
          ArpResponseTtl    \* ARP_RESPONSE_TTL_MS

ASSUME ArpAssumption ==
  /\ ArpEntryTtl \in Nat \ {0} /\ ArpResponseTtl \in Nat \ {0}
  /\ ArpResponseTtl <= ArpEntryTtl

NewInterface(eth, ip) ==
  [eth |-> eth, ip |-> ip, arpTable |-> <<>>, pending |-> <<>>, waiting |-> <<>>,
   framesOut |-> <<>>]

Frame(src, dst, type, payload) == [src |-> src, dst |-> dst, type |-> type, payload |-> payload]

Send(n, dst, type, payload) ==
  [n EXCEPT !.framesOut = Append(@, Frame(n.eth, dst, type, payload))]

ArpMessage(opcode, senderEth, senderIp, targetEth, targetIp) ==
  [opcode |-> opcode, senderEth |-> senderEth, senderIp |-> senderIp,
   targetEth |-> targetEth, targetIp |-> targetIp]

\* A miss asks for the address unless a request is pending, and the datagram waits.
Ask(n, ip) ==
  IF ip \in DOMAIN n.pending THEN n
  ELSE [Send(n, Broadcast, "ARP", ArpMessage("REQUEST", n.eth, n.ip, Unknown, ip))
          EXCEPT !.pending = Put(@, ip, ArpResponseTtl)]

Enqueue(n, ip, dgram) ==
  [n EXCEPT !.waiting =
     Put(@, ip, IF ip \in DOMAIN @ THEN Append(@[ip], dgram) ELSE <<dgram>>)]

\* Faulty variant of SendDatagram: a miss asks again although a request is pending.
AskEveryTime(n, dgram, nextHop) ==
  IF nextHop \in DOMAIN n.arpTable
  THEN Send(n, n.arpTable[nextHop].eth, "IPv4", dgram)
  ELSE Enqueue(Ask([n EXCEPT !.pending = Drop(@, {nextHop})], nextHop), nextHop, dgram)

SendDatagram(n, dgram, nextHop) ==
  IF nextHop \in DOMAIN n.arpTable
  THEN Send(n, n.arpTable[nextHop].eth, "IPv4", dgram)
  ELSE Enqueue(Ask(n, nextHop), nextHop, dgram)

\* A frame for another station is ignored.
ForMe(n, frame) == frame.dst \in {Broadcast, n.eth}

\* The datagram recv_frame() returns, if any.
ReceivedDatagram(n, frame) ==
  IF ForMe(n, frame) /\ frame.type = "IPv4" /\ frame.payload # Garbled
  THEN <<frame.payload>> ELSE <<>>

\* Faulty variant of Reply: answers a reply like a request.
ReplyToAny(n, msg) ==
  IF msg.targetIp = n.ip
  THEN Send(n, msg.senderEth, "ARP", ArpMessage("REPLY", n.eth, n.ip, msg.senderEth, msg.senderIp))
  ELSE n

Reply(n, msg) ==
  IF msg.opcode = "REQUEST" /\ msg.targetIp = n.ip
  THEN Send(n, msg.senderEth, "ARP", ArpMessage("REPLY", n.eth, n.ip, msg.senderEth, msg.senderIp))
  ELSE n

Learn(n, msg) ==
  [n EXCEPT !.arpTable = Put(@, msg.senderIp, [eth |-> msg.senderEth, ttl |-> ArpEntryTtl])]

\* Faulty variant of Flush: the newest datagram leaves first.
FlushNewestFirst(n, ip, eth) ==
  IF ip \notin DOMAIN n.waiting THEN n
  ELSE LET q == n.waiting[ip]
       IN  [n EXCEPT !.framesOut = @ \o [i \in DOMAIN q |->
                                           Frame(n.eth, eth, "IPv4", q[Len(q) + 1 - i])],
                     !.waiting = Drop(@, {ip})]

\* What waited for this address goes out, oldest first.  The request stays pending.
Flush(n, ip, eth) ==
  IF ip \notin DOMAIN n.waiting THEN n
  ELSE [n EXCEPT !.framesOut = @ \o [i \in DOMAIN n.waiting[ip] |->
                                       Frame(n.eth, eth, "IPv4", n.waiting[ip][i])],
                 !.waiting = Drop(@, {ip})]

RecvFrame(n, frame) ==
  IF ForMe(n, frame) /\ frame.type = "ARP" /\ frame.payload # Garbled
  THEN LET msg == frame.payload
       IN  Flush(Learn(Reply(n, msg), msg), msg.senderIp, msg.senderEth)
  ELSE n

\* Faulty variant of Survivors: an entry lasts until its time is below zero.
SurvivorsAtZero(table, ms) == {ip \in DOMAIN table : table[ip].ttl >= ms}
Survivors(table, ms) == {ip \in DOMAIN table : table[ip].ttl > ms}
\* The entries that outlast ms, that much older.
Aged(table, ms) == [ip \in Survivors(table, ms) |-> [table[ip] EXCEPT !.ttl = @ - ms]]

StillPending(n, ms) == {ip \in DOMAIN n.pending : n.pending[ip] > ms}

\* Faulty variant of InterfaceTick: pending requests never grow old.
TickForgetsPending(n, ms) ==
  [n EXCEPT !.arpTable = Aged(@, ms)]

\* Entries at or below ms go; a pending request that goes takes its datagrams along.
InterfaceTick(n, ms) ==
  [n EXCEPT !.arpTable = Aged(@, ms),
            !.pending = [ip \in StillPending(n, ms) |-> @[ip] - ms],
            !.waiting = Drop(@, DOMAIN n.pending \ StillPending(n, ms))]
=============================================================================
