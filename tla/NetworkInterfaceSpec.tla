------------------------ MODULE NetworkInterfaceSpec ------------------------
(***************************************************************************)
(* Stations on one Ethernet, each a TCPOverIPv4OverEthernetAdapter         *)
(* (libsponge/tcp_helpers/tuntap_adapter.cc): every call into its network  *)
(* interface is followed by send_pending(), so that no frame stays in      *)
(* frames_out between two steps.  A frame reaches every other station, in  *)
(* the order of its sender; it may be lost or damaged on the way.  A       *)
(* station is known by its IP address; it takes a new Ethernet address     *)
(* whenever its process starts (apps/tcp_ip_ethernet.cc).                  *)
(***************************************************************************)
EXTENDS NetworkInterface

CONSTANTS Station,        \* the IP addresses in use
          Absent,         \* IP addresses that no station has
          MaxDatagrams,   \* bound: datagrams sent in all
          MaxRestarts,    \* bound: restarts in all
          MaxOnWire,      \* bound: frames under way from one station to another
          Lossy           \* may the wire lose or damage a frame?

ASSUME StationAssumption ==
  /\ Station \cap Absent = {} /\ Lossy \in BOOLEAN
  /\ {MaxDatagrams, MaxRestarts, MaxOnWire} \subseteq Nat

IpAddress == Station \cup Absent
EthernetAddress == Station \X Nat   \* the address of a station's k-th start
Datagram == [id: Nat, from: Station, to: IpAddress]

VARIABLES nic,        \* the network interface of each station
          wire,       \* wire[s][r]: frames under way from s to r, oldest first
          got,        \* the datagrams each station received, in order
          sent,       \* datagrams sent so far
          starts,     \* restarts so far
          asked,      \* history: asked[s][ip], ticks of s since its last request for ip
          answered    \* history: the addresses s heard from since it last asked for them

vars == <<nic, wire, got, sent, starts, asked, answered>>

Others(s) == Station \ {s}

Init ==
  /\ nic = [s \in Station |-> NewInterface(<<s, 0>>, s)]
  /\ wire = [s \in Station |-> [r \in Others(s) |-> <<>>]]
  /\ got = [s \in Station |-> <<>>]
  /\ sent = 0 /\ starts = 0
  /\ asked = [s \in Station |-> [ip \in IpAddress |-> ArpResponseTtl]]
  /\ answered = [s \in Station |-> {}]

\* send_pending(): everything queued goes to the TAP device.
SendPending(s, n) ==
  /\ nic' = [nic EXCEPT ![s] = [n EXCEPT !.framesOut = <<>>]]
  /\ wire' = [wire EXCEPT ![s] = [r \in Others(s) |-> @[r] \o n.framesOut]]

RequestFor(ip, frame) == frame.type = "ARP" /\ frame.payload.opcode = "REQUEST"
                           /\ frame.payload.targetIp = ip
Requested(n) == {ip \in IpAddress : \E i \in DOMAIN n.framesOut : RequestFor(ip, n.framesOut[i])}

\* write(): a segment for the next hop ip.
Write(s, ip) ==
  /\ sent < MaxDatagrams /\ \A r \in Others(s) : Len(wire[s][r]) < MaxOnWire
  /\ \E n \in {SendDatagram(nic[s], [id |-> sent + 1, from |-> s, to |-> ip], ip)} :
       /\ SendPending(s, n)
       /\ asked' = [asked EXCEPT ![s] = [a \in IpAddress |->
                                           IF a \in Requested(n) THEN 0 ELSE @[a]]]
       /\ answered' = [answered EXCEPT ![s] = @ \ Requested(n)]
  /\ sent' = sent + 1
  /\ UNCHANGED <<got, starts>>

\* The wire hands the oldest frame from s to r, whose adapter reads it.
Heard(n, frame) ==
  IF ForMe(n, frame) /\ frame.type = "ARP" /\ frame.payload # Garbled
  THEN {frame.payload.senderIp} ELSE {}

Read(s, r, frame) ==
  /\ \E n \in {RecvFrame(nic[r], frame)} :
       /\ nic' = [nic EXCEPT ![r] = [n EXCEPT !.framesOut = <<>>]]
       /\ wire' = [wire EXCEPT ![s][r] = Tail(@),
                               ![r] = [x \in Others(r) |-> @[x] \o n.framesOut]]
  /\ got' = [got EXCEPT ![r] = @ \o ReceivedDatagram(nic[r], frame)]
  /\ answered' = [answered EXCEPT ![r] = @ \cup Heard(nic[r], frame)]
  /\ UNCHANGED <<sent, starts, asked>>

Deliver(s, r) == wire[s][r] # <<>> /\ Read(s, r, Head(wire[s][r]))

Damage(s, r) ==
  /\ Lossy /\ wire[s][r] # <<>>
  /\ Read(s, r, [Head(wire[s][r]) EXCEPT !.payload = Garbled])

Lose(s, r) ==
  /\ Lossy /\ wire[s][r] # <<>>
  /\ wire' = [wire EXCEPT ![s][r] = Tail(@)]
  /\ UNCHANGED <<nic, got, sent, starts, asked, answered>>

Tick(s) ==
  /\ \E n \in {InterfaceTick(nic[s], 1)} : SendPending(s, n)
  /\ asked' = [asked EXCEPT ![s] = [ip \in IpAddress |-> Lesser(@[ip] + 1, ArpResponseTtl)]]
  /\ UNCHANGED <<got, sent, starts, answered>>

\* The process ends and starts anew; what it put on the wire is still under way.
Restart(s) ==
  /\ starts < MaxRestarts
  /\ starts' = starts + 1
  /\ nic' = [nic EXCEPT ![s] = NewInterface(<<s, starts + 1>>, s)]
  /\ asked' = [asked EXCEPT ![s] = [ip \in IpAddress |-> ArpResponseTtl]]
  /\ answered' = [answered EXCEPT ![s] = {}]
  /\ UNCHANGED <<wire, got, sent>>

Next ==
  \E s \in Station :
    \/ \E ip \in IpAddress \ {s} : Write(s, ip)
    \/ \E r \in Others(s) : Deliver(s, r) \/ Damage(s, r) \/ Lose(s, r)
    \/ Tick(s)
    \/ Restart(s)

Spec == Init /\ [][Next]_vars

\* The adapter's thread ticks it for ever, and the wire does not hold a frame back for ever.
FairSpec ==
  /\ Spec
  /\ \A s \in Station : WF_vars(Tick(s)) /\ \A r \in Others(s) : WF_vars(Deliver(s, r))

-----------------------------------------------------------------------------

ArpPayload == [opcode: {"REQUEST", "REPLY"}, senderEth: EthernetAddress, senderIp: Station,
               targetEth: EthernetAddress \cup {Unknown}, targetIp: IpAddress]
EthernetFrame ==
  [src: EthernetAddress, dst: EthernetAddress \cup {Broadcast}, type: {"IPv4"}, payload: Datagram]
    \cup
  [src: EthernetAddress, dst: EthernetAddress \cup {Broadcast}, type: {"ARP"}, payload: ArpPayload]

TypeOK ==
  /\ \A s \in Station :
       LET n == nic[s]
       IN  /\ n.eth \in EthernetAddress /\ n.ip = s /\ n.framesOut = <<>>
           /\ DOMAIN n.arpTable \subseteq Station /\ DOMAIN n.pending \subseteq IpAddress
           /\ \A ip \in DOMAIN n.arpTable : /\ n.arpTable[ip].eth \in EthernetAddress
                                            /\ n.arpTable[ip].ttl \in 1..ArpEntryTtl
           /\ \A ip \in DOMAIN n.pending : n.pending[ip] \in 1..ArpResponseTtl
           /\ \A ip \in DOMAIN n.waiting : n.waiting[ip] \in Seq(Datagram)
  /\ \A s \in Station : \A r \in Others(s) : wire[s][r] \in Seq(EthernetFrame)
  /\ got \in [Station -> Seq(Datagram)]

\* A datagram waits only while a request for its next hop is pending and unanswered
\* (network_interface.cc:51-65, 103-113, 131-137): never on an address the interface has
\* in its table, and never on a request whose answer came and was forgotten since.
WaitsOnOpenRequest ==
  \A s \in Station : \A ip \in DOMAIN nic[s].waiting :
    /\ ip \in DOMAIN nic[s].pending
    /\ ip \notin DOMAIN nic[s].arpTable
    /\ ip \notin answered[s]
    /\ nic[s].waiting[ip] # <<>>

\* Two requests of a station for the same address are ARP_RESPONSE_TTL_MS or more apart,
\* whatever is lost, answered or expires between them.
RequestsSpaced ==
  [][\A s \in Station : \A ip \in IpAddress :
       asked'[s][ip] < asked[s][ip] => asked[s][ip] = ArpResponseTtl]_vars

\* A station gets only what is meant for it, and the datagrams of each sender in the order
\* they were handed to its interface, none twice: the ones that waited for ARP leave before
\* any later one (network_interface.cc:107-113), and no stale address leads to another station.
DeliveredInOrder ==
  \A r \in Station : \A j \in DOMAIN got[r] :
    /\ got[r][j].to = r
    /\ \A i \in 1..(j - 1) : got[r][i].from = got[r][j].from => got[r][i].id < got[r][j].id

\* Every datagram that waits is sent or dropped in the end (tick() drops what an
\* unanswered request keeps waiting), even when no reply ever comes.
NoneWaitsForEver ==
  \A s \in Station : \A ip \in IpAddress : []<>(ip \notin DOMAIN nic[s].waiting)

=============================================================================
