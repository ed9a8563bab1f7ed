----------------------- MODULE NetworkInterfaceProofs -----------------------
(***************************************************************************)
(* Proofs about the network interface for any stations, time-outs, losses  *)
(* and restarts: its maps keep their types, a datagram waits only on an    *)
(* open request, and two requests for one address are ARP_RESPONSE_TTL_MS  *)
(* apart.  They are inductive only together, with two facts that link a    *)
(* pending request to what happened before it: an answer heard since the   *)
(* request is still in the ARP table (this is where ARP_RESPONSE_TTL_MS <= *)
(* ARP_ENTRY_TTL_MS is needed), and a request has been pending exactly for *)
(* the time since it was sent.                                             *)
(***************************************************************************)
EXTENDS NetworkInterfaceSpec, SequenceTheorems, TLAPS

-----------------------------------------------------------------------------
(* Maps *)

\* The maps with keys from S and values from T.
Maps(S, T) == UNION {[D -> T] : D \in SUBSET S}

\* A map is a function on a set of keys.
LEMMA MapType ==
  ASSUME NEW S, NEW T, NEW m
  PROVE  m \in Maps(S, T) <=> DOMAIN m \subseteq S /\ m \in [DOMAIN m -> T]
BY DEF Maps

\* The empty map.
LEMMA EmptyMap ==
  ASSUME NEW S, NEW T
  PROVE  <<>> \in Maps(S, T) /\ DOMAIN <<>> = {}
<1>1. <<>> \in [{} -> T]
  BY SMT
<1> QED BY <1>1, MapType, Zenon

\* A map with an entry put into it is a map.
LEMMA PutMap ==
  ASSUME NEW S, NEW T, NEW m \in Maps(S, T), NEW key \in S, NEW value \in T
  PROVE  Put(m, key, value) \in Maps(S, T)
BY MapType DEF Put

\* A map with keys dropped from it is a map.
LEMMA DropMap ==
  ASSUME NEW S, NEW T, NEW m \in Maps(S, T), NEW keys
  PROVE  Drop(m, keys) \in Maps(S, T)
BY MapType DEF Drop

-----------------------------------------------------------------------------
(* The inductive invariant *)

ArpEntry == [eth: EthernetAddress, ttl: 1..ArpEntryTtl]

InterfaceType ==
  [eth: EthernetAddress, ip: Station, arpTable: Maps(Station, ArpEntry),
   pending: Maps(IpAddress, 1..ArpResponseTtl), waiting: Maps(IpAddress, Seq(Datagram)),
   framesOut: Seq(EthernetFrame)]

AskedType == [IpAddress -> 0..ArpResponseTtl]

\* What waits waits on an open request.
Waits(n, heard) ==
  \A ip \in DOMAIN n.waiting :
    /\ ip \in DOMAIN n.pending /\ ip \notin DOMAIN n.arpTable /\ ip \notin heard
    /\ n.waiting[ip] # <<>>

\* The answer to a pending request outlives the request.
AnswerKept(n, heard) ==
  \A ip \in DOMAIN n.pending \cap heard :
    ip \in DOMAIN n.arpTable /\ n.pending[ip] <= n.arpTable[ip].ttl

\* A request is pending for ArpResponseTtl after it is sent.
AskedAgo(n, ago) ==
  \A ip \in IpAddress :
    ago[ip] = IF ip \in DOMAIN n.pending THEN ArpResponseTtl - n.pending[ip] ELSE ArpResponseTtl

Linked(n, ago, heard) == Waits(n, heard) /\ AnswerKept(n, heard) /\ AskedAgo(n, ago)

StationsOK ==
  /\ nic \in [Station -> InterfaceType]
  /\ asked \in [Station -> AskedType]
  /\ answered \in [Station -> SUBSET Station]
  /\ \A s \in Station : /\ nic[s].ip = s /\ nic[s].framesOut = <<>>
                        /\ Linked(nic[s], asked[s], answered[s])

WireOK ==
  /\ wire \in [Station -> Maps(Station, Seq(EthernetFrame))]
  /\ \A s \in Station : DOMAIN wire[s] = Others(s)

IInv ==
  /\ StationsOK /\ WireOK
  /\ got \in [Station -> Seq(Datagram)]
  /\ sent \in Nat /\ starts \in Nat

-----------------------------------------------------------------------------
(* What each operation of the interface does to one station *)

\* A frame with a datagram or an ARP message is an Ethernet frame.
LEMMA FrameType ==
  ASSUME NEW src \in EthernetAddress, NEW dst \in EthernetAddress \cup {Broadcast}
  PROVE  /\ \A d \in Datagram : Frame(src, dst, "IPv4", d) \in EthernetFrame
         /\ \A m \in ArpPayload : Frame(src, dst, "ARP", m) \in EthernetFrame
BY DEF Frame, EthernetFrame

\* Queueing a frame leaves the rest of the interface alone.
LEMMA SendEffect ==
  ASSUME NEW n \in InterfaceType, NEW dst \in EthernetAddress \cup {Broadcast},
         NEW type, NEW payload, Frame(n.eth, dst, type, payload) \in EthernetFrame
  PROVE  LET m == Send(n, dst, type, payload)
         IN  /\ m \in InterfaceType
             /\ m.framesOut = Append(n.framesOut, Frame(n.eth, dst, type, payload))
             /\ m.eth = n.eth /\ m.ip = n.ip /\ m.arpTable = n.arpTable
             /\ m.pending = n.pending /\ m.waiting = n.waiting
<1> DEFINE f == Frame(n.eth, dst, type, payload)
           fs == Append(n.framesOut, f)
<1>1. fs \in Seq(EthernetFrame)
  BY DEF InterfaceType
<1> HIDE DEF fs
<1>2. Send(n, dst, type, payload) = [n EXCEPT !.framesOut = fs]
  BY DEF Send, fs
<1> QED BY <1>1, <1>2, Zenon DEF InterfaceType, fs

\* Ask sends a request exactly when none is pending, and one is pending afterwards.
LEMMA AskEffect ==
  ASSUME NEW n \in InterfaceType, n.framesOut = <<>>, NEW ip \in IpAddress
  PROVE  LET m == Ask(n, ip)
         IN  /\ m \in InterfaceType /\ m.eth = n.eth /\ m.ip = n.ip
             /\ m.arpTable = n.arpTable /\ m.waiting = n.waiting
             /\ ip \in DOMAIN n.pending => m = n /\ Requested(m) = {}
             /\ ip \notin DOMAIN n.pending =>
                  /\ Requested(m) = {ip}
                  /\ m.pending = Put(n.pending, ip, ArpResponseTtl)
<1>1. CASE ip \in DOMAIN n.pending
  <2>1. Ask(n, ip) = n /\ Requested(n) = {}
    BY <1>1 DEF Ask, Requested
  <2> QED BY <1>1, <2>1
<1>2. CASE ip \notin DOMAIN n.pending
  <2> DEFINE msg == ArpMessage("REQUEST", n.eth, n.ip, Unknown, ip)
             f == Frame(n.eth, Broadcast, "ARP", msg)
             k == Send(n, Broadcast, "ARP", msg)
             p == Put(n.pending, ip, ArpResponseTtl)
  <2>1. msg \in ArpPayload
    BY DEF ArpMessage, ArpPayload, InterfaceType
  <2>2. f \in EthernetFrame /\ n.eth \in EthernetAddress
    <3>1. n.eth \in EthernetAddress BY DEF InterfaceType
    <3> HIDE DEF msg
    <3> QED BY <2>1, <3>1, FrameType, Zenon
  <2>3. /\ k \in InterfaceType /\ k.framesOut = Append(<<>>, f)
        /\ k.eth = n.eth /\ k.ip = n.ip /\ k.arpTable = n.arpTable
        /\ k.pending = n.pending /\ k.waiting = n.waiting
    <3> HIDE DEF msg
    <3> QED BY <2>2, SendEffect
  <2>4. p \in Maps(IpAddress, 1..ArpResponseTtl)
    <3>1. n.pending \in Maps(IpAddress, 1..ArpResponseTtl)
      BY DEF InterfaceType
    <3>2. ArpResponseTtl \in 1..ArpResponseTtl
      BY ArpAssumption
    <3> QED BY <3>1, <3>2, PutMap, Zenon
  <2>5. RequestFor(ip, f) /\ \A x : RequestFor(x, f) => x = ip
    BY DEF RequestFor, Frame, ArpMessage
  <2>6. Ask(n, ip) = [k EXCEPT !.pending = p]
    BY <1>2, <2>3 DEF Ask
  <2> HIDE DEF k, p, f
  <2> DEFINE m == [k EXCEPT !.pending = p]
  <2>7. /\ m \in InterfaceType /\ m.framesOut = <<f>> /\ m.eth = n.eth /\ m.ip = n.ip
        /\ m.arpTable = n.arpTable /\ m.waiting = n.waiting /\ m.pending = p
    BY <2>3, <2>4 DEF InterfaceType
  <2> HIDE DEF m
  <2>8. Requested(m) = {ip}
    BY <2>5, <2>7 DEF Requested
  <2> QED BY <1>2, <2>6, <2>7, <2>8 DEF m, p
<1> QED BY <1>1, <1>2

\* Enqueue adds one datagram behind those that wait for the same address.
LEMMA EnqueueEffect ==
  ASSUME NEW n \in InterfaceType, NEW ip \in IpAddress, NEW d \in Datagram
  PROVE  LET m == Enqueue(n, ip, d)
         IN  /\ m \in InterfaceType /\ m.eth = n.eth /\ m.ip = n.ip
             /\ m.arpTable = n.arpTable /\ m.pending = n.pending /\ m.framesOut = n.framesOut
             /\ DOMAIN m.waiting = DOMAIN n.waiting \cup {ip}
             /\ m.waiting[ip] # <<>>
             /\ \A x \in DOMAIN n.waiting : x # ip => m.waiting[x] = n.waiting[x]
<1> DEFINE q == IF ip \in DOMAIN n.waiting THEN Append(n.waiting[ip], d) ELSE <<d>>
           w == Put(n.waiting, ip, q)
<1>0. n.waiting \in Maps(IpAddress, Seq(Datagram))
  BY DEF InterfaceType
<1>1. q \in Seq(Datagram) /\ q # <<>>
  <2>1. ip \in DOMAIN n.waiting => n.waiting[ip] \in Seq(Datagram)
    BY <1>0, MapType
  <2> QED BY <2>1
<1> HIDE DEF q
<1>2. /\ w \in Maps(IpAddress, Seq(Datagram)) /\ DOMAIN w = DOMAIN n.waiting \cup {ip}
      /\ w[ip] = q /\ \A x \in DOMAIN n.waiting : x # ip => w[x] = n.waiting[x]
  <2>1. w \in Maps(IpAddress, Seq(Datagram)) BY <1>0, <1>1, PutMap, Zenon
  <2> QED BY <2>1 DEF Put
<1>3. Enqueue(n, ip, d) = [n EXCEPT !.waiting = w]
  BY DEF Enqueue, w, q
<1> HIDE DEF w
<1> QED BY <1>1, <1>2, <1>3 DEF InterfaceType
\* send_datagram keeps the links between the maps and the history, and requests only what
\* is not pending.
LEMMA SendDatagramEffect ==
  ASSUME NEW n \in InterfaceType, n.framesOut = <<>>, NEW ip \in IpAddress, NEW d \in Datagram,
         NEW ago \in AskedType, NEW heard \in SUBSET Station, Linked(n, ago, heard)
  PROVE  LET m == SendDatagram(n, d, ip)
             new == [a \in IpAddress |-> IF a \in Requested(m) THEN 0 ELSE ago[a]]
         IN  /\ m \in InterfaceType /\ m.ip = n.ip
             /\ Linked(m, new, heard \ Requested(m))
             /\ Requested(m) \cap DOMAIN n.pending = {}
<1> DEFINE m == SendDatagram(n, d, ip)
           new == [a \in IpAddress |-> IF a \in Requested(m) THEN 0 ELSE ago[a]]
<1>1. CASE ip \in DOMAIN n.arpTable
  <2> DEFINE dst == n.arpTable[ip].eth
             f == Frame(n.eth, dst, "IPv4", d)
  <2>1. dst \in EthernetAddress /\ n.eth \in EthernetAddress
    <3>1. n.arpTable \in Maps(Station, ArpEntry) /\ n.eth \in EthernetAddress
      BY DEF InterfaceType
    <3>2. n.arpTable[ip] \in ArpEntry
      BY <1>1, <3>1, MapType
    <3> QED BY <3>1, <3>2 DEF ArpEntry
  <2>2. f \in EthernetFrame
    BY <2>1, FrameType
  <2>3. m = Send(n, dst, "IPv4", d)
    BY <1>1 DEF SendDatagram
  <2>4. \A x : ~RequestFor(x, f)
    BY DEF RequestFor, Frame
  <2> HIDE DEF dst, f
  <2>5. /\ m \in InterfaceType /\ m.ip = n.ip /\ m.framesOut = <<f>>
        /\ m.arpTable = n.arpTable /\ m.pending = n.pending /\ m.waiting = n.waiting
    BY <2>1, <2>2, <2>3, SendEffect DEF f
  <2> HIDE DEF m
  <2>6. Requested(m) = {}
    BY <2>4, <2>5 DEF Requested
  <2>7. new = ago /\ heard \ Requested(m) = heard
    BY <2>6 DEF AskedType
  <2>8. Linked(m, ago, heard)
    BY <2>5 DEF Linked, Waits, AnswerKept, AskedAgo
  <2> QED BY <2>5, <2>6, <2>7, <2>8 DEF m
<1>2. CASE ip \notin DOMAIN n.arpTable
  <2> DEFINE k == Ask(n, ip)
  <2>1. m = Enqueue(k, ip, d)
    BY <1>2 DEF SendDatagram
  <2>2. /\ k \in InterfaceType /\ k.eth = n.eth /\ k.ip = n.ip
        /\ k.arpTable = n.arpTable /\ k.waiting = n.waiting
        /\ ip \in DOMAIN n.pending => k = n /\ Requested(k) = {}
        /\ ip \notin DOMAIN n.pending =>
             Requested(k) = {ip} /\ k.pending = Put(n.pending, ip, ArpResponseTtl)
    BY AskEffect
  <2> HIDE DEF k
  <2>3. /\ m \in InterfaceType /\ m.ip = n.ip /\ m.arpTable = n.arpTable
        /\ m.pending = k.pending /\ m.framesOut = k.framesOut
        /\ DOMAIN m.waiting = DOMAIN n.waiting \cup {ip}
        /\ m.waiting[ip] # <<>>
        /\ \A x \in DOMAIN n.waiting : x # ip => m.waiting[x] = n.waiting[x]
    BY <2>1, <2>2, EnqueueEffect
  <2> HIDE DEF m
  <2>4. Requested(m) = Requested(k)
    BY <2>3 DEF Requested
  <2>5. /\ DOMAIN m.pending = DOMAIN n.pending \cup {ip}
        /\ \A x \in DOMAIN n.pending : m.pending[x] = n.pending[x]
        /\ ip \notin DOMAIN n.pending => m.pending[ip] = ArpResponseTtl
        /\ Requested(m) = {ip} \ DOMAIN n.pending
    BY <2>2, <2>3, <2>4 DEF Put
  <2>6. Waits(m, heard \ Requested(m))
    <3>1. ip \notin heard \ Requested(m)
      BY <1>2, <2>5 DEF Linked, AnswerKept
    <3> QED BY <1>2, <2>3, <2>5, <3>1 DEF Linked, Waits
  <2>7. AnswerKept(m, heard \ Requested(m))
    BY <2>3, <2>5 DEF Linked, AnswerKept
  <2>8. AskedAgo(m, new)
    BY <2>5, ArpAssumption DEF Linked, AskedAgo
  <2> QED BY <2>3, <2>5, <2>6, <2>7, <2>8 DEF Linked, m
<1> QED BY <1>1, <1>2
\* Answering a request only queues a frame.
LEMMA ReplyEffect ==
  ASSUME NEW n \in InterfaceType, NEW msg \in ArpPayload
  PROVE  LET m == Reply(n, msg)
         IN  /\ m \in InterfaceType /\ m.ip = n.ip /\ m.eth = n.eth
             /\ m.arpTable = n.arpTable /\ m.pending = n.pending /\ m.waiting = n.waiting
<1> DEFINE back == ArpMessage("REPLY", n.eth, n.ip, msg.senderEth, msg.senderIp)
<1>1. back \in ArpPayload /\ msg.senderEth \in EthernetAddress /\ n.eth \in EthernetAddress
  BY DEF ArpMessage, ArpPayload, InterfaceType, IpAddress
<1>2. Reply(n, msg) = n \/ Reply(n, msg) = Send(n, msg.senderEth, "ARP", back)
  BY DEF Reply
<1> HIDE DEF back
<1>3. Frame(n.eth, msg.senderEth, "ARP", back) \in EthernetFrame
  BY <1>1, FrameType
<1> QED BY <1>1, <1>2, <1>3, SendEffect

\* What an ARP message teaches is in the table for ArpEntryTtl.
LEMMA LearnEffect ==
  ASSUME NEW n \in InterfaceType, NEW msg \in ArpPayload
  PROVE  LET m == Learn(n, msg)
         IN  /\ m \in InterfaceType /\ m.ip = n.ip /\ m.eth = n.eth
             /\ m.pending = n.pending /\ m.waiting = n.waiting
             /\ DOMAIN m.arpTable = DOMAIN n.arpTable \cup {msg.senderIp}
             /\ m.arpTable[msg.senderIp].ttl = ArpEntryTtl
             /\ \A x \in DOMAIN n.arpTable : x # msg.senderIp => m.arpTable[x] = n.arpTable[x]
<1> DEFINE e == [eth |-> msg.senderEth, ttl |-> ArpEntryTtl]
           tab == Put(n.arpTable, msg.senderIp, e)
<1>1. /\ e \in ArpEntry /\ e.ttl = ArpEntryTtl
      /\ msg.senderIp \in Station /\ n.arpTable \in Maps(Station, ArpEntry)
  BY ArpAssumption DEF ArpEntry, ArpPayload, InterfaceType
<1>2. Learn(n, msg) = [n EXCEPT !.arpTable = tab]
  BY DEF Learn
<1> HIDE DEF e
<1>3. tab \in Maps(Station, ArpEntry)
  BY <1>1, PutMap, Zenon
<1>4. /\ DOMAIN tab = DOMAIN n.arpTable \cup {msg.senderIp} /\ tab[msg.senderIp] = e
      /\ \A x \in DOMAIN n.arpTable : x # msg.senderIp => tab[x] = n.arpTable[x]
  BY DEF Put
<1> HIDE DEF tab
<1> QED BY <1>1, <1>2, <1>3, <1>4 DEF InterfaceType

\* Flushing an address ends the wait for it.
LEMMA FlushEffect ==
  ASSUME NEW n \in InterfaceType, NEW ip \in IpAddress, NEW eth \in EthernetAddress
  PROVE  LET m == Flush(n, ip, eth)
         IN  /\ m \in InterfaceType /\ m.ip = n.ip
             /\ m.arpTable = n.arpTable /\ m.pending = n.pending
             /\ DOMAIN m.waiting = DOMAIN n.waiting \ {ip}
             /\ \A x \in DOMAIN m.waiting : m.waiting[x] = n.waiting[x]
<1>1. CASE ip \notin DOMAIN n.waiting
  <2>1. Flush(n, ip, eth) = n
    BY <1>1 DEF Flush
  <2> QED BY <1>1, <2>1
<1>2. CASE ip \in DOMAIN n.waiting
  <2> DEFINE q == n.waiting[ip]
             g == [i \in DOMAIN q |-> Frame(n.eth, eth, "IPv4", q[i])]
             fs == n.framesOut \o g
             w == Drop(n.waiting, {ip})
  <2>1. n.waiting \in Maps(IpAddress, Seq(Datagram)) /\ n.eth \in EthernetAddress
    BY DEF InterfaceType
  <2>2. q \in Seq(Datagram)
    BY <1>2, <2>1, MapType
  <2>3. g \in Seq(EthernetFrame)
    <3> HIDE DEF q
    <3>1. DOMAIN q = 1..Len(q) /\ Len(q) \in Nat /\ \A i \in 1..Len(q) : q[i] \in Datagram
      BY <2>2
    <3>2. \A i \in 1..Len(q) : Frame(n.eth, eth, "IPv4", q[i]) \in EthernetFrame
      BY <2>1, <3>1, FrameType
    <3> QED BY <3>1, <3>2
  <2>4. fs \in Seq(EthernetFrame)
    <3> HIDE DEF g
    <3> QED BY <2>3 DEF InterfaceType
  <2>5. w \in Maps(IpAddress, Seq(Datagram))
    BY <2>1, DropMap, Zenon
  <2>6. DOMAIN w = DOMAIN n.waiting \ {ip} /\ \A x \in DOMAIN w : w[x] = n.waiting[x]
    BY DEF Drop
  <2>7. Flush(n, ip, eth) = [n EXCEPT !.framesOut = fs, !.waiting = w]
    BY <1>2 DEF Flush
  <2> HIDE DEF fs, w
  <2> QED BY <2>4, <2>5, <2>6, <2>7, Zenon DEF InterfaceType
<1> QED BY <1>1, <1>2

\* recv_frame keeps the links: the sender of an ARP message is in the table, heard of and
\* no longer waited for.
LEMMA RecvFrameEffect ==
  ASSUME NEW n \in InterfaceType, NEW frame, frame \in EthernetFrame \/ frame.payload = Garbled,
         NEW ago \in AskedType, NEW heard \in SUBSET Station, Linked(n, ago, heard)
  PROVE  LET m == RecvFrame(n, frame)
         IN  /\ m \in InterfaceType /\ m.ip = n.ip
             /\ Heard(n, frame) \subseteq Station
             /\ Linked(m, ago, heard \cup Heard(n, frame))
<1>1. CASE ~(ForMe(n, frame) /\ frame.type = "ARP" /\ frame.payload # Garbled)
  <2>1. RecvFrame(n, frame) = n /\ Heard(n, frame) = {}
    BY <1>1 DEF RecvFrame, Heard
  <2> QED BY <2>1
<1>2. CASE ForMe(n, frame) /\ frame.type = "ARP" /\ frame.payload # Garbled
  <2> DEFINE msg == frame.payload
             ip == msg.senderIp
             eth == msg.senderEth
             a == Reply(n, msg)
             b == Learn(a, msg)
             m == Flush(b, ip, eth)
  <2>1. msg \in ArpPayload
    BY <1>2 DEF EthernetFrame
  <2>2. ip \in Station /\ ip \in IpAddress /\ eth \in EthernetAddress
    BY <2>1 DEF ArpPayload, IpAddress
  <2>3. RecvFrame(n, frame) = m /\ Heard(n, frame) = {ip}
    BY <1>2 DEF RecvFrame, Heard
  <2> HIDE DEF msg
  <2>4. /\ a \in InterfaceType /\ a.ip = n.ip
        /\ a.arpTable = n.arpTable /\ a.pending = n.pending /\ a.waiting = n.waiting
    BY <2>1, ReplyEffect
  <2> HIDE DEF a
  <2>5. /\ b \in InterfaceType /\ b.ip = n.ip
        /\ b.pending = n.pending /\ b.waiting = n.waiting
        /\ DOMAIN b.arpTable = DOMAIN n.arpTable \cup {ip}
        /\ b.arpTable[ip].ttl = ArpEntryTtl
        /\ \A x \in DOMAIN n.arpTable : x # ip => b.arpTable[x] = n.arpTable[x]
    BY <2>1, <2>4, LearnEffect
  <2> HIDE DEF b, ip, eth
  <2>6. /\ m \in InterfaceType /\ m.ip = n.ip
        /\ m.arpTable = b.arpTable /\ m.pending = n.pending
        /\ DOMAIN m.waiting = DOMAIN n.waiting \ {ip}
        /\ \A x \in DOMAIN m.waiting : m.waiting[x] = n.waiting[x]
    BY <2>2, <2>5, FlushEffect
  <2> HIDE DEF m
  <2>7. Waits(m, heard \cup {ip})
    BY <2>5, <2>6 DEF Linked, Waits
  <2>8. AnswerKept(m, heard \cup {ip})
    <3>1. \A x \in DOMAIN n.pending : n.pending[x] \in 1..ArpResponseTtl
      BY DEF InterfaceType, Maps
    <3> QED BY <2>5, <2>6, <3>1, ArpAssumption DEF Linked, AnswerKept
  <2>9. AskedAgo(m, ago)
    BY <2>6 DEF Linked, AskedAgo
  <2> QED BY <2>2, <2>3, <2>6, <2>7, <2>8, <2>9 DEF Linked
<1> QED BY <1>1, <1>2
\* tick keeps the links: an answer outlives its request, a request is forgotten
\* ArpResponseTtl after it was sent, and what waited for it goes with it.
LEMMA TickEffect ==
  ASSUME NEW n \in InterfaceType,
         NEW ago \in AskedType, NEW heard \in SUBSET Station, Linked(n, ago, heard)
  PROVE  LET m == InterfaceTick(n, 1)
             later == [ip \in IpAddress |-> Lesser(ago[ip] + 1, ArpResponseTtl)]
         IN  /\ m \in InterfaceType /\ m.ip = n.ip /\ m.framesOut = n.framesOut
             /\ Linked(m, later, heard)
<1> DEFINE m == InterfaceTick(n, 1)
           later == [ip \in IpAddress |-> Lesser(ago[ip] + 1, ArpResponseTtl)]
           tab == Aged(n.arpTable, 1)
           pend == [ip \in StillPending(n, 1) |-> n.pending[ip] - 1]
           w == Drop(n.waiting, DOMAIN n.pending \ StillPending(n, 1))
<1>1. /\ DOMAIN n.arpTable \subseteq Station
      /\ \A ip \in DOMAIN n.arpTable : n.arpTable[ip] \in ArpEntry
      /\ DOMAIN n.pending \subseteq IpAddress
      /\ \A ip \in DOMAIN n.pending : n.pending[ip] \in 1..ArpResponseTtl
  BY DEF InterfaceType, Maps
<1>2. /\ DOMAIN tab = {ip \in DOMAIN n.arpTable : n.arpTable[ip].ttl > 1}
      /\ \A ip \in DOMAIN tab : tab[ip] \in ArpEntry /\ tab[ip].ttl = n.arpTable[ip].ttl - 1
  BY <1>1, ArpAssumption DEF Aged, Survivors, ArpEntry
<1>3. /\ DOMAIN pend = {ip \in DOMAIN n.pending : n.pending[ip] > 1}
      /\ \A ip \in DOMAIN pend : pend[ip] = n.pending[ip] - 1 /\ pend[ip] \in 1..ArpResponseTtl
  BY <1>1, ArpAssumption DEF StillPending
<1>4. /\ DOMAIN w = DOMAIN n.waiting \ (DOMAIN n.pending \ DOMAIN pend)
      /\ \A ip \in DOMAIN w : w[ip] = n.waiting[ip]
  BY DEF Drop
<1>5. tab \in Maps(Station, ArpEntry)
  <2>1. DOMAIN tab \subseteq Station BY <1>1, <1>2
  <2>2. tab = [ip \in DOMAIN tab |-> tab[ip]] BY DEF Aged
  <2> HIDE DEF tab
  <2>3. tab \in [DOMAIN tab -> ArpEntry] BY <1>2, <2>2
  <2> QED BY <2>1, <2>3 DEF Maps
<1>6. pend \in Maps(IpAddress, 1..ArpResponseTtl)
  <2>1. DOMAIN pend \subseteq IpAddress BY <1>1, <1>3
  <2>2. pend = [ip \in DOMAIN pend |-> pend[ip]] OBVIOUS
  <2> HIDE DEF pend
  <2>3. pend \in [DOMAIN pend -> 1..ArpResponseTtl] BY <1>3, <2>2
  <2> QED BY <2>1, <2>3 DEF Maps
<1>7. w \in Maps(IpAddress, Seq(Datagram))
  <2>1. n.waiting \in Maps(IpAddress, Seq(Datagram)) BY DEF InterfaceType
  <2> QED BY <2>1, DropMap, Zenon
<1>8. m = [n EXCEPT !.arpTable = tab, !.pending = pend, !.waiting = w]
  BY DEF InterfaceTick
<1> HIDE DEF tab, pend, w, m
<1>9. /\ m \in InterfaceType /\ m.ip = n.ip /\ m.framesOut = n.framesOut
      /\ m.arpTable = tab /\ m.pending = pend /\ m.waiting = w
  BY <1>5, <1>6, <1>7, <1>8, Zenon DEF InterfaceType
<1>10. Waits(m, heard)
  BY <1>1, <1>2, <1>3, <1>4, <1>9 DEF Linked, Waits
<1>11. AnswerKept(m, heard)
  <2> SUFFICES ASSUME NEW ip \in DOMAIN pend, ip \in heard
               PROVE  ip \in DOMAIN tab /\ pend[ip] <= tab[ip].ttl
    BY <1>9 DEF AnswerKept
  <2>1. ip \in DOMAIN n.arpTable /\ n.pending[ip] <= n.arpTable[ip].ttl
    BY <1>3 DEF Linked, AnswerKept
  <2>2. n.arpTable[ip].ttl \in Nat /\ n.pending[ip] \in Nat /\ n.pending[ip] > 1
    BY <1>1, <1>3, <2>1, ArpAssumption DEF ArpEntry
  <2> QED BY <1>2, <1>3, <2>1, <2>2
<1>12. AskedAgo(m, later)
  <2> SUFFICES ASSUME NEW ip \in IpAddress
               PROVE  Lesser(ago[ip] + 1, ArpResponseTtl) =
                        IF ip \in DOMAIN pend THEN ArpResponseTtl - pend[ip] ELSE ArpResponseTtl
    BY <1>9 DEF AskedAgo
  <2>1. ago[ip] = IF ip \in DOMAIN n.pending THEN ArpResponseTtl - n.pending[ip]
                  ELSE ArpResponseTtl
    BY DEF Linked, AskedAgo
  <2> QED BY <1>1, <1>3, <2>1, ArpAssumption DEF Lesser
<1> QED BY <1>9, <1>10, <1>11, <1>12 DEF Linked, m
-----------------------------------------------------------------------------
(* The invariant *)

\* A station's interface as one of its operations leaves it, its frames sent.
LEMMA Flushed ==
  ASSUME NEW m \in InterfaceType
  PROVE  LET k == [m EXCEPT !.framesOut = <<>>]
         IN  /\ k \in InterfaceType /\ k.framesOut = <<>> /\ k.ip = m.ip
             /\ \A ago, heard : Linked(m, ago, heard) => Linked(k, ago, heard)
<1>1. <<>> \in Seq(EthernetFrame)
  OBVIOUS
<1> DEFINE k == [m EXCEPT !.framesOut = <<>>]
<1>2. /\ k \in InterfaceType /\ k.framesOut = <<>> /\ k.ip = m.ip
      /\ k.arpTable = m.arpTable /\ k.pending = m.pending /\ k.waiting = m.waiting
  BY <1>1, Zenon DEF InterfaceType
<1> HIDE DEF k
<1>3. \A ago, heard : Linked(m, ago, heard) => Linked(k, ago, heard)
  BY <1>2 DEF Linked, Waits, AnswerKept, AskedAgo
<1> QED BY <1>2, <1>3 DEF k

\* A started interface knows, asks and holds nothing.
LEMMA NewInterfaceEffect ==
  ASSUME NEW s \in Station, NEW k \in Nat
  PROVE  LET n == NewInterface(<<s, k>>, s)
         IN  /\ n \in InterfaceType /\ n.ip = s /\ n.framesOut = <<>>
             /\ Linked(n, [ip \in IpAddress |-> ArpResponseTtl], {})
<1> DEFINE n == NewInterface(<<s, k>>, s)
<1>1. /\ <<>> \in Maps(Station, ArpEntry) /\ <<>> \in Maps(IpAddress, 1..ArpResponseTtl)
      /\ <<>> \in Maps(IpAddress, Seq(Datagram)) /\ DOMAIN <<>> = {}
  BY EmptyMap, Zenon
<1>2. <<>> \in Seq(EthernetFrame) /\ <<s, k>> \in EthernetAddress
  BY DEF EthernetAddress
<1>3. /\ n \in InterfaceType /\ n.ip = s /\ n.framesOut = <<>>
      /\ DOMAIN n.arpTable = {} /\ DOMAIN n.pending = {} /\ DOMAIN n.waiting = {}
  BY <1>1, <1>2 DEF NewInterface, InterfaceType
<1> HIDE DEF n
<1>4. Linked(n, [ip \in IpAddress |-> ArpResponseTtl], {})
  BY <1>3 DEF Linked, Waits, AnswerKept, AskedAgo
<1> QED BY <1>3, <1>4 DEF n

\* Frames added to what a station has under way.
LEMMA WireAppend ==
  ASSUME WireOK, NEW s \in Station, NEW fs \in Seq(EthernetFrame),
         wire' = [wire EXCEPT ![s] = [r \in Others(s) |-> @[r] \o fs]]
  PROVE  WireOK'
<1> DEFINE row == [r \in Others(s) |-> wire[s][r] \o fs]
<1>1. \A r \in Others(s) : wire[s][r] \in Seq(EthernetFrame)
  BY DEF WireOK, Maps, Others
<1>2. \A r \in Others(s) : wire[s][r] \o fs \in Seq(EthernetFrame)
  BY <1>1
<1>3. row \in Maps(Station, Seq(EthernetFrame)) /\ DOMAIN row = Others(s)
  <2>1. row \in [Others(s) -> Seq(EthernetFrame)] /\ DOMAIN row = Others(s) BY <1>2
  <2> HIDE DEF row
  <2> QED BY <2>1, Zenon DEF Maps, Others
<1> HIDE DEF row
<1>4. wire' = [wire EXCEPT ![s] = row]
  BY DEF row
<1> QED BY <1>3, <1>4, Zenon DEF WireOK

\* A frame taken from the wire.
LEMMA WireTail ==
  ASSUME WireOK, NEW s \in Station, NEW r \in Others(s), wire[s][r] # <<>>
  PROVE  LET new == [wire EXCEPT ![s][r] = Tail(@)]
         IN  /\ new \in [Station -> Maps(Station, Seq(EthernetFrame))]
             /\ \A x \in Station : DOMAIN new[x] = Others(x)
             /\ Head(wire[s][r]) \in EthernetFrame
<1> DEFINE new == [wire EXCEPT ![s][r] = Tail(@)]
           row == [wire[s] EXCEPT ![r] = Tail(@)]
<1>1. \A x \in Others(s) : wire[s][x] \in Seq(EthernetFrame)
  BY DEF WireOK, Maps, Others
<1>2. Tail(wire[s][r]) \in Seq(EthernetFrame) /\ Head(wire[s][r]) \in EthernetFrame
  BY <1>1
<1>3. row \in Maps(Station, Seq(EthernetFrame)) /\ DOMAIN row = Others(s)
  BY <1>2 DEF Maps, Others, WireOK
<1> HIDE DEF row
<1>4. new = [wire EXCEPT ![s] = row]
  BY DEF row
<1> QED BY <1>2, <1>3, <1>4 DEF WireOK
\* The invariant holds when all stations start.
LEMMA InitEstablishes == Init => IInv
<1> SUFFICES ASSUME Init PROVE IInv
  OBVIOUS
<1>1. StationsOK
  <2>1. \A s \in Station : /\ nic[s] \in InterfaceType /\ nic[s].ip = s /\ nic[s].framesOut = <<>>
                           /\ Linked(nic[s], asked[s], answered[s])
    BY NewInterfaceEffect, Zenon DEF Init
  <2>2. /\ nic = [s \in Station |-> nic[s]] /\ asked = [s \in Station |-> asked[s]]
        /\ answered = [s \in Station |-> answered[s]]
        /\ \A s \in Station : asked[s] \in AskedType /\ answered[s] \in SUBSET Station
    BY ArpAssumption DEF Init, AskedType
  <2>3. /\ nic \in [Station -> InterfaceType] /\ asked \in [Station -> AskedType]
        /\ answered \in [Station -> SUBSET Station]
    BY <2>1, <2>2
  <2> QED BY <2>1, <2>3 DEF StationsOK
<1>2. WireOK
  <2>1. \A s \in Station : wire[s] = [r \in Others(s) |-> <<>>] BY DEF Init
  <2>2. \A s \in Station : wire[s] \in [Others(s) -> Seq(EthernetFrame)]
    <3>1. <<>> \in Seq(EthernetFrame) OBVIOUS
    <3> QED BY <2>1, <3>1, Zenon
  <2>3. \A s \in Station : wire[s] \in Maps(Station, Seq(EthernetFrame)) /\ DOMAIN wire[s] = Others(s)
    BY <2>2, Zenon DEF Maps, Others
  <2> QED BY <2>3 DEF Init, WireOK
<1> QED BY <1>1, <1>2 DEF Init, IInv

\* One station takes a new interface and history that are linked again.
LEMMA StationStep ==
  ASSUME StationsOK, NEW s \in Station, NEW n \in InterfaceType, n.ip = s, n.framesOut = <<>>,
         NEW ago \in AskedType, NEW heard \in SUBSET Station, Linked(n, ago, heard),
         nic' = [nic EXCEPT ![s] = n], asked' = [asked EXCEPT ![s] = ago],
         answered' = [answered EXCEPT ![s] = heard]
  PROVE  StationsOK'
<1>1. /\ nic' \in [Station -> InterfaceType] /\ asked' \in [Station -> AskedType]
      /\ answered' \in [Station -> SUBSET Station]
  BY DEF StationsOK
<1>2. ASSUME NEW x \in Station
      PROVE  nic'[x].ip = x /\ nic'[x].framesOut = <<>> /\ Linked(nic'[x], asked'[x], answered'[x])
  <2>1. CASE x = s
    <3>1. nic'[x] = n /\ asked'[x] = ago /\ answered'[x] = heard
      BY <2>1 DEF StationsOK
    <3> QED BY <2>1, <3>1
  <2>2. CASE x # s
    <3>1. nic'[x] = nic[x] /\ asked'[x] = asked[x] /\ answered'[x] = answered[x]
      BY <2>2 DEF StationsOK
    <3> QED BY <3>1 DEF StationsOK
  <2> QED BY <2>1, <2>2
<1>3. \A x \in Station : /\ nic'[x].ip = x /\ nic'[x].framesOut = <<>>
                         /\ Linked(nic'[x], asked'[x], answered'[x])
  BY <1>2
<1> QED BY <1>1, <1>3 DEF StationsOK

\* send_datagram keeps the invariant, and asks for nothing that is pending.
LEMMA WriteKeeps ==
  ASSUME IInv, NEW s \in Station, NEW ip \in IpAddress \ {s}, Write(s, ip)
  PROVE  IInv' /\ \E n : /\ asked' = [asked EXCEPT ![s] = [a \in IpAddress |->
                                                 IF a \in Requested(n) THEN 0 ELSE @[a]]]
                         /\ Requested(n) \cap DOMAIN nic[s].pending = {}
<1> DEFINE d == [id |-> sent + 1, from |-> s, to |-> ip]
           n == SendDatagram(nic[s], d, ip)
           ago == [a \in IpAddress |-> IF a \in Requested(n) THEN 0 ELSE asked[s][a]]
           heard == answered[s] \ Requested(n)
           k == [n EXCEPT !.framesOut = <<>>]
<1>1. d \in Datagram
  BY DEF Datagram, IInv
<1>2. /\ nic[s] \in InterfaceType /\ nic[s].framesOut = <<>> /\ nic[s].ip = s
      /\ asked[s] \in AskedType /\ answered[s] \in SUBSET Station
      /\ Linked(nic[s], asked[s], answered[s])
  BY DEF IInv, StationsOK
<1>3. /\ SendPending(s, n) /\ asked' = [asked EXCEPT ![s] = ago]
      /\ answered' = [answered EXCEPT ![s] = heard]
      /\ sent' = sent + 1 /\ UNCHANGED <<got, starts>>
  BY DEF Write
<1> HIDE DEF d
<1>4. /\ n \in InterfaceType /\ n.ip = s /\ Linked(n, ago, heard)
      /\ Requested(n) \cap DOMAIN nic[s].pending = {}
  BY <1>1, <1>2, SendDatagramEffect, Zenon
<1> HIDE DEF n
<1>5. k \in InterfaceType /\ k.framesOut = <<>> /\ k.ip = s /\ Linked(k, ago, heard)
  BY <1>4, Flushed
<1>6. ago \in AskedType /\ heard \in SUBSET Station
  BY <1>2, ArpAssumption DEF AskedType
<1>7. nic' = [nic EXCEPT ![s] = k]
  BY <1>3 DEF SendPending
<1> HIDE DEF k, heard
<1>8. StationsOK'
  <2>1. StationsOK BY DEF IInv
  <2> HIDE DEF ago
  <2> QED BY <1>3, <1>5, <1>6, <1>7, <2>1, StationStep, Zenon
<1>9. WireOK'
  BY <1>3, <1>4, WireAppend, Zenon DEF SendPending, IInv, InterfaceType
<1>10. IInv'
  BY <1>3, <1>8, <1>9 DEF IInv
<1> QED BY <1>3, <1>4, <1>10
\* Reading a frame, damaged or not, keeps the invariant.
LEMMA ReadKeeps ==
  ASSUME IInv, NEW s \in Station, NEW r \in Others(s), wire[s][r] # <<>>, NEW frame,
         frame \in EthernetFrame \/ frame.payload = Garbled, Read(s, r, frame)
  PROVE  IInv' /\ asked' = asked
<1> DEFINE n == RecvFrame(nic[r], frame)
           heard == answered[r] \cup Heard(nic[r], frame)
           k == [n EXCEPT !.framesOut = <<>>]
           taken == [wire EXCEPT ![s][r] = Tail(@)]
<1>1. r \in Station /\ r # s
  BY DEF Others
<1>2. /\ nic[r] \in InterfaceType /\ nic[r].ip = r
      /\ asked[r] \in AskedType /\ answered[r] \in SUBSET Station
      /\ Linked(nic[r], asked[r], answered[r])
  BY <1>1 DEF IInv, StationsOK
<1>3. /\ nic' = [nic EXCEPT ![r] = k]
      /\ wire' = [wire EXCEPT ![s][r] = Tail(@), ![r] = [x \in Others(r) |-> @[x] \o n.framesOut]]
      /\ got' = [got EXCEPT ![r] = @ \o ReceivedDatagram(nic[r], frame)]
      /\ answered' = [answered EXCEPT ![r] = heard]
      /\ UNCHANGED <<sent, starts, asked>>
  BY DEF Read
<1>4. /\ n \in InterfaceType /\ n.ip = r /\ heard \in SUBSET Station
      /\ Linked(n, asked[r], heard)
  BY <1>2, RecvFrameEffect, Zenon
<1> HIDE DEF n, heard
<1>5. k \in InterfaceType /\ k.framesOut = <<>> /\ k.ip = r /\ Linked(k, asked[r], heard)
  BY <1>4, Flushed
<1>6. asked' = [asked EXCEPT ![r] = asked[r]]
  BY <1>1, <1>3 DEF IInv, StationsOK
<1> HIDE DEF k
<1>7. StationsOK'
  <2>1. StationsOK BY DEF IInv
  <2> QED BY <1>1, <1>2, <1>3, <1>4, <1>5, <1>6, <2>1, StationStep, Zenon
<1>8. WireOK'
  <2>1. /\ taken \in [Station -> Maps(Station, Seq(EthernetFrame))]
        /\ \A x \in Station : DOMAIN taken[x] = Others(x)
    <3>1. WireOK BY DEF IInv
    <3> QED BY <3>1, WireTail, Zenon
  <2> DEFINE row == [x \in Others(r) |-> wire[r][x] \o n.framesOut]
  <2>2. row \in [Others(r) -> Seq(EthernetFrame)]
    <3>1. \A x \in Others(r) : wire[r][x] \in Seq(EthernetFrame)
      BY <1>1 DEF IInv, WireOK, Maps, Others
    <3>2. n.framesOut \in Seq(EthernetFrame)
      BY <1>4 DEF InterfaceType
    <3>3. \A x \in Others(r) : wire[r][x] \o n.framesOut \in Seq(EthernetFrame)
      BY <3>1, <3>2
    <3> QED BY <3>3
  <2>3. wire' = [taken EXCEPT ![r] = row]
    <3>1. taken[r] = wire[r]
      BY <1>1 DEF IInv, WireOK
    <3> QED BY <1>3, <3>1, Zenon
  <2> HIDE DEF taken, row
  <2>4. row \in Maps(Station, Seq(EthernetFrame)) /\ DOMAIN row = Others(r)
    BY <2>2, Zenon DEF Maps, Others
  <2> QED BY <2>1, <2>3, <2>4, Zenon DEF WireOK
<1>9. got' \in [Station -> Seq(Datagram)]
  <2>1. ReceivedDatagram(nic[r], frame) \in Seq(Datagram)
    BY DEF ReceivedDatagram, EthernetFrame
  <2>2. got[r] \o ReceivedDatagram(nic[r], frame) \in Seq(Datagram)
    BY <1>1, <2>1 DEF IInv
  <2> QED BY <1>3, <2>2, Zenon DEF IInv
<1> QED BY <1>3, <1>7, <1>8, <1>9 DEF IInv

\* Every step keeps the invariant; the time since the last request for an address falls
\* only when a request is made that was not pending.
LEMMA NextKeeps ==
  ASSUME IInv, [Next]_vars
  PROVE  /\ IInv'
         /\ \A s \in Station : \A ip \in IpAddress :
              asked'[s][ip] < asked[s][ip] => asked[s][ip] = ArpResponseTtl
<1> DEFINE Spaced == \A s \in Station : \A ip \in IpAddress :
                       asked'[s][ip] < asked[s][ip] => asked[s][ip] = ArpResponseTtl
<1>0. \A s \in Station : \A ip \in IpAddress :
        /\ asked[s][ip] \in 0..ArpResponseTtl
        /\ ip \notin DOMAIN nic[s].pending => asked[s][ip] = ArpResponseTtl
  BY DEF IInv, StationsOK, AskedType, Linked, AskedAgo
<1>1. ASSUME asked' = asked PROVE Spaced
  BY <1>0, <1>1, ArpAssumption
<1>2. ASSUME NEW s \in Station, NEW ip \in IpAddress \ {s}, Write(s, ip)
      PROVE  IInv' /\ Spaced
  <2>1. PICK n : /\ asked' = [asked EXCEPT ![s] = [a \in IpAddress |->
                                 IF a \in Requested(n) THEN 0 ELSE @[a]]]
                 /\ Requested(n) \cap DOMAIN nic[s].pending = {}
    BY <1>2, WriteKeeps
  <2>2. asked \in [Station -> AskedType]
    BY DEF IInv, StationsOK
  <2> QED BY <1>0, <1>2, <2>1, <2>2, WriteKeeps
<1>3. ASSUME NEW s \in Station, NEW r \in Others(s), Deliver(s, r)
      PROVE  IInv' /\ Spaced
  <2>1. Head(wire[s][r]) \in EthernetFrame
    BY <1>3, WireTail, Zenon DEF IInv, Deliver
  <2> QED BY <1>1, <1>3, <2>1, ReadKeeps DEF Deliver
<1>4. ASSUME NEW s \in Station, NEW r \in Others(s), Damage(s, r)
      PROVE  IInv' /\ Spaced
  <2> DEFINE frame == [Head(wire[s][r]) EXCEPT !.payload = Garbled]
  <2>1. frame.payload = Garbled
    <3>1. Head(wire[s][r]) \in EthernetFrame
      BY <1>4, WireTail, Zenon DEF IInv, Damage
    <3> QED BY <3>1 DEF EthernetFrame
  <2>2. Read(s, r, frame) /\ wire[s][r] # <<>>
    BY <1>4 DEF Damage
  <2> HIDE DEF frame
  <2> QED BY <1>1, <2>1, <2>2, ReadKeeps
<1>5. ASSUME NEW s \in Station, NEW r \in Others(s), Lose(s, r)
      PROVE  IInv' /\ Spaced
  <2>1. WireOK'
    BY <1>5, WireTail, Zenon DEF IInv, Lose, WireOK
  <2>2. StationsOK'
    BY <1>5 DEF IInv, StationsOK, Lose
  <2> QED BY <1>1, <1>5, <2>1, <2>2 DEF IInv, Lose
<1>6. ASSUME NEW s \in Station, Tick(s)
      PROVE  IInv' /\ Spaced
  <2> DEFINE n == InterfaceTick(nic[s], 1)
             ago == [ip \in IpAddress |-> Lesser(asked[s][ip] + 1, ArpResponseTtl)]
             k == [n EXCEPT !.framesOut = <<>>]
  <2>1. /\ nic[s] \in InterfaceType /\ nic[s].framesOut = <<>> /\ nic[s].ip = s
        /\ asked[s] \in AskedType /\ answered[s] \in SUBSET Station
        /\ Linked(nic[s], asked[s], answered[s])
    BY DEF IInv, StationsOK
  <2>2. SendPending(s, n) /\ asked' = [asked EXCEPT ![s] = ago]
        /\ UNCHANGED <<got, sent, starts, answered>>
    BY <1>6 DEF Tick
  <2>3. n \in InterfaceType /\ n.ip = s /\ Linked(n, ago, answered[s])
    BY <2>1, TickEffect, Zenon
  <2> HIDE DEF n
  <2>4. k \in InterfaceType /\ k.framesOut = <<>> /\ k.ip = s /\ Linked(k, ago, answered[s])
    BY <2>3, Flushed
  <2>5. ago \in AskedType /\ \A ip \in IpAddress : ago[ip] >= asked[s][ip]
    BY <1>0, ArpAssumption DEF AskedType, Lesser
  <2>6. nic' = [nic EXCEPT ![s] = k] /\ answered' = [answered EXCEPT ![s] = answered[s]]
    BY <2>2 DEF SendPending, IInv, StationsOK
  <2> HIDE DEF k, ago
  <2>7. StationsOK'
    <3>1. StationsOK BY DEF IInv
    <3> QED BY <2>1, <2>2, <2>4, <2>5, <2>6, <3>1, StationStep, Zenon
  <2>8. WireOK'
    BY <2>2, <2>3, WireAppend, Zenon DEF SendPending, IInv, InterfaceType
  <2>9. Spaced
    <3>1. asked \in [Station -> AskedType] BY DEF IInv, StationsOK
    <3>2. \A x \in Station : \A ip \in IpAddress : asked'[x][ip] >= asked[x][ip]
      BY <1>0, <2>2, <2>5, <3>1, ArpAssumption
    <3>3. \A x \in Station : \A ip \in IpAddress : asked'[x][ip] \in Int
      BY <1>0, <2>2, <2>5, <3>1, ArpAssumption DEF AskedType
    <3> QED BY <1>0, <3>2, <3>3, ArpAssumption
  <2> QED BY <2>2, <2>7, <2>8, <2>9 DEF IInv
<1>7. ASSUME NEW s \in Station, Restart(s)
      PROVE  IInv' /\ Spaced
  <2> DEFINE n == NewInterface(<<s, starts + 1>>, s)
             ago == [ip \in IpAddress |-> ArpResponseTtl]
  <2>1. n \in InterfaceType /\ n.ip = s /\ n.framesOut = <<>> /\ Linked(n, ago, {})
    BY NewInterfaceEffect DEF IInv
  <2>2. /\ nic' = [nic EXCEPT ![s] = n] /\ asked' = [asked EXCEPT ![s] = ago]
        /\ answered' = [answered EXCEPT ![s] = {}] /\ starts' = starts + 1
        /\ UNCHANGED <<wire, got, sent>>
    BY <1>7 DEF Restart
  <2>3. ago \in AskedType
    BY ArpAssumption DEF AskedType
  <2>4. Spaced
    <3>1. asked \in [Station -> AskedType] BY DEF IInv, StationsOK
    <3> QED BY <1>0, <2>2, <3>1, ArpAssumption
  <2> HIDE DEF n, ago
  <2>5. StationsOK'
    <3>1. StationsOK BY DEF IInv
    <3> QED BY <2>1, <2>2, <2>3, <3>1, StationStep, Zenon
  <2>6. WireOK'
    BY <2>2 DEF IInv, WireOK
  <2> QED BY <2>2, <2>4, <2>5, <2>6 DEF IInv
<1>8. CASE UNCHANGED vars
  <2>1. StationsOK' /\ WireOK'
    BY <1>8 DEF vars, IInv, StationsOK, WireOK
  <2> QED BY <1>1, <1>8, <2>1 DEF vars, IInv
<1> QED BY <1>2, <1>3, <1>4, <1>5, <1>6, <1>7, <1>8 DEF Next
-----------------------------------------------------------------------------
(* The theorems *)

\* The invariant holds in every reachable state.
LEMMA InvariantHolds == Spec => []IInv
<1>1. IInv /\ [Next]_vars => IInv'
  BY NextKeeps
<1> QED BY InitEstablishes, <1>1, PTL DEF Spec

\* Every map of the interface (network_interface.hh: _arp_table, _waiting_arp_response,
\* _waiting_ip_datagrams) and every frame on the wire keeps its type, for any stations.
THEOREM InterfaceTypeCorrect == Spec => []TypeOK
<1>1. IInv => TypeOK
  <2> SUFFICES ASSUME IInv PROVE TypeOK
    OBVIOUS
  <2>1. ASSUME NEW s \in Station
        PROVE  /\ nic[s].eth \in EthernetAddress /\ nic[s].ip = s /\ nic[s].framesOut = <<>>
               /\ DOMAIN nic[s].arpTable \subseteq Station
               /\ DOMAIN nic[s].pending \subseteq IpAddress
               /\ \A ip \in DOMAIN nic[s].arpTable :
                    /\ nic[s].arpTable[ip].eth \in EthernetAddress
                    /\ nic[s].arpTable[ip].ttl \in 1..ArpEntryTtl
               /\ \A ip \in DOMAIN nic[s].pending : nic[s].pending[ip] \in 1..ArpResponseTtl
               /\ \A ip \in DOMAIN nic[s].waiting : nic[s].waiting[ip] \in Seq(Datagram)
    <3>1. nic[s] \in InterfaceType /\ nic[s].ip = s /\ nic[s].framesOut = <<>>
      BY DEF IInv, StationsOK
    <3>2. /\ nic[s].eth \in EthernetAddress /\ nic[s].arpTable \in Maps(Station, ArpEntry)
          /\ nic[s].pending \in Maps(IpAddress, 1..ArpResponseTtl)
          /\ nic[s].waiting \in Maps(IpAddress, Seq(Datagram))
      BY <3>1 DEF InterfaceType
    <3> QED BY <3>1, <3>2 DEF Maps, ArpEntry
  <2>2. \A s \in Station : \A r \in Others(s) : wire[s][r] \in Seq(EthernetFrame)
    BY DEF IInv, WireOK, Maps
  <2> QED BY <2>1, <2>2 DEF TypeOK, IInv
<1> QED BY <1>1, InvariantHolds, PTL

\* A datagram waits only on a pending and unanswered request
\* (network_interface.cc:51-65, 103-113, 131-137), whatever is lost, damaged or restarted.
THEOREM AlwaysWaitsOnOpenRequest == Spec => []WaitsOnOpenRequest
<1>1. IInv => WaitsOnOpenRequest
  BY DEF IInv, StationsOK, Linked, Waits, WaitsOnOpenRequest
<1> QED BY <1>1, InvariantHolds, PTL

\* Two requests for the same address are ARP_RESPONSE_TTL_MS or more apart
\* (network_interface.cc:51-60, 131-139).
THEOREM RequestsAlwaysSpaced == Spec => RequestsSpaced
<1> DEFINE Spaced == \A s \in Station : \A ip \in IpAddress :
                       asked'[s][ip] < asked[s][ip] => asked[s][ip] = ArpResponseTtl
<1>1. IInv /\ [Next]_vars => [Spaced]_vars
  BY NextKeeps
<1>2. RequestsSpaced <=> [][Spaced]_vars
  BY DEF RequestsSpaced
<1> QED BY <1>1, <1>2, InvariantHolds, PTL DEF Spec
=============================================================================
