-------------------------------- MODULE Lab7 --------------------------------
(***************************************************************************)
(* The end-to-end program (apps/lab7.cc), run as a client and as a server, *)
(* and the bouncer between them (apps/bouncer.cc).  In each program a host *)
(* sends its TCP segments through a NetworkInterface to a router on the    *)
(* same machine, and the router's thread exchanges Ethernet frames with    *)
(* the other router in UDP datagrams that the bouncer passes on.           *)
(*                                                                         *)
(* Each host runs a TCPConnection, and the connected client writes bytes   *)
(* that tell its runs apart; neither application reads or closes.  The     *)
(* client's program may be run anew, with new Ethernet addresses and a new *)
(* port, while the server and the network still know the old ones.         *)
(***************************************************************************)
EXTENDS Router, FdAdapter, TCPState

CONSTANTS ClientIp, ServerIp,            \* the hosts' addresses
          ClientGate, ServerGate,        \* the routers' addresses on the hosts' side
          ClientRouter, ServerRouter,    \* and on the Internet's side
          LanPrefix,                     \* bits of the prefix of each of the three networks
          ServerPort,
          Nobody,                        \* an address not yet learned
          Hello,                         \* an empty UDP payload
          Capacity, Isn,                 \* of every TCPConnection
          MaxData, MaxLosses, MaxRuns    \* bounds: bytes written, lost datagrams, client runs

VARIABLES side,      \* [Side -> the program's state]
          peers,     \* the bouncer: where the last datagram from each side came from
          up,        \* UDP datagrams under way to the bouncer
          losses     \* datagrams lost so far

vars == <<side, peers, up, losses>>

Side == {"client", "server"}
Other(s) == IF s = "client" THEN "server" ELSE "client"
HostSide == 1
InternetSide == 2

-----------------------------------------------------------------------------
(* The host: NetworkInterfaceAdapter *)

\* send_pending(): the interface's frames go into the pair that leads to the router.
SendPending(v) ==
  [v EXCEPT !.toRouter = @ \o v.nic.framesOut, !.nic.framesOut = <<>>]

HostWrite(v, seg) ==
  SendPending([v EXCEPT !.nic = SendDatagram(@, WrapTcpInIp(v.adapter, seg, DefaultTtl), v.gate)])

\* Rule 4 of the socket: everything TCP has queued.  Here it runs before the next event.
HostSends(v) == [FoldOver(HostWrite, v, v.tcp.segmentsOut) EXCEPT !.tcp.segmentsOut = <<>>]

\* read(): the host as the frame leaves it, and the segment for TCP, if any.
HostRead(v, frame) ==
  LET heard == SendPending([v EXCEPT !.nic = RecvFrame(@, frame), !.toHost = Tail(@)])
      dgrams == ReceivedDatagram(v.nic, frame)
  IN  IF dgrams = <<>> THEN [host |-> heard, segs |-> <<>>]
      ELSE LET r == UnwrapTcpInIp(v.adapter, dgrams[1])
           IN  [host |-> [heard EXCEPT !.adapter = r.adapter], segs |-> r.segs]

AdapterTick(v, ms) == SendPending([v EXCEPT !.nic = InterfaceTick(@, ms)])

\* The socket's loop ticks the connection and the adapter while the connection is active.
HostTick(v, ms) ==
  IF v.tcp.active THEN HostSends(AdapterTick([v EXCEPT !.tcp = ConnTick(@, ms)], ms)) ELSE v

-----------------------------------------------------------------------------
(* The network thread: its four rules, in the order they are added *)

Rules == <<"fromHost", "toHost", "toInternet", "fromInternet">>

RuleDirection(r) == IF r \in {"fromHost", "fromInternet"} THEN "In" ELSE "Out"

\* A UDP datagram without payload looks like the end of the file.
RuleEof(v, r) == r = "fromInternet" /\ v.eof
NeverClosed(v, r) == FALSE
NoCancel(v, r) == v
RuleHungUp(v, r) == FALSE

RuleInterest(v, r) ==
  CASE r = "toHost" -> v.router.nics[HostSide].framesOut # <<>>
    [] r = "toInternet" -> v.router.nics[InternetSide].framesOut # <<>>
    [] OTHER -> TRUE
RuleReady(v, r) ==
  CASE r = "fromHost" -> v.toRouter # <<>>
    [] r = "fromInternet" -> v.down # <<>>
    [] OTHER -> TRUE

RuleCallback(v, r) ==
  CASE r = "fromHost" ->
         [v EXCEPT !.router = Route(RouterRecvFrame(@, HostSide, Head(v.toRouter))),
                   !.toRouter = Tail(@)]
    [] r = "toHost" ->
         [v EXCEPT !.toHost = Append(@, Head(v.router.nics[HostSide].framesOut)),
                   !.router.nics[HostSide].framesOut = Tail(@)]
    [] r = "toInternet" ->
         [v EXCEPT !.sent = Append(@, Head(v.router.nics[InternetSide].framesOut)),
                   !.router.nics[InternetSide].framesOut = Tail(@)]
    [] r = "fromInternet" ->
         IF Head(v.down) = Hello THEN [v EXCEPT !.eof = TRUE, !.down = Tail(@)]
         ELSE [v EXCEPT !.router = Route(RouterRecvFrame(@, InternetSide, Head(v.down))),
                        !.down = Tail(@)]

Loop == INSTANCE EventLoop WITH
          Direction <- RuleDirection, FdEof <- RuleEof, FdClosed <- NeverClosed,
          Interest <- RuleInterest, Callback <- RuleCallback, Cancel <- NoCancel,
          Ready <- RuleReady, HungUp <- RuleHungUp

RouterTick(v, ms) ==
  [v EXCEPT !.router.nics = [i \in DOMAIN @ |-> InterfaceTick(@[i], ms)]]

\* One turn of the thread: an event, the callbacks of all the rules that are ready, and a
\* tick of both interfaces, however little time has passed.
Turn(v) ==
  RouterTick(FoldOver(Loop!Handle, v, Loop!Revents(v, Loop!Setup(v, Rules).polled)), 1)

-----------------------------------------------------------------------------
\* The routes program_body() adds.
WithRoutes(r, own, far, hop) ==
  AddRoute(AddRoute(AddRoute(r, RouteEntry(own, LanPrefix, Direct, HostSide)),
                    RouteEntry(ClientRouter, LanPrefix, Direct, InternetSide)),
           RouteEntry(far, LanPrefix, hop, InternetSide))

\* A program as it starts: run is the number of the run, its UDP address and its port.
Program(s, run) ==
  LET client == s = "client"
      ip == IF client THEN ClientIp ELSE ServerIp
      gate == IF client THEN ClientGate ELSE ServerGate
      nics == <<NewInterface(<<s, run, "gate">>, gate),
                NewInterface(<<s, run, "router">>, IF client THEN ClientRouter ELSE ServerRouter)>>
  IN  [run |-> run, nic |-> NewInterface(<<s, run, "host">>, ip), gate |-> gate,
       adapter |-> IF client
                   THEN NewAdapter([ip |-> ip, port |-> run], [ip |-> ServerIp, port |-> ServerPort], FALSE)
                   ELSE NewAdapter([ip |-> ip, port |-> ServerPort], [ip |-> Nobody, port |-> 0], TRUE),
       router |-> IF client THEN WithRoutes(NewRouter(nics, FALSE), ClientIp, ServerIp, ServerRouter)
                  ELSE WithRoutes(NewRouter(nics, FALSE), ServerIp, ClientIp, ClientRouter),
       toRouter |-> <<>>, toHost |-> <<>>, sent |-> <<>>, down |-> <<>>, eof |-> FALSE,
       tcp |-> NewConnection(Capacity, Capacity, Isn), heard |-> {}]

UdpDatagram(v, payload) == [source |-> v.run, payload |-> payload]

\* "let bouncer know where we are": an empty datagram, three times.
Hellos(v) == [i \in 1..3 |-> UdpDatagram(v, Hello)]

\* The client calls connect() at once.
Started(s, run) ==
  IF s = "client" THEN HostSends([Program(s, run) EXCEPT !.tcp = ConnConnect(@)]) ELSE Program(s, run)

Init ==
  /\ side = [s \in Side |-> Started(s, 1)]
  /\ peers = [s \in Side |-> Nobody]
  /\ up = [s \in Side |-> Hellos(side[s])]
  /\ losses = 0

\* What a callback sent to the Internet goes under way.
Become(s, v) ==
  /\ side' = [side EXCEPT ![s] = [v EXCEPT !.sent = <<>>]]
  /\ up' = [up EXCEPT ![s] = @ \o [i \in DOMAIN v.sent |-> UdpDatagram(v, v.sent[i])]]

NetworkTurn(s) ==
  /\ Loop!PollReturns(side[s], Loop!Setup(side[s], Rules).polled)
  /\ \E v \in {Turn(side[s])} : Become(s, v)
  /\ UNCHANGED <<peers, losses>>

\* Rule 1 of the socket: interested while the connection is active.
HostReceives(s) ==
  /\ side[s].toHost # <<>> /\ side[s].tcp.active
  /\ \E r \in {HostRead(side[s], Head(side[s].toHost))} :
       side' = [side EXCEPT ![s] =
                  IF r.segs = <<>> THEN r.host
                  ELSE HostSends([r.host EXCEPT !.tcp = SegmentReceived(@, r.segs[1]),
                                                !.heard = @ \cup {r.segs[1].sport}])]
  /\ UNCHANGED <<peers, up, losses>>

\* connect() has returned.
Connected == ~In(side["client"].tcp, "SYN_SENT")

\* The bytes of a run: 11, 12, ... of the first, 21, 22, ... of the second.
Typed(run) == [i \in 1..MaxData |-> 10 * run + i]

\* Rule 2 of the socket: the client's next byte.
ClientWrites ==
  /\ Connected /\ side["client"].tcp.active
  /\ \E n \in {side["client"].tcp.sender.stream.written} :
       /\ n < MaxData
       /\ side' = [side EXCEPT !["client"] =
                     HostSends([@ EXCEPT !.tcp = ConnWrite(@, <<Typed(side["client"].run)[n + 1]>>)])]
  /\ UNCHANGED <<peers, up, losses>>

-----------------------------------------------------------------------------
(* The bouncer *)

\* Faulty variant of Bounce: passes an empty datagram on.
BounceAll(s) ==
  /\ up[s] # <<>>
  /\ peers' = [peers EXCEPT ![s] = Head(up[s]).source]
  /\ up' = [up EXCEPT ![s] = Tail(@)]
  /\ side' = IF peers[Other(s)] = side[Other(s)].run
             THEN [side EXCEPT ![Other(s)].down = Append(@, Head(up[s]).payload)] ELSE side
  /\ UNCHANGED losses

\* What is sent to a program that has ended is lost.
Bounce(s) ==
  /\ up[s] # <<>>
  /\ peers' = [peers EXCEPT ![s] = Head(up[s]).source]
  /\ up' = [up EXCEPT ![s] = Tail(@)]
  /\ side' = IF peers[Other(s)] = side[Other(s)].run /\ Head(up[s]).payload # Hello
             THEN [side EXCEPT ![Other(s)].down = Append(@, Head(up[s]).payload)] ELSE side
  /\ UNCHANGED losses

LoseDatagram(s) ==
  /\ up[s] # <<>> /\ losses < MaxLosses
  /\ up' = [up EXCEPT ![s] = Tail(@)]
  /\ losses' = losses + 1
  /\ UNCHANGED <<side, peers>>

\* The client's program ends and is run again.
RunAnew ==
  /\ side["client"].run < MaxRuns
  /\ \E v \in {Started("client", side["client"].run + 1)} :
       /\ side' = [side EXCEPT !["client"] = v]
       /\ up' = [up EXCEPT !["client"] = @ \o Hellos(v)]
  /\ UNCHANGED <<peers, losses>>

-----------------------------------------------------------------------------
\* Nothing is under way: only then do timers make anything happen.
Quiet ==
  \A s \in Side :
    /\ up[s] = <<>> /\ side[s].toRouter = <<>> /\ side[s].toHost = <<>> /\ side[s].down = <<>>
    /\ \A i \in DOMAIN side[s].router.nics : side[s].router.nics[i].framesOut = <<>>

\* How long it is until something expires.
NicTimeouts(n) == {n.arpTable[ip].ttl : ip \in DOMAIN n.arpTable} \cup Range(n.pending)
Timeouts(v) ==
  LET t == v.tcp.sender.timer
  IN  UNION {NicTimeouts(n) : n \in Range(v.router.nics)}
      \cup (IF v.tcp.active THEN NicTimeouts(v.nic) ELSE {})
      \cup (IF v.tcp.active /\ t.running THEN {t.timeOut - t.count} ELSE {})
AllTimeouts == UNION {Timeouts(side[s]) : s \in Side}

\* The two network threads and the two sockets' loops time out until something expires.
Elapse ==
  /\ Quiet /\ AllTimeouts # {}
  /\ \E ms \in {Min(AllTimeouts)} :
       side' = [s \in Side |-> HostTick(RouterTick(side[s], ms), ms)]
  /\ UNCHANGED <<peers, up, losses>>

Next ==
  \/ \E s \in Side :
       NetworkTurn(s) \/ HostReceives(s) \/ Bounce(s) \/ LoseDatagram(s)
  \/ ClientWrites \/ RunAnew \/ Elapse

(* Fairness: the threads and the bouncer are scheduled, and time passes.  It is weak     *)
(* fairness of these actions with the enabling conditions written out.                   *)

Fairness ==
  /\ \A s \in Side :
       /\ []<>~Loop!PollReturns(side[s], Loop!Setup(side[s], Rules).polled)
            \/ []<><<NetworkTurn(s)>>_vars
       /\ []<>(side[s].toHost = <<>> \/ ~side[s].tcp.active) \/ []<><<HostReceives(s)>>_vars
       /\ []<>(up[s] = <<>>) \/ []<><<Bounce(s)>>_vars
  /\ []<>~(Quiet /\ AllTimeouts # {}) \/ []<><<Elapse>>_vars

Spec == Init /\ [][Next]_vars /\ Fairness

-----------------------------------------------------------------------------
\* TCP is given only segments of its own connection, whatever the interfaces queued, the
\* routers dropped and an earlier run of the client left behind, although every run uses the
\* same sequence numbers: the server hears one client only and has only bytes of that run, in
\* order, and connect() returns only when the server is bound to that client.
OneConnection ==
  LET server == side["server"]
      client == side["client"]
      got == StreamOut(server.tcp.receiver).data
  IN  /\ \A s \in Side : side[s].heard \subseteq {side[s].adapter.destination.port}
      /\ got # <<>> => got = SubSeq(Typed(server.adapter.destination.port), 1, Len(got))
      /\ Connected /\ client.tcp.active => /\ ~server.adapter.listening
                                          /\ server.adapter.destination = client.adapter.source

\* The client connects and what it writes arrives, across lost requests and replies of ARP,
\* timers that run ahead of time under traffic, and stale table entries, before TCP gives up,
\* unless the server serves an earlier run.  The empty datagrams with which the programs make
\* themselves known must get through to the bouncer and no further: to a network thread one
\* would be the end of its file.
Connects ==
  <>[](\/ /\ In(side["client"].tcp, "ESTABLISHED")
          /\ StreamOut(side["server"].tcp.receiver).written = side["client"].tcp.sender.stream.written
       \/ /\ ~side["server"].adapter.listening
          /\ side["server"].adapter.destination # side["client"].adapter.source)
=============================================================================
