-------------------------- MODULE NetworkSimulator --------------------------
(***************************************************************************)
(* The network simulator (apps/network_simulator.cc): one router, hosts on *)
(* the segments of its interfaces, and tests that send a datagram, run the *)
(* network and compare what each host received with what it expects.  The  *)
(* routes are those of a Lua script or of the built-in topology: any       *)
(* sequence of entries of Candidates.  A test expects a datagram where the *)
(* longest matching route of the table sends it, one hop older.  Hosts may *)
(* also ping, which the simulator's do not.                                *)
(***************************************************************************)
EXTENDS Router, FiniteSets

CONSTANTS Host,
          HostIp,        \* [Host -> IpAddress]
          HostNextHop,   \* [Host -> IpAddress]
          RouterIps,     \* the addresses of the router's interfaces, in order
          Connections,   \* <<interface, hosts>> pairs, in the order frames are exchanged
          FromLua,       \* is the network built from a Lua script?
          Candidates,    \* the route entries that may be added
          MaxRoutes,     \* bound: calls of add_route
          Destinations, Ttls, Senders,   \* what the tests send, and who
          MaxSends,      \* bound: datagrams sent in all
          Rounds         \* rounds of simulate(); 256

VARIABLES router,
          host,      \* [Host -> [nic, inbox, expecting]]
          table,     \* history: the route entries in force
          sent,      \* datagrams sent so far; each has its number as payload
          failed     \* did check() throw?

vars == <<router, host, table, sent, failed>>

NewHost(h) == [nic |-> NewInterface(<<"host", h>>, HostIp[h]), inbox |-> <<>>, expecting |-> <<>>]

Init ==
  /\ \E icmp \in BOOLEAN :
       router = NewRouter([i \in DOMAIN RouterIps |-> NewInterface(<<"router", i>>, RouterIps[i])], icmp)
  /\ host = [h \in Host |-> NewHost(h)]
  /\ table = {} /\ sent = 0 /\ failed = FALSE

\* Routes are added while the network is built; a later entry replaces one for the same prefix.
SamePrefix(a, b) == a.length = b.length /\ Matches(a, b.prefix)
NetworkAddRoute(entry) ==
  /\ sent = 0 /\ Cardinality(table) < MaxRoutes
  /\ router' = AddRoute(router, entry)
  /\ table' = {e \in table : ~SamePrefix(e, entry)} \cup {entry}
  /\ UNCHANGED <<host, sent, failed>>

\* The route a test's author reads off the table, and the host at its next hop.
Hop(dst) ==
  LET matching == {e \in table : Matches(e, dst)}
      best == CHOOSE e \in matching : \A f \in matching : f.length <= e.length
  IN  IF matching = {} THEN {}
      ELSE {h \in Host : /\ HostIp[h] = IF best.nextHop = Direct THEN dst ELSE best.nextHop
                         /\ \E c \in Range(Connections) :
                              c[1] = best.interface /\ h \in Range(c[2])}

\* send_to(), and expect() at the host the datagram must reach.
SendTo(h, dst, ttl) ==
  LET dgram == Datagram(HostIp[h], dst, ttl, "TCP", sent + 1)
  IN  /\ sent < MaxSends /\ ~failed
      /\ host' = [g \in Host |->
                    [host[g] EXCEPT
                       !.nic = IF g = h THEN SendDatagram(@, dgram, HostNextHop[h]) ELSE @,
                       !.expecting = IF ttl > 1 /\ g \in Hop(dst)
                                     THEN Append(@, [dgram EXCEPT !.ttl = @ - 1]) ELSE @]]
      /\ sent' = sent + 1
      /\ UNCHANGED <<router, table, failed>>

\* A host pings the interface of its own segment and expects the answer.
Ping(h) ==
  LET request == Datagram(HostIp[h], HostNextHop[h], DefaultTtl, "ICMP",
                          IcmpMessage("ECHO_REQUEST", 0, sent + 1))
      reply == Datagram(HostNextHop[h], HostIp[h], DefaultTtl, "ICMP",
                        IcmpMessage("ECHO_REPLY", 0, sent + 1))
  IN  /\ sent < MaxSends /\ ~failed
      /\ host' = [host EXCEPT ![h].nic = SendDatagram(@, request, HostNextHop[h]),
                              ![h].expecting = Append(@, reply)]
      /\ sent' = sent + 1
      /\ UNCHANGED <<router, table, failed>>

HostRecvFrame(h, frame) ==
  [h EXCEPT !.inbox = @ \o ReceivedDatagram(h.nic, frame), !.nic = RecvFrame(@, frame)]

\* Every station of a segment gets what the others had queued; what that makes it queue
\* itself waits for the next round.
ExchangeFrames(net, i, hosts) ==
  LET fromRouter == net.router.nics[i].framesOut
      fromHosts(others) == FlattenSeq([k \in DOMAIN hosts |->
                             IF k \in others THEN net.host[hosts[k]].nic.framesOut ELSE <<>>])
      r == FoldOver(LAMBDA x, f : RouterRecvFrame(x, i, f), net.router, fromHosts(DOMAIN hosts))
      got(k) == FoldOver(HostRecvFrame, net.host[hosts[k]],
                         fromRouter \o fromHosts(DOMAIN hosts \ {k}))
      Without(queue, frames) == SubSeq(queue, Len(frames) + 1, Len(queue))
  IN  [router |-> [r EXCEPT !.nics[i].framesOut = Without(@, fromRouter)],
       host |-> [h \in Host |->
                   IF \E k \in DOMAIN hosts : hosts[k] = h
                   THEN [got(CHOOSE k \in DOMAIN hosts : hosts[k] = h) EXCEPT
                           !.nic.framesOut = Without(@, net.host[h].nic.framesOut)]
                   ELSE net.host[h]]]

\* A Lua script's connection to several hosts becomes one connection for each.
LuaConnections == FlattenSeq([c \in DOMAIN Connections |->
                    [k \in DOMAIN Connections[c][2] |-> <<Connections[c][1], <<Connections[c][2][k]>>>>]])

SimulatePhysicalConnections(net) ==
  FoldOver(LAMBDA n, c : ExchangeFrames(n, c[1], c[2]), net,
           IF FromLua THEN LuaConnections ELSE Connections)

Round(net) == SimulatePhysicalConnections([net EXCEPT !.router = Route(@)])

Simulated == FoldOver(LAMBDA net, n : Round(net), [router |-> router, host |-> host],
                      [n \in 1..Rounds |-> n])

\* check(): a host is content when it received exactly what it expects.
CheckPasses(h) == ToBag(h.inbox) = ToBag(h.expecting)

\* simulate(): the rounds, then check() of every host, which throws at the first that is
\* not content.
Simulate ==
  /\ sent > 0 /\ ~failed
  /\ \E net \in {Simulated} :
       /\ router' = net.router
       /\ failed' = \E h \in Host : ~CheckPasses(net.host[h])
       /\ host' = IF failed' THEN net.host
                  ELSE [h \in Host |-> [net.host[h] EXCEPT !.inbox = <<>>, !.expecting = <<>>]]
  /\ UNCHANGED <<table, sent>>

Next ==
  \/ \E entry \in Candidates : NetworkAddRoute(entry)
  \/ \E h \in Senders :
       \/ \E dst \in Destinations, ttl \in Ttls : SendTo(h, dst, ttl)
       \/ Ping(h)
  \/ Simulate

Spec == Init /\ [][Next]_vars

-----------------------------------------------------------------------------
\* No test fails, whatever the routes and whatever is sent together: a datagram reaches the
\* host the longest matching route leads to, once, with its TTL one less; one whose TTL runs
\* out or that has no route reaches nobody; a ping is answered.
NoTestFails == ~router.icmpEnabled => ~failed

\* The trie answers every address as the list of routes does, in whatever order the routes
\* were added and replaced (router.hh:86-121).
TrieIsTable ==
  \A dst \in IpAddress : IsLongestMatch(LongestPrefixMatch(router.trie, dst), table, dst)

\* The error reports that wait in the router for ARP or have reached a host.
Queues(f) == FlattenSeq(SetToSeq({f[x] : x \in DOMAIN f}))
IsReport(d) == d.proto = "ICMP" /\ d.payload.type \in {"DESTINATION_UNREACHABLE", "TIME_EXCEEDED"}
Reports ==
  SelectSeq(FlattenSeq([i \in DOMAIN RouterIps |-> Queues(router.nics[i].waiting)])
              \o Queues([h \in Host |-> host[h].inbox]), IsReport)

\* An error report is about a datagram that had no route or no hop left and is the only one
\* about it; it is addressed to that datagram's source, and no other host ever receives it.
\* It need not get there: it leaves by interface 0 or by the route's interface, whichever
\* the source is on (router.cc:91-93, 103-105).  Without set_icmp_enabled(true) there is none.
ReportsHaveCause ==
  /\ Reports # <<>> => router.icmpEnabled
  /\ \A k \in DOMAIN Reports :
       LET about == Reports[k].payload.body
           matching == {e \in table : Matches(e, about.dst)}
       IN  /\ Reports[k].dst = about.src
           /\ IF Reports[k].payload.type = "TIME_EXCEEDED"
              THEN matching # {} /\ about.ttl <= 1 ELSE matching = {}
           /\ \A j \in DOMAIN Reports : Reports[j].payload.body = about => j = k
  /\ \A h \in Host : \A d \in Range(host[h].inbox) :
       IsReport(d) => d.payload.body.src = HostIp[h]

\* The network comes to rest: after the rounds of simulate() no station has a frame left for
\* another, so that more rounds would change nothing.
Stations(c) == {router.nics[c[1]]} \cup {host[h].nic : h \in Range(c[2])}
ComesToRest ==
  [][sent' = sent /\ table' = table =>
       \A c \in Range(Connections) : \A n \in Stations(c)' : n.framesOut = <<>>]_vars
=============================================================================
