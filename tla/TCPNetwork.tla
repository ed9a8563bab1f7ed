----------------------------- MODULE TCPNetwork -----------------------------
(***************************************************************************)
(* Two TCPConnections joined by a datagram network that may lose, repeat   *)
(* and reorder segments.  Each endpoint is driven as TCPSpongeSocket's     *)
(* event loop drives it: rule 1 hands over a received segment, rule 2      *)
(* writes application bytes and ends the outbound stream, rule 3 reads the *)
(* inbound stream, rule 4 puts the queued segments on the network, and the *)
(* loop ticks the connection while it is active.  A connects, B listens.   *)
(* Byte i of either stream is the number i.                                *)
(***************************************************************************)
EXTENDS TCPState, FiniteSets, TLC

CONSTANTS ToSend,        \* [Endpoint -> Nat], bound: bytes each application writes
          IsnOf,         \* [Endpoint -> Seqno]
          SendCap,       \* TCPConfig::send_capacity
          RecvCap,       \* TCPConfig::recv_capacity
          NetCapacity,   \* bound: segments under way in one direction
          QueueBound,    \* bound: segments queued when an event is handled
          Lossy,         \* may the network lose a segment?
          Reorders,      \* may a later segment overtake an earlier one?
          Repeats        \* may a segment arrive more than once?

Endpoint == {"A", "B"}
Peer(e) == IF e = "A" THEN "B" ELSE "A"

ASSUME NetworkAssumption ==
  /\ ToSend \in [Endpoint -> Nat] /\ IsnOf \in [Endpoint -> Seqno]
  /\ SendCap \in Nat /\ RecvCap \in Nat \ {0} /\ NetCapacity \in Nat /\ QueueBound \in Nat
  /\ {Lossy, Reorders, Repeats} \subseteq BOOLEAN
  /\ \A e \in Endpoint : 2 * (ToSend[e] + 3) <= Mod32

VARIABLES conn,   \* the two TCPConnections
          chan    \* chan[e]: segments under way to e, oldest first

vars == <<conn, chan>>

Init ==
  /\ conn = [e \in Endpoint |->
               LET fresh == NewConnection(SendCap, RecvCap, IsnOf[e])
               IN  IF e = "A" THEN ConnConnect(fresh) ELSE fresh]
  /\ chan = [e \in Endpoint |-> <<>>]

Update(e, c) == conn' = [conn EXCEPT ![e] = c]
Without(q, i) == SubSeq(q, 1, i - 1) \o SubSeq(q, i + 1, Len(q))

\* Rule 1: interested while the connection is active.
Receive(e, i) ==
  /\ conn[e].active
  /\ Len(conn[e].segmentsOut) <= QueueBound
  /\ Update(e, SegmentReceived(conn[e], chan[e][i]))
  /\ \/ chan' = [chan EXCEPT ![e] = Without(@, i)]
     \/ Repeats /\ UNCHANGED chan

Lose(e, i) ==
  /\ Lossy
  /\ chan' = [chan EXCEPT ![e] = Without(@, i)]
  /\ UNCHANGED conn

\* Rule 2: the next byte from the application, while there is room for it.  The
\* application writes after connect() (A) or listen_and_accept() (B) has returned, which
\* each loops while the connection is in one of these states.
Outbound(e) == conn[e].sender.stream
Connecting(e) == IF e = "A" THEN {"SYN_SENT"} ELSE {"LISTEN", "SYN_RCVD", "SYN_SENT"}
Connected(e) == \A name \in Connecting(e) : ~In(conn[e], name)

Write(e) ==
  /\ conn[e].active /\ Connected(e) /\ ~Outbound(e).ended
  /\ RemainingCapacity(Outbound(e)) > 0
  /\ Outbound(e).written < ToSend[e]
  /\ Update(e, ConnWrite(conn[e], <<Outbound(e).written + 1>>))
  /\ UNCHANGED chan

\* Rule 2 at end of file on the application's socket.
Shutdown(e) ==
  /\ conn[e].active /\ Connected(e) /\ ~Outbound(e).ended
  /\ Outbound(e).written = ToSend[e]
  /\ Update(e, EndInputStream(conn[e]))
  /\ UNCHANGED chan

\* Rule 3: the application takes part of what is buffered.
Read(e, n) ==
  /\ n <= BufferSize(StreamOut(conn[e].receiver))
  /\ Update(e, [conn[e] EXCEPT !.receiver.reassembler.output = PopOutput(@, n)])
  /\ UNCHANGED chan

\* Rule 4: everything queued goes out; what the network has no room for is lost.
Transmit(e) ==
  /\ conn[e].segmentsOut # <<>>
  /\ chan' = [chan EXCEPT ![Peer(e)] =
                LET all == @ \o conn[e].segmentsOut
                IN  SubSeq(all, 1, Lesser(Len(all), NetCapacity))]
  /\ Update(e, [conn[e] EXCEPT !.segmentsOut = <<>>])

Tick(e) ==
  /\ conn[e].active
  /\ Len(conn[e].segmentsOut) <= QueueBound
  /\ Update(e, ConnTick(conn[e], 1))
  /\ UNCHANGED chan

Reachable(e) == IF Reorders THEN 1..Len(chan[e]) ELSE 1..Lesser(Len(chan[e]), 1)

Next ==
  \E e \in Endpoint :
    \/ \E i \in Reachable(e) : Receive(e, i)
    \/ \E i \in Reachable(e) : Lose(e, i)
    \/ Write(e)
    \/ Shutdown(e)
    \/ \E n \in 1..RecvCap : Read(e, n)
    \/ Transmit(e)
    \/ Tick(e)

Spec == Init /\ [][Next]_vars

-----------------------------------------------------------------------------

Inbound(e) == StreamOut(conn[e].receiver)
Una(e) == conn[e].sender.nextSeqno - conn[e].sender.inFlight
Failed(e) == Outbound(e).error

\* End to end: what each application reads is what the other wrote, in order, without
\* gap or repetition, whatever the network does; the stream ends only where it was ended.
\* A connection that closes without error closes with both streams complete: its own was
\* received by the peer to the FIN, the peer's was received to the FIN.
StreamsDelivered ==
  \A e \in Endpoint :
    LET in == Inbound(e)
    IN  /\ in.data = [i \in 1..BufferSize(in) |-> in.read + i]
        /\ in.written <= Outbound(Peer(e)).read
        /\ in.ended => Outbound(Peer(e)).ended /\ in.written = Outbound(Peer(e)).written
        /\ ~conn[e].active /\ ~Failed(e) => Outbound(e).ended /\ Inbound(Peer(e)).ended /\ in.ended

\* The two ends agree on how far the stream is: the sender takes for acknowledged only
\* what the receiver has assembled, and the receiver has nothing that was not sent.
AcksAreTrue ==
  \A e \in Endpoint :
    LET r == conn[Peer(e)].receiver
        got == IF r.hasIsn THEN AbsoluteAckno(r) ELSE 0
    IN  Una(e) <= got /\ got <= conn[e].sender.nextSeqno

\* At least one end takes the active-close role and lingers: never do both treat the
\* other's FIN as having come first.
OneEndLingers ==
  (\A e \in Endpoint : conn[e].active) => \E e \in Endpoint : conn[e].linger

\* On a network that keeps order a sender never overruns the window its peer has open,
\* but for the one number with which it probes a closed one: the last window heard is
\* the peer's, and what the peer has read since only widens it.
NoOverrun ==
  \A e \in Endpoint :
    LET r == conn[Peer(e)].receiver
    IN  r.hasIsn => conn[e].sender.nextSeqno <= AbsoluteAckno(r) + Larger(WindowSize(r), 1)

\* The arrows between the states of the TCP specification, with those this code adds.  The
\* peer's FIN may come with the acknowledgment that lets the own FIN go (ESTABLISHED to
\* CLOSING), or with the first acknowledgment of the own SYN, when the one of the handshake
\* was lost (SYN_RCVD to CLOSE_WAIT).  And an acknowledgment of the SYN may come before the
\* peer's own SYN: connect() returns then, and the application may write and close.  The four
\* states this leads to, the _EARLY ones, are not among the names of TCPState.
Named ==
  [ACKED_EARLY     |-> <<"LISTEN",   "SYN_ACKED", TRUE, TRUE>>,
   FIN_SENT_EARLY  |-> <<"LISTEN",   "FIN_SENT",  TRUE, TRUE>>,
   FIN_ACKED_EARLY |-> <<"LISTEN",   "FIN_ACKED", TRUE, TRUE>>,
   FIN_RCVD_EARLY  |-> <<"FIN_RECV", "SYN_SENT",  TRUE, TRUE>>] @@ Official

Arrow ==
  [LISTEN          |-> {"SYN_RCVD", "SYN_SENT"},
   SYN_SENT        |-> {"ESTABLISHED", "ACKED_EARLY"},
   ACKED_EARLY     |-> {"ESTABLISHED", "FIN_SENT_EARLY", "FIN_WAIT_1"},
   FIN_SENT_EARLY  |-> {"FIN_ACKED_EARLY", "FIN_WAIT_1", "FIN_WAIT_2"},
   FIN_ACKED_EARLY |-> {"FIN_WAIT_2"},
   SYN_RCVD        |-> {"ESTABLISHED", "CLOSE_WAIT", "FIN_RCVD_EARLY"},
   FIN_RCVD_EARLY  |-> {"CLOSE_WAIT", "CLOSING"},
   ESTABLISHED     |-> {"FIN_WAIT_1", "CLOSE_WAIT", "CLOSING"},
   FIN_WAIT_1      |-> {"FIN_WAIT_2", "CLOSING", "TIME_WAIT"},
   FIN_WAIT_2      |-> {"TIME_WAIT"},
   CLOSING         |-> {"TIME_WAIT"},
   TIME_WAIT       |-> {"CLOSED"},
   CLOSE_WAIT      |-> {"LAST_ACK"},
   LAST_ACK        |-> {"CLOSED"},
   CLOSED          |-> {},
   RESET           |-> {}]

Steps ==
  {<<Named[step[1]], Named[step[2]]>> : step \in
     {p \in (DOMAIN Named) \X (DOMAIN Named) :
        p[2] \in {p[1]} \cup Arrow[p[1]] \cup (IF Named[p[1]][3] THEN {"RESET"} ELSE {})}}

\* Every endpoint is in one of these states, and every step of it follows an arrow or, from a
\* state that is still active, leads to RESET: whatever the network loses, a connection never
\* goes back, skips its handshake, or comes to life again, and the states without a name are
\* left once the peer's SYN or its acknowledgment arrives.
FollowsDiagram ==
  [][\A e \in Endpoint :
       conn'[e] = conn[e] \/ <<State(conn[e]), State(conn'[e])>> \in Steps]_vars
=============================================================================
