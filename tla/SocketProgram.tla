--------------------------- MODULE SocketProgram ----------------------------
(***************************************************************************)
(* A program over a TCPSpongeSocket (apps/tcp_udp.cc): it connects or      *)
(* listens, copies between the terminal and the socket until both          *)
(* directions are finished, and waits for the connection to close, while   *)
(* the socket's own thread runs the TCPConnection.  The two threads share  *)
(* the socket pair and the abort flag, and each step of either is one poll *)
(* or one callback of its event loop.  The peer is another TCPConnection   *)
(* behind a network that keeps order; it may be reset, and the owner may   *)
(* destroy the socket in the middle.                                       *)
(***************************************************************************)
EXTENDS TCPSpongeSocket

CONSTANTS SendCap, RecvCap, Isn, PeerIsn,
          ToType,       \* the bytes of standard input
          ToSend,       \* the bytes the peer's application writes
          InputEnd,     \* the end of standard input: a hangup ("pipe") or a read of nothing ("file")
          Faults        \* the faults that may happen (one at most)

VARIABLES w,        \* what the callbacks act on: see TCPSpongeSocket
          thread,   \* the TCP thread: where it is, its rules and what is left of this turn
          owner,    \* the owner's thread, likewise
          abort,    \* _abort
          peer,     \* the peer's connection, what its application has left to write and has read
          fault     \* the fault that happened, or "no"

vars == <<w, thread, owner, abort, peer, fault>>

TcpRules == <<"tcp1", "tcp2", "tcp3", "tcp4">>
CopyRules == <<"copy1", "copy2", "copy3", "copy4">>

RuleDirection(r) == IF r \in {"tcp1", "tcp2", "copy1", "copy3"} THEN "In" ELSE "Out"
RuleEof(v, r) == \/ r = "tcp2" /\ v.tcp.eof
                 \/ r = "copy1" /\ v.copy.inputEof
                 \/ r = "copy3" /\ v.copy.socketEof
RuleClosed(v, r) == r = "copy4" /\ v.copy.outputClosed
RuleInterest(v, r) ==
  CASE r = "tcp1" -> Rule1Interest(v) [] r = "tcp2" -> Rule2Interest(v)
    [] r = "tcp3" -> Rule3Interest(v) [] r = "tcp4" -> Rule4Interest(v)
    [] r = "copy1" -> Copy1Interest(v) [] r = "copy2" -> Copy2Interest(v)
    [] r = "copy3" -> Copy3Interest(v) [] r = "copy4" -> Copy4Interest(v)
RuleCallback(v, r) ==
  CASE r = "tcp1" -> Rule1(v) [] r = "tcp2" -> Rule2(v) [] r = "tcp3" -> Rule3(v)
    [] r = "tcp4" -> Rule4(v) [] r = "copy1" -> Copy1(v) [] r = "copy2" -> Copy2(v)
    [] r = "copy3" -> Copy3(v) [] r = "copy4" -> Copy4(v)
RuleCancel(v, r) ==
  CASE r = "tcp2" -> Rule2Cancel(v) [] r \in {"copy1", "copy2"} -> EndOutbound(v)
    [] r \in {"copy3", "copy4"} -> EndInbound(v) [] OTHER -> v

\* What poll(2) reports.  A pipe at its end hangs up; a file at its end is readable.
RuleReady(v, r) ==
  CASE r = "tcp1" -> v.net.toLocal # <<>>
    [] r = "tcp2" -> Readable(v, "toThread") [] r = "tcp3" -> Writable(v, "toOwner")
    [] r = "copy1" -> v.copy.input # <<>> \/ v.copy.inputEnd = "file"
    [] r = "copy2" -> Writable(v, "toThread") [] r = "copy3" -> Readable(v, "toOwner")
    [] OTHER -> TRUE
RuleHungUp(v, r) ==
  \/ r \in {"tcp2", "tcp3", "copy2", "copy3"} /\ v.pair.shut = Directions
  \/ r = "copy1" /\ v.copy.inputEnd = "pipe"

Loop == INSTANCE EventLoop WITH
          Direction <- RuleDirection, FdEof <- RuleEof, FdClosed <- RuleClosed,
          Interest <- RuleInterest, Callback <- RuleCallback, Cancel <- RuleCancel,
          Ready <- RuleReady, HungUp <- RuleHungUp

-----------------------------------------------------------------------------
At(place) == [at |-> place, polled |-> <<>>, todo |-> <<>>, idle |-> TRUE]

\* poll(2) returns: what is to be done, as it was at that moment.
Woken(process) ==
  [process EXCEPT !.at = "rules",
                  !.todo = SelectSeq(Loop!Revents(w, process.polled), Loop!Concerned)]

\* One entry handled: the rule stays unless it is defunct.
Handled(process) ==
  LET entry == Head(process.todo)
  IN  [process EXCEPT !.todo = Tail(@), !.idle = FALSE,
                      !.polled = IF Loop!Defunct(entry)
                                 THEN SelectSeq(@, LAMBDA e : e.rule # entry.rule) ELSE @]

\* The next wait_next_event(): into poll(2), or out of the loop.
Waiting(s, out) ==
  IF Loop!NothingToPoll(s.polled) THEN At(out) ELSE [At("poll") EXCEPT !.polled = s.polled]

RulesOf(process) == [i \in 1..Len(process.polled) |-> process.polled[i].rule]

Over == owner.at = "done" \/ w.failed # "no"

\* Time passes only while no datagram is under way.
Quiet == w.net.toPeer = <<>> /\ w.net.toLocal = <<>>

-----------------------------------------------------------------------------
(* The TCP thread *)

\* The condition of connect() or of listen_and_accept() to go on with its loop.
StillConnecting(c) ==
  \/ owner.at = "connect" /\ In(c, "SYN_SENT")
  \/ owner.at = "listen" /\ \E name \in {"LISTEN", "SYN_RCVD", "SYN_SENT"} : In(c, name)

\* The owner goes on once connect() has returned.
Connected(v) ==
  IF owner.at \in {"connect", "listen"} /\ ~StillConnecting(v.tcp.conn)
  THEN Waiting(Loop!Setup(v, CopyRules), "closing") ELSE owner

\* The rest of a turn of _tcp_loop, and the start of the next one.
TcpTurn(v, ms, rules) ==
  IF abort THEN w' = v /\ thread' = At("ending") /\ UNCHANGED owner
  ELSE \E ticked \in {IF v.tcp.conn.active THEN [v EXCEPT !.tcp.conn = ConnTick(@, ms)] ELSE v} :
       \E s \in {Loop!Setup(ticked, rules)} :
         /\ w' = s.w
         /\ thread' = Waiting(s, "ending")
         /\ owner' = Connected(ticked)

\* A turn without a callback takes time; the others are quick.
TcpGoOn(v, process) ==
  IF process.todo = <<>>
  THEN TcpTurn(v, IF process.idle /\ Quiet THEN 1 ELSE 0, RulesOf(process))
  ELSE w' = v /\ thread' = process /\ UNCHANGED owner

TcpPoll ==
  /\ ~Over /\ thread.at = "poll" /\ Loop!PollReturns(w, thread.polled)
  /\ TcpGoOn(w, Woken(thread))
  /\ UNCHANGED <<abort, peer, fault>>

TcpTimeout ==
  /\ ~Over /\ thread.at = "poll" /\ ~Loop!PollReturns(w, thread.polled) /\ Quiet
  /\ TcpTurn(w, 1, RulesOf(thread))
  /\ UNCHANGED <<abort, peer, fault>>

TcpRule ==
  /\ ~Over /\ thread.at = "rules"
  /\ \E v \in {Loop!Handle(w, Head(thread.todo))} : TcpGoOn(v, Handled(thread))
  /\ UNCHANGED <<abort, peer, fault>>

\* The end of _tcp_main.
TcpEnd ==
  /\ ~Over /\ thread.at = "ending"
  /\ w' = ShutDown(w, Directions)
  /\ thread' = At("done")
  /\ UNCHANGED <<owner, abort, peer, fault>>

-----------------------------------------------------------------------------
(* The owner's thread: bidirectional_stream_copy, then wait_until_closed *)

OwnerGoOn(v, process) ==
  IF process.todo = <<>>
  THEN \E s \in {Loop!Setup(v, RulesOf(process))} : w' = s.w /\ owner' = Waiting(s, "closing")
  ELSE w' = v /\ owner' = process

OwnerPoll ==
  /\ ~Over /\ owner.at = "poll" /\ Loop!PollReturns(w, owner.polled)
  /\ OwnerGoOn(w, Woken(owner))
  /\ UNCHANGED <<thread, abort, peer, fault>>

OwnerRule ==
  /\ ~Over /\ owner.at = "rules"
  /\ \E v \in {Loop!Handle(w, Head(owner.todo))} : OwnerGoOn(v, Handled(owner))
  /\ UNCHANGED <<thread, abort, peer, fault>>

WaitUntilClosed ==
  /\ ~Over /\ owner.at = "closing"
  /\ w' = ShutDown(w, Directions)
  /\ owner' = At("joining")
  /\ UNCHANGED <<thread, abort, peer, fault>>

OwnerJoin ==
  /\ ~Over /\ owner.at = "joining" /\ thread.at = "done"
  /\ owner' = At("done")
  /\ UNCHANGED <<w, thread, abort, peer, fault>>

-----------------------------------------------------------------------------
(* The user and the peer *)

EndTyping ==
  /\ ~Over /\ w.copy.inputEnd = "no"
  /\ w' = [w EXCEPT !.copy.inputEnd = InputEnd]
  /\ UNCHANGED <<thread, owner, abort, peer, fault>>

From(source, segs) == [i \in DOMAIN segs |-> [source |-> source, payload |-> segs[i]]]

\* The peer's connection becomes c: its application reads all, its segments leave.
PeerBecomes(c, rest, v) ==
  /\ peer' = [conn |-> [c EXCEPT !.segmentsOut = <<>>,
                                 !.receiver.reassembler.output = PopOutput(@, BufferSize(@))],
              left |-> rest, got |-> peer.got \o StreamOut(c.receiver).data]
  /\ w' = [v EXCEPT !.net.toLocal = @ \o From("peer", c.segmentsOut)]

PeerReceive ==
  /\ ~Over /\ w.net.toPeer # <<>>
  /\ \E v \in {[w EXCEPT !.net.toPeer = Tail(@)]} :
       IF peer.conn.active /\ Head(w.net.toPeer).to = "peer"
       THEN PeerBecomes(SegmentReceived(peer.conn, Head(w.net.toPeer).payload), peer.left, v)
       ELSE w' = v /\ UNCHANGED peer
  /\ UNCHANGED <<thread, owner, abort, fault>>

\* Its application acts when no datagram waits.
PeerMayWrite == /\ ~Over /\ w.net.toPeer = <<>> /\ peer.conn.active
                /\ SenderSummary(peer.conn.sender) \notin {"CLOSED", "SYN_SENT"}

PeerWrite ==
  /\ PeerMayWrite /\ peer.left # <<>>
  /\ PeerBecomes(ConnWrite(peer.conn, peer.left), <<>>, w)
  /\ UNCHANGED <<thread, owner, abort, fault>>

PeerClose ==
  /\ PeerMayWrite /\ peer.left = <<>> /\ ~peer.conn.sender.stream.ended
  /\ PeerBecomes(EndInputStream(peer.conn), <<>>, w)
  /\ UNCHANGED <<thread, owner, abort, fault>>

-----------------------------------------------------------------------------
(* Faults *)

\* The peer is gone, and with it what it knew of the connection.
PeerGone ==
  peer' = [peer EXCEPT !.conn = [NewConnection(SendCap, RecvCap, PeerIsn) EXCEPT !.active = FALSE],
                       !.left = <<>>]

PeerReset ==
  /\ ~Over /\ fault = "no" /\ "reset" \in Faults /\ peer.conn.active
  /\ fault' = "reset" /\ PeerGone
  /\ w' = [w EXCEPT !.net.toLocal = @ \o From("peer", SetRstState(peer.conn, TRUE).segmentsOut)]
  /\ UNCHANGED <<thread, owner, abort>>

\* Stray segments from elsewhere, such as a connection of the past leaves behind, arrive
\* until the socket is connected (bound: one at a time): resets, and data with the numbers
\* the peer's first bytes will have.
Stray(reset) ==
  IF reset THEN SetRstState(peer.conn, TRUE).segmentsOut
  ELSE <<[EmptySegment(Wrap(1, PeerIsn)) EXCEPT !.payload = <<0>>]>>

StrayArrives ==
  /\ ~Over /\ owner.at \in {"connect", "listen"}
  /\ \A i \in DOMAIN w.net.toLocal : w.net.toLocal[i].source = "peer"
  /\ \E reset \in BOOLEAN :
       w' = [w EXCEPT !.net.toLocal = @ \o From("elsewhere", Stray(reset))]
  /\ UNCHANGED <<thread, owner, abort, peer, fault>>

\* ~TCPSpongeSocket with the thread still running: the owner left the copy early.
OwnerDestroys ==
  /\ ~Over /\ fault = "no" /\ "abort" \in Faults /\ owner.at = "poll"
  /\ fault' = "abort" /\ abort' = TRUE /\ owner' = At("joining")
  /\ UNCHANGED <<w, thread, peer>>

-----------------------------------------------------------------------------
Init ==
  /\ \E local \in {NewConnection(SendCap, RecvCap, Isn)},
        remote \in {NewConnection(SendCap, RecvCap, PeerIsn)} :
       \/ /\ owner = At("connect")
          /\ peer = [conn |-> remote, left |-> ToSend, got |-> <<>>]
          /\ w = [pair |-> NewPair, copy |-> NewCopy(ToType), failed |-> "no",
                  tcp |-> NewThread(ConnConnect(local)),
                  net |-> [adapter |-> NewAdapter("local", "peer", FALSE),
                           toPeer |-> <<>>, toLocal |-> <<>>]]
       \/ /\ owner = At("listen")
          /\ peer = [conn |-> [ConnConnect(remote) EXCEPT !.segmentsOut = <<>>],
                     left |-> ToSend, got |-> <<>>]
          /\ w = [pair |-> NewPair, copy |-> NewCopy(ToType), failed |-> "no", tcp |-> NewThread(local),
                  net |-> [adapter |-> NewAdapter("local", "nobody", TRUE), toPeer |-> <<>>,
                           toLocal |-> From("peer", ConnConnect(remote).segmentsOut)]]
  /\ thread = Waiting(Loop!Setup(w, TcpRules), "ending")
  /\ abort = FALSE /\ fault = "no"

TcpThread == TcpPoll \/ TcpTimeout \/ TcpRule \/ TcpEnd
OwnerThread == OwnerPoll \/ OwnerRule \/ WaitUntilClosed \/ OwnerJoin
Peer == PeerReceive \/ PeerWrite \/ PeerClose
Fault == PeerReset \/ StrayArrives \/ OwnerDestroys

Next == TcpThread \/ OwnerThread \/ EndTyping \/ Peer \/ Fault

(* Fairness: the threads are scheduled, the network delivers, the user ends the input   *)
(* and the peer's application ends its stream.  It is weak fairness of the five actions *)
(* with the enabling condition of <<action>>_vars written out.                          *)

\* A tick changes nothing once the linger time is over and no timer runs.
TickMatters(c) == c.active /\ (c.sinceLast < LingerTime \/ c.sender.timer.running)

\* Some rule is ready or defunct: a hangup that concerns no rule only makes the loop spin.
HasWork(process) ==
  \E i \in DOMAIN process.polled : Loop!Concerned(Loop!Revents(w, process.polled)[i])

TcpCanMove ==
  /\ ~Over /\ thread.at # "done"
  /\ thread.at = "poll" => \/ HasWork(thread)
                           \/ Quiet /\ TickMatters(w.tcp.conn)
                           \/ abort /\ (Quiet \/ Loop!PollReturns(w, thread.polled))
OwnerCanMove ==
  /\ ~Over
  /\ \/ owner.at = "poll" /\ HasWork(owner)
     \/ owner.at \in {"rules", "closing"}
     \/ owner.at = "joining" /\ thread.at = "done"
UserCanMove == ~Over /\ w.copy.inputEnd = "no"
PeerCanWrite == PeerMayWrite /\ ~peer.conn.sender.stream.ended

Fairness ==
  /\ []<>~TcpCanMove \/ []<><<TcpThread>>_vars
  /\ []<>~OwnerCanMove \/ []<><<OwnerThread>>_vars
  /\ []<>~UserCanMove \/ []<><<EndTyping>>_vars
  /\ []<>(Over \/ w.net.toPeer = <<>>) \/ []<><<PeerReceive>>_vars
  /\ []<>~PeerCanWrite \/ []<><<PeerWrite \/ PeerClose>>_vars

Spec == Init /\ [][Next]_vars /\ Fairness

-----------------------------------------------------------------------------

\* No thread writes into a direction of the socket pair that is shut down, or reads one
\* that has nothing to give (either ends the process), unless the connection failed.
DiesOnlyOfFailure == w.failed # "no" => fault = "reset"

\* What reaches standard output is a prefix of what the peer wrote, and what the peer
\* reads is a prefix of what was typed, across partial writes, shutdowns and faults.  When
\* the program ends and neither end broke the connection off, every byte has arrived in
\* both directions.
BytesDelivered ==
  /\ w.copy.output = SubSeq(ToSend, 1, Len(w.copy.output))
  /\ peer.got = SubSeq(ToType, 1, Len(peer.got))
  /\ owner.at = "done" /\ fault = "no" => w.copy.output = ToSend /\ peer.got = ToType

\* The program ends: the copy finishes, and the join of the TCP thread returns, also after
\* a reset and after the socket is destroyed early.
ProgramEnds == <>(owner.at = "done" \/ w.failed # "no")
=============================================================================
