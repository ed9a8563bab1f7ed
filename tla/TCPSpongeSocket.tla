-------------------------- MODULE TCPSpongeSocket ---------------------------
(***************************************************************************)
(* The socket (libsponge/tcp_helpers/tcp_sponge_socket.cc): a TCPConnection*)
(* run by a thread of its own, joined to the owner's thread by a pair of   *)
(* connected stream sockets.  Here are the pair, the four rules of the TCP *)
(* thread's event loop, and the four of bidirectional_stream_copy(), with  *)
(* which the owner copies between its end of the pair and the terminal     *)
(* (apps/bidirectional_stream_copy.cc).                                    *)
(*                                                                         *)
(* The state w the callbacks act on has the fields                         *)
(*   pair  the socket pair: bytes under way in either direction, and the   *)
(*         directions that are shut down                                   *)
(*   tcp   the TCPConnection, and what the thread knows of its fd and      *)
(*         of the two directions                                           *)
(*   copy  the owner's two buffers, and what it knows of its fds           *)
(*   net   the UDP adapter, datagrams under way to the peer and from it    *)
(*   failed how the process died, if it did                                *)
(***************************************************************************)
EXTENDS TCPState, FdAdapter

CONSTANTS PairCapacity,   \* what the kernel holds of one direction of the pair
          CopyCapacity    \* the buffers of bidirectional_stream_copy()

ASSUME PairAssumption == PairCapacity \in Nat \ {0} /\ CopyCapacity \in Nat \ {0}

-----------------------------------------------------------------------------
(* The socket pair, from how the code uses it: AF_UNIX, SOCK_STREAM, non-blocking *)

NewPair == [toThread |-> <<>>, toOwner |-> <<>>, shut |-> {}]
Directions == {"toThread", "toOwner"}

\* shutdown(2): no more bytes enter the direction; those in it can still be read.
ShutDown(w, directions) == [w EXCEPT !.pair.shut = @ \cup directions]

\* A read finds bytes, or the end once the direction is shut down.
Readable(w, dir) == w.pair[dir] # <<>> \/ dir \in w.pair.shut
Taken(w, dir, limit) == SubSeq(w.pair[dir], 1, Lesser(limit, Len(w.pair[dir])))
AtEnd(w, dir) == w.pair[dir] = <<>>
ReadPair(w, dir, limit) ==
  IF ~Readable(w, dir) THEN [w EXCEPT !.failed = "threw"]   \* EAGAIN
  ELSE [w EXCEPT !.pair[dir] = SubSeq(@, Len(Taken(w, dir, limit)) + 1, Len(@))]

\* A write takes what fits; into a direction that is shut down it raises SIGPIPE, which
\* nothing in the code catches or blocks.  A write of nothing returns at once.
Writable(w, dir) == Len(w.pair[dir]) < PairCapacity

Fitting(w, dir, data) ==
  SubSeq(data, 1, Lesser(Len(data), PairCapacity - Len(w.pair[dir])))
WritePair(w, dir, data) ==
  IF dir \in w.pair.shut /\ data # <<>> THEN [w EXCEPT !.failed = "killed"]
  ELSE [w EXCEPT !.pair[dir] = @ \o Fitting(w, dir, data)]

-----------------------------------------------------------------------------
(* _initialize_TCP: the rules of the TCP thread *)

NewThread(c) == [conn |-> c, eof |-> FALSE, outShut |-> FALSE, inShut |-> FALSE]
Inbound(w) == StreamOut(w.tcp.conn.receiver)
Outbound(w) == w.tcp.conn.sender.stream

\* Rule 1: a datagram into the TCPConnection, if the adapter passes it on.
Rule1Interest(w) == w.tcp.conn.active
Rule1(w) ==
  LET read == UdpRead(w.net.adapter, Head(w.net.toLocal))
  IN  [w EXCEPT !.net.adapter = read.adapter, !.net.toLocal = Tail(@),
                !.tcp.conn = IF read.segs = <<>> THEN @ ELSE SegmentReceived(@, read.segs[1])]

\* Rule 2: the owner's bytes into the outbound stream.
Rule2Interest(w) ==
  w.tcp.conn.active /\ ~w.tcp.outShut /\ RemainingCapacity(Outbound(w)) > 0

\* Faulty variant of Rule2Cancel: the end of the owner's bytes is not passed on.
Rule2KeepsOpen(w) == [w EXCEPT !.tcp.outShut = TRUE]

Rule2Cancel(w) == [w EXCEPT !.tcp.conn = EndInputStream(@), !.tcp.outShut = TRUE]

Rule2(w) ==
  LET limit == RemainingCapacity(Outbound(w))
      wrote == [ReadPair(w, "toThread", limit) EXCEPT
                  !.tcp.conn = ConnWrite(@, Taken(w, "toThread", limit))]
  IN  IF AtEnd(w, "toThread") THEN Rule2Cancel([wrote EXCEPT !.tcp.eof = TRUE]) ELSE wrote

\* Rule 3: the inbound stream to the owner; only what the pair took is popped.
Finished(w) == Eof(Inbound(w)) \/ Inbound(w).error
Rule3Interest(w) == BufferSize(Inbound(w)) > 0 \/ (Finished(w) /\ ~w.tcp.inShut)
Popped(w, n) == [w EXCEPT !.tcp.conn.receiver.reassembler.output = PopOutput(@, n)]

\* Faulty variant of Rule3: pops nothing when the pair took only a part.
Rule3Repeats(w) ==
  LET fits == Len(Fitting(w, "toOwner", Inbound(w).data))
      wrote == Popped(WritePair(w, "toOwner", Inbound(w).data),
                      IF fits = BufferSize(Inbound(w)) THEN fits ELSE 0)
  IN  IF Finished(wrote)
      THEN [ShutDown(wrote, {"toOwner"}) EXCEPT !.tcp.inShut = TRUE] ELSE wrote

Rule3(w) ==
  LET wrote == Popped(WritePair(w, "toOwner", Inbound(w).data), Len(Fitting(w, "toOwner", Inbound(w).data)))
  IN  IF Finished(wrote)
      THEN [ShutDown(wrote, {"toOwner"}) EXCEPT !.tcp.inShut = TRUE] ELSE wrote

\* Rule 4: every queued segment onto the network.
Rule4Interest(w) == w.tcp.conn.segmentsOut # <<>>
Rule4(w) ==
  [w EXCEPT !.net.toPeer = @ \o UdpWrites(w.net.adapter, w.tcp.conn.segmentsOut),
            !.tcp.conn.segmentsOut = <<>>]

-----------------------------------------------------------------------------
(* bidirectional_stream_copy: the rules of the owner *)

NewCopy(input) ==
           [outbound |-> NewStream(CopyCapacity), inbound |-> NewStream(CopyCapacity),
            inputEof |-> FALSE, socketEof |-> FALSE, outShut |-> FALSE, inShut |-> FALSE,
            outputClosed |-> FALSE, input |-> input, inputEnd |-> "no", output |-> <<>>]

NoError(w) == ~w.copy.outbound.error /\ ~w.copy.inbound.error
EndOutbound(w) == [w EXCEPT !.copy.outbound = EndInput(@)]
EndInbound(w) == [w EXCEPT !.copy.inbound = EndInput(@)]

\* Rule 1: standard input into the outbound buffer.
Copy1Interest(w) == NoError(w) /\ RemainingCapacity(w.copy.outbound) > 0
Copy1(w) ==
  LET n == Lesser(RemainingCapacity(w.copy.outbound), Len(w.copy.input))
      read == [w EXCEPT !.copy.outbound = StreamWrite(@, SubSeq(w.copy.input, 1, n)),
                        !.copy.input = SubSeq(@, n + 1, Len(@)),
                        !.copy.inputEof = (n = 0)]
  IN  IF read.copy.inputEof THEN EndOutbound(read) ELSE read

\* Rule 2: the outbound buffer into the socket.
Copy2Interest(w) == BufferSize(w.copy.outbound) > 0 \/ (Eof(w.copy.outbound) /\ ~w.copy.outShut)
Copy2(w) ==
  LET data == w.copy.outbound.data
      wrote == [WritePair(w, "toThread", data) EXCEPT
                  !.copy.outbound = PopOutput(@, Len(Fitting(w, "toThread", data)))]
  IN  IF Eof(wrote.copy.outbound)
      THEN [ShutDown(wrote, {"toThread"}) EXCEPT !.copy.outShut = TRUE] ELSE wrote

\* Rule 3: the socket into the inbound buffer.
Copy3Interest(w) == NoError(w) /\ RemainingCapacity(w.copy.inbound) > 0
Copy3(w) ==
  LET limit == RemainingCapacity(w.copy.inbound)
      read == [ReadPair(w, "toOwner", limit) EXCEPT
                 !.copy.inbound = StreamWrite(@, Taken(w, "toOwner", limit))]
  IN  IF AtEnd(w, "toOwner") THEN EndInbound([read EXCEPT !.copy.socketEof = TRUE]) ELSE read

\* Rule 4: the inbound buffer to standard output, which is closed at the end.
Copy4Interest(w) == BufferSize(w.copy.inbound) > 0 \/ (Eof(w.copy.inbound) /\ ~w.copy.inShut)
Copy4(w) ==
  LET wrote == [w EXCEPT !.copy.output = @ \o w.copy.inbound.data,
                         !.copy.inbound = PopOutput(@, BufferSize(@))]
  IN  IF Eof(wrote.copy.inbound)
      THEN [wrote EXCEPT !.copy.outputClosed = TRUE, !.copy.inShut = TRUE] ELSE wrote
=============================================================================
