-------------------------- MODULE TCPReceiverSpec ---------------------------
(***************************************************************************)
(* The TCPReceiver, with its StreamReassembler and ByteStream, as a state  *)
(* machine.  The peer has a stream of Total bytes, byte number i + 1 at    *)
(* index i, between a SYN and a FIN; the network hands over any of its     *)
(* segments, cut anywhere, in any order and any number of times, together  *)
(* with segments that occupy no sequence number.  The application reads.   *)
(***************************************************************************)
EXTENDS TCPReceiver, FiniteSets

CONSTANTS RecvCapacity,    \* TCPConfig::recv_capacity
          PeerISN,         \* the peer's initial sequence number
          Total,           \* bound: length of the peer's stream
          MaxLength        \* bound: longest payload

ASSUME ReceiverAssumption ==
  /\ RecvCapacity \in Nat \ {0} /\ PeerISN \in Seqno
  /\ Total \in Nat /\ MaxLength \in Nat /\ 2 * RecvCapacity < Mod32
  /\ Total + Mod32 <= Mod64   \* the stream stays clear of the top of the 64-bit numbers

VARIABLES rcv,
          accepted   \* history: stream indexes handed over while in the window

vars == <<rcv, accepted>>

Init ==
  /\ rcv = NewReceiver(RecvCapacity)
  /\ accepted = {}

\* The peer's segment of sequence numbers first..last, among 0..Total+1.
PeerSegment(first, last) ==
  LET from == Larger(first, 1)
      to   == Lesser(last, Total)
  IN  [EmptySegment(Wrap(first, PeerISN))
         EXCEPT !.syn = (first = 0), !.fin = (last = Total + 1),
                !.payload = [i \in 1..(to - from + 1) |-> from + i - 1]]

WindowIndexes ==
  StreamOut(rcv).written..(StreamOut(rcv).written + WindowSize(rcv) - 1)

\* The network keeps no segment so long that the stream moves half the sequence
\* space on: what the 32-bit numbers of the protocol rest on.
StillInNetwork(seq) == Distance(seq, StreamOut(rcv).written) < Mod32 \div 2

Deliver(first, last) ==
  /\ StillInNetwork(first)
  /\ rcv' = ReceiveSegment(rcv, PeerSegment(first, last))
  /\ accepted' = accepted \cup
       {i \in 0..(Total - 1) : rcv'.hasIsn /\ i + 1 \in first..last /\ i \in WindowIndexes}

DeliverEmpty(seq) ==
  /\ StillInNetwork(seq)
  /\ rcv' = ReceiveSegment(rcv, EmptySegment(Wrap(seq, PeerISN)))
  /\ UNCHANGED accepted

Read(n) ==
  /\ n <= BufferSize(StreamOut(rcv))
  /\ rcv' = [rcv EXCEPT !.reassembler.output = PopOutput(@, n)]
  /\ UNCHANGED accepted

DeliverSome ==
  \E first \in 0..(Total + 1), len \in 1..(MaxLength + 2) :
    first + len <= Total + 2 /\ Deliver(first, first + len - 1)

Next ==
  \/ DeliverSome
  \/ \E seq \in 0..(Total + 2) : DeliverEmpty(seq)
  \/ \E n \in 1..RecvCapacity : Read(n)

Spec == Init /\ [][Next]_vars

\* The peer retransmits every number until it is acknowledged, the application reads.
\* This is weak fairness with the enabling conditions written out: a delivery is a
\* step when the segment changes the receiver.
Fairness ==
  /\ \A seq \in 0..(Total + 1) :
       \/ []<>~(StillInNetwork(seq) /\ ReceiveSegment(rcv, PeerSegment(seq, seq)) # rcv)
       \/ []<><<Deliver(seq, seq)>>_vars
  /\ []<>(BufferSize(StreamOut(rcv)) = 0) \/ []<><<Read(1)>>_vars

FairSpec == Spec /\ Fairness

-----------------------------------------------------------------------------

Output == StreamOut(rcv)
Ring == rcv.reassembler

\* Whatever sequence number comes, unwrap near the bytes written so far finds the number
\* that wraps to it and is closest, before, at and after every wrap of the stream.
UnwrapClosest ==
  \A q \in Seqno :
    LET u == Unwrap(q, rcv.isn, Output.written)
    IN  /\ Wrap(u, rcv.isn) = q
        /\ \A n \in UInt64 : Wrap(n, rcv.isn) = q
             => Distance(u, Output.written) <= Distance(n, Output.written)

\* The output is the peer's stream: in order, without gap, repetition or loss, and
\* ByteStream::write never truncates what the reassembler has already taken from the ring.
\* It ends exactly when the FIN is known and every byte before it is assembled: a FIN that
\* overtakes data, or whose data did not fit in the window, ends nothing early.
OutputIsStream ==
  /\ Output.data = [i \in 1..BufferSize(Output) |-> Output.read + i]
  /\ Ring.cur = Output.written
  /\ Output.ended <=> Ring.eofIndex = Total /\ Output.written = Total
  /\ Ring.eofIndex \in {Total, SizeMax}

\* The reassembler keeps exactly what arrived inside the window: everything below
\* _cur_index was accepted, and a slot of the ring is full just when the one index of
\* [_cur_index, _cur_index + capacity) it stands for was accepted, and holds its byte.
\* _unassembled_bytes_cnt counts the full slots, and together with the unread bytes they
\* stay within the capacity.
RingHoldsAccepted ==
  /\ \A i \in 0..(Ring.cur - 1) : i \in accepted
  /\ Ring.cur \notin accepted
  /\ \A i \in Ring.cur..(Ring.cur + RecvCapacity - 1) :
       LET slot == Ring.slots[i % RecvCapacity]
       IN  /\ slot.full <=> i \in accepted
           /\ slot.full => slot.byte = i + 1
  /\ Ring.unassembled = Cardinality({k \in DOMAIN Ring.slots : Ring.slots[k].full})
  /\ BufferSize(Output) + Ring.unassembled <= RecvCapacity

\* No segment of one consistent stream makes the reassembler throw.
NeverThrows == ~Ring.thrown

\* The receiver never goes back on what it told the peer: neither the ackno nor the
\* right edge of the window (ackno + window_size) ever moves left.
NeverReneges ==
  [][/\ AbsoluteAckno(rcv') >= AbsoluteAckno(rcv)
     /\ AbsoluteAckno(rcv') + WindowSize(rcv') >= AbsoluteAckno(rcv) + WindowSize(rcv)]_vars

\* With every number retransmitted and the application reading, the whole stream is
\* read and ends, however small the window.
EventuallyComplete == <>(Output.ended /\ Output.read = Total)
=============================================================================
