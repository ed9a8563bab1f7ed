-------------------------- MODULE TCPReceiverProofs -------------------------
(***************************************************************************)
(* Proofs about the TCPReceiver for every stream, capacity and sequence    *)
(* space, and for segments cut anywhere, in any order, any number of       *)
(* times: the output is the peer's stream, the ring of the reassembler     *)
(* holds exactly what was accepted, nothing throws, and no acknowledgment  *)
(* or window is taken back.                                                *)
(*                                                                         *)
(* RcvInv is the inductive invariant: RingOK of the reassembler, and that  *)
(* the accepted indexes are those the ring holds or has passed on.         *)
(***************************************************************************)
EXTENDS ReassemblerProofs

-----------------------------------------------------------------------------
(* The receiver *)

ReceiverType == [hasIsn: BOOLEAN, isn: Seqno, reassembler: ReassemblerState(RecvCapacity)]

RcvInv ==
  /\ rcv \in ReceiverType /\ RingOK(Ring)
  /\ rcv.hasIsn => rcv.isn = PeerISN
  /\ ~rcv.hasIsn => rcv = NewReceiver(RecvCapacity)
  /\ \A j \in Nat : j \in accepted <=> Present(Ring, j)

\* What a step does not take back.
Advance(r, n) ==
  /\ n.cur >= r.cur /\ n.output.read >= r.output.read
  /\ r.output.ended => n.output.ended

\* A ring without a byte.
LEMMA InitInv == Init => RcvInv
<1> SUFFICES ASSUME Init PROVE RcvInv
  OBVIOUS
<1> DEFINE C == RecvCapacity
           b == NewStream(C)
           n == NewReassembler(C)
<1>0. C \in Nat /\ C > 0 /\ Total \in Nat /\ Total < SizeMax /\ SizeMax \in Nat
  BY ReceiverAssumption, BelowSizeMax
<1>1. /\ b \in ByteStreamState /\ b.capacity = C /\ b.read = 0 /\ b.written = 0 /\ b.data = <<>>
      /\ b.ended = FALSE
  BY <1>0 DEF NewStream, ByteStreamState, Byte
<1>2. EmptySlot \in Slot /\ ~EmptySlot.full
  BY DEF EmptySlot, Slot, Byte
<1> HIDE DEF b
<1>3. /\ n \in ReassemblerState(C) /\ n.output = b /\ n.cur = 0 /\ n.eofIndex = SizeMax
      /\ n.unassembled = 0 /\ n.thrown = FALSE /\ n.slots = [k \in 0..(C - 1) |-> EmptySlot]
  BY <1>0, <1>1, <1>2 DEF NewReassembler, ReassemblerState, b
<1> HIDE DEF n
<1>4. \A j \in Nat : ~SlotOf(n, j).full
  BY <1>2, <1>3, SlotInRing DEF SlotOf
<1>5. FullSlots(n) = {}
  BY <1>2, <1>3 DEF FullSlots
<1>6. RingCore(n)
  <2>1. Cardinality({}) = 0
    BY FS_EmptySet
  <2> QED BY <1>0, <1>1, <1>3, <1>4, <1>5, <2>1 DEF RingCore
<1>7. RingOK(n)
  <2>1. b.data = [i \in 1..BufferSize(b) |-> b.read + i]
    <3>1. BufferSize(b) = 0
      BY <1>1 DEF BufferSize
    <3>2. 1..0 = {}
      OBVIOUS
    <3> QED BY <1>1, <3>1, <3>2
  <2> QED BY <1>0, <1>1, <1>3, <1>4, <1>6, <2>1 DEF RingOK
<1>8. \A j \in Nat : ~Present(n, j)
  BY <1>3, <1>4 DEF Present
<1>9. rcv = [hasIsn |-> FALSE, isn |-> 0, reassembler |-> n] /\ accepted = {}
  BY DEF Init, NewReceiver, n
<1>10. rcv \in ReceiverType /\ rcv.reassembler = n /\ rcv.hasIsn = FALSE
  BY <1>3, <1>9, ModAssumption DEF ReceiverType, Seqno
<1>11. rcv = NewReceiver(RecvCapacity)
  BY DEF Init
<1> QED BY <1>7, <1>8, <1>9, <1>10, <1>11 DEF RcvInv, Ring

\* Pushing a piece of the peer's stream keeps the invariant, if accepted is extended by
\* what the window takes.
LEMMA PushStep ==
  ASSUME RcvInv, NEW data, NEW index, NEW eof, PeerPush(data, index, eof),
         rcv' = [rcv EXCEPT !.hasIsn = TRUE, !.isn = PeerISN,
                            !.reassembler = PushSubstring(@, data, index, eof)],
         \A j \in Nat : j \in accepted' <=>
           \/ j \in accepted
           \/ j \in index..(index + Len(data) - 1) /\ InWindow(Ring, j) /\ j >= Ring.cur
  PROVE  RcvInv' /\ Advance(Ring, Ring')
<1> DEFINE r == rcv.reassembler
           n == PushSubstring(r, data, index, eof)
<1>1. RingOK(r) /\ rcv \in ReceiverType /\ r \in ReassemblerState(RecvCapacity)
  BY DEF RcvInv, Ring, ReceiverType
<1>2. /\ RingOK(n) /\ n.output.read = r.output.read
      /\ n.cur >= r.cur /\ (r.output.ended => n.output.ended)
      /\ \A j \in Nat : Present(n, j) <=>
           \/ Present(r, j)
           \/ j \in index..(index + Len(data) - 1) /\ InWindow(r, j)
  BY <1>1, PushEffect
<1> HIDE DEF n
<1>3. rcv' = [rcv EXCEPT !.hasIsn = TRUE, !.isn = PeerISN, !.reassembler = n]
  BY DEF n
<1>4. n \in ReassemblerState(RecvCapacity) /\ PeerISN \in Seqno
  BY <1>2, ReceiverAssumption DEF RingOK, RingCore
<1>5. rcv' \in ReceiverType /\ rcv'.hasIsn /\ rcv'.isn = PeerISN /\ rcv'.reassembler = n
  BY <1>1, <1>3, <1>4, Zenon DEF ReceiverType
<1>6. \A j \in Nat : j \in accepted' <=> Present(n, j)
  <2> SUFFICES ASSUME NEW j \in Nat PROVE j \in accepted' <=> Present(n, j)
    OBVIOUS
  <2>1. j \in accepted <=> Present(r, j)
    BY DEF RcvInv, Ring
  <2>2. j < r.cur => Present(r, j)
    BY DEF Present
  <2>3. j < r.cur \/ j >= r.cur
    BY <1>1 DEF ReassemblerState
  <2> QED BY <1>2, <2>1, <2>2, <2>3, Zenon DEF Ring
<1>7. r.output.read \in Nat
  BY <1>1 DEF ReassemblerState, ByteStreamState
<1>8. RcvInv'
  BY <1>2, <1>5, <1>6, Zenon DEF RcvInv, Ring
<1>9. Advance(Ring, Ring')
  BY <1>2, <1>5, <1>7 DEF Advance, Ring
<1> QED BY <1>8, <1>9

\* The facts about a state that the steps use.
LEMMA InvFacts ==
  ASSUME RcvInv
  PROVE  /\ rcv \in ReceiverType /\ rcv.isn \in Seqno /\ Ring = rcv.reassembler
         /\ StreamOut(rcv) = Ring.output /\ Ring.output \in ByteStreamState
         /\ Ring.output.written \in Nat /\ Ring.output.written <= Total
         /\ Ring.output.written + Mod32 <= Mod64
         /\ Ring.output.read \in Nat /\ Ring.cur = Ring.output.written
         /\ Ring.output.read <= Ring.output.written
         /\ Ring.output.capacity = RecvCapacity
<1>1. /\ rcv \in ReceiverType /\ rcv.isn \in Seqno /\ Ring = rcv.reassembler
      /\ StreamOut(rcv) = Ring.output /\ RingOK(Ring)
  BY DEF RcvInv, ReceiverType, Ring, StreamOut
<1>2. /\ Ring.output \in ByteStreamState /\ Ring.cur = Ring.output.written /\ Ring.cur <= Total
      /\ Ring.output.capacity = RecvCapacity
  BY <1>1 DEF RingOK, RingCore, ReassemblerState
<1>3. /\ Ring.output.written \in Nat /\ Ring.output.read \in Nat
      /\ Ring.output.read <= Ring.output.written
  BY <1>2 DEF ByteStreamState
<1> QED BY <1>1, <1>2, <1>3, ReceiverAssumption, ModAssumption

\* A stuttering step.
LEMMA SameStep ==
  ASSUME RcvInv, rcv' = rcv, accepted' = accepted
  PROVE  RcvInv' /\ Advance(Ring, Ring')
<1>1. RcvInv'
  BY DEF RcvInv, Ring
<1>2. Ring.output.read \in Nat /\ Ring.cur \in Nat
  BY InvFacts
<1> QED BY <1>1, <1>2 DEF Advance, Ring

\* The fields of the peer's segment of first..last.
LEMMA PeerSegmentFields ==
  ASSUME NEW first \in 0..(Total + 1), NEW last \in 0..(Total + 1), first <= last
  PROVE  LET seg  == PeerSegment(first, last)
             from == Larger(first, 1)
             to   == Lesser(last, Total)
         IN  /\ seg.seqno = Wrap(first, PeerISN) /\ seg.syn = (first = 0)
             /\ seg.fin = (last = Total + 1)
             /\ seg.payload \in Seq(Nat) /\ Len(seg.payload) = to - from + 1
             /\ \A j \in 1..Len(seg.payload) : seg.payload[j] = from + j - 1
<1> DEFINE seg == PeerSegment(first, last)
           from == Larger(first, 1)
           to == Lesser(last, Total)
           m == to - from + 1
           d == [i \in 1..m |-> from + i - 1]
           e == EmptySegment(Wrap(first, PeerISN))
<1>1. m \in Nat /\ from \in Nat /\ from >= 1
  BY ReceiverAssumption DEF Larger, Lesser
<1>2. d \in Seq(Nat) /\ Len(d) = m /\ \A j \in 1..m : d[j] = from + j - 1
  <2> HIDE DEF m, from
  <2> QED BY <1>1
<1>3. seg = [e EXCEPT !.syn = (first = 0), !.fin = (last = Total + 1), !.payload = d]
  BY Zenon DEF PeerSegment
<1> HIDE DEF d, m
<1>4. /\ seg.seqno = Wrap(first, PeerISN) /\ seg.syn = (first = 0)
      /\ seg.fin = (last = Total + 1) /\ seg.payload = d
  BY <1>3 DEF EmptySegment
<1> QED BY <1>2, <1>4 DEF m

\* A segment of the peer, wherever it is cut.
LEMMA DeliverStep ==
  ASSUME RcvInv, NEW first \in 0..(Total + 1), NEW last \in 0..(Total + 1), first <= last,
         Deliver(first, last)
  PROVE  RcvInv' /\ Advance(Ring, Ring')
<1> DEFINE C == RecvCapacity
           seg == PeerSegment(first, last)
           from == Larger(first, 1)
           to == Lesser(last, Total)
           b == Ring.output
           isn == IF rcv.hasIsn THEN rcv.isn ELSE seg.seqno
           absSeq == Unwrap(seg.seqno, isn, StreamOut(rcv).written)
           index == (absSeq - 1 + BoolToNat(seg.syn)) % Mod64
<1>0. C \in Nat /\ C > 0 /\ Total \in Nat /\ PeerISN \in Seqno /\ Mod64 \in Nat
      /\ Mod32 \in Nat /\ Mod32 > 1 /\ Total + Mod32 <= Mod64
  BY ReceiverAssumption, ModAssumption
<1>1. /\ seg.seqno = Wrap(first, PeerISN) /\ seg.syn = (first = 0) /\ seg.fin = (last = Total + 1)
      /\ seg.payload \in Seq(Nat) /\ Len(seg.payload) = to - from + 1
      /\ \A j \in 1..Len(seg.payload) : seg.payload[j] = from + j - 1
  BY PeerSegmentFields
<1> HIDE DEF seg
<1>2. rcv' = IF ~rcv.hasIsn /\ ~seg.syn THEN rcv
             ELSE [rcv EXCEPT !.hasIsn = TRUE, !.isn = isn,
                              !.reassembler = PushSubstring(@, seg.payload, index, seg.fin)]
  BY Zenon DEF Deliver, ReceiveSegment, seg
<1>3. accepted' = accepted \cup
        {i \in 0..(Total - 1) : rcv'.hasIsn /\ i + 1 \in first..last /\ i \in WindowIndexes}
  BY DEF Deliver
<1>4. CASE ~rcv.hasIsn /\ ~seg.syn
  <2>1. rcv' = rcv /\ accepted' = accepted
    BY <1>2, <1>3, <1>4
  <2> QED BY <2>1, SameStep
<1>5. CASE rcv.hasIsn \/ seg.syn
  <2>1. isn = PeerISN
    <3>1. CASE rcv.hasIsn
      BY <3>1 DEF RcvInv
    <3>2. CASE ~rcv.hasIsn
      <4>1. first = 0
        BY <1>1, <1>5, <3>2, Zenon
      <4>2. Wrap(0, PeerISN) = PeerISN
        BY <1>0 DEF Wrap, Seqno
      <4> QED BY <1>1, <3>2, <4>1, <4>2
    <3> QED BY <3>1, <3>2
  <2>2. absSeq = first
    <3>1. first \in Nat /\ b.written \in Nat /\ b.written + Mod32 <= Mod64
      BY InvFacts
    <3>2. Distance(first, b.written) < Mod32 \div 2 /\ StreamOut(rcv) = b
      BY InvFacts DEF Deliver, StillInNetwork
    <3>3. Unwrap(Wrap(first, PeerISN), PeerISN, b.written) = first
      <4> DEFINE c == b.written
      <4>1. PeerISN \in Seqno /\ first \in Nat /\ c \in Nat /\ c + Mod32 <= Mod64
            /\ Distance(first, c) < Mod32 \div 2
        BY <1>0, <3>1, <3>2
      <4> HIDE DEF c
      <4>2. Unwrap(Wrap(first, PeerISN), PeerISN, c) = first
        BY <4>1, UnwrapUndoesWrap, Zenon
      <4> QED BY <4>2 DEF c
    <3> QED BY <1>1, <2>1, <3>2, <3>3
  <2> HIDE DEF absSeq, isn
  <2>3. from \in Nat /\ to \in Nat /\ from >= 1 /\ to <= Total /\ from <= Total + 1
    BY <1>0 DEF Larger, Lesser
  <2>4. index = from - 1
    <3>1. first - 1 + BoolToNat(seg.syn) = from - 1
      <4>1. seg.syn <=> first = 0
        BY <1>1, Zenon
      <4>2. BoolToNat(seg.syn) = IF first = 0 THEN 1 ELSE 0
        BY <4>1, Zenon DEF BoolToNat
      <4> QED BY <4>2 DEF Larger
    <3>2. from - 1 \in 0..(Mod64 - 1)
      BY <1>0, <2>3
    <3> HIDE DEF from
    <3> QED BY <1>0, <2>2, <3>1, <3>2
  <2> HIDE DEF index
  <2>5. PeerPush(seg.payload, index, seg.fin)
    <3>1. index \in Nat /\ index \in UInt64 /\ seg.fin \in BOOLEAN
      BY <1>0, <1>1, <2>3, <2>4 DEF UInt64
    <3>2. \A j \in 1..Len(seg.payload) : seg.payload[j] = index + j
      <4> HIDE DEF from
      <4> QED BY <1>1, <2>3, <2>4
    <3>3. index + Len(seg.payload) = to
      <4> HIDE DEF from, to
      <4> QED BY <1>1, <2>3, <2>4
    <3>4. seg.fin => to = Total
      <4>1. seg.fin <=> last = Total + 1
        BY <1>1, Zenon
      <4>2. last = Total + 1 => to = Total
        BY <1>0 DEF Lesser
      <4> QED BY <4>1, <4>2
    <3> HIDE DEF to
    <3> QED BY <1>1, <2>3, <3>1, <3>2, <3>3, <3>4 DEF PeerPush, StreamData
  <2>6. rcv' = [rcv EXCEPT !.hasIsn = TRUE, !.isn = PeerISN,
                           !.reassembler = PushSubstring(@, seg.payload, index, seg.fin)]
    BY <1>2, <1>5, <2>1
  <2>7. rcv'.hasIsn
    BY <2>6, InvFacts DEF ReceiverType
  <2>8. ASSUME NEW j \in Nat
        PROVE  j \in accepted' <=>
                 \/ j \in accepted
                 \/ j \in index..(index + Len(seg.payload) - 1) /\ InWindow(Ring, j) /\ j >= Ring.cur
    <3>1. j \in WindowIndexes <=> Ring.cur <= j /\ InWindow(Ring, j)
      BY <1>0, InvFacts DEF WindowIndexes, WindowSize, RemainingCapacity, BufferSize, InWindow
    <3>2. j \in index..(index + Len(seg.payload) - 1) <=> j \in 0..(Total - 1) /\ j + 1 \in first..last
      <4>1. index + Len(seg.payload) - 1 = to - 1
        <5> HIDE DEF from, to
        <5> QED BY <1>1, <2>3, <2>4
      <4>2. j \in (from - 1)..(to - 1) <=> j \in 0..(Total - 1) /\ j + 1 \in first..last
        BY <1>0 DEF Larger, Lesser
      <4> QED BY <2>4, <4>1, <4>2
    <3>3. Ring.cur \in Nat
      BY InvFacts
    <3> QED BY <1>3, <2>7, <3>1, <3>2, <3>3
  <2> QED BY <2>5, <2>6, <2>8, PushStep, Zenon
<1> QED BY <1>4, <1>5

\* A segment that occupies no sequence number changes nothing, whatever its number.
LEMMA DeliverEmptyStep ==
  ASSUME RcvInv, NEW seq \in Nat, DeliverEmpty(seq)
  PROVE  RcvInv' /\ Advance(Ring, Ring')
<1> DEFINE seg == EmptySegment(Wrap(seq, PeerISN))
           isn == IF rcv.hasIsn THEN rcv.isn ELSE seg.seqno
           absSeq == Unwrap(seg.seqno, isn, StreamOut(rcv).written)
           index == (absSeq - 1 + BoolToNat(seg.syn)) % Mod64
<1>0. Mod32 \in Nat /\ Mod32 > 1 /\ Mod64 \in Nat /\ Mod64 > 0 /\ PeerISN \in Seqno
  BY ReceiverAssumption, ModAssumption
<1>1. seg.seqno = Wrap(seq, PeerISN) /\ seg.syn = FALSE /\ seg.fin = FALSE /\ seg.payload = <<>>
  BY DEF EmptySegment
<1> HIDE DEF seg
<1>2. rcv' = IF ~rcv.hasIsn /\ ~seg.syn THEN rcv
             ELSE [rcv EXCEPT !.hasIsn = TRUE, !.isn = isn,
                              !.reassembler = PushSubstring(@, seg.payload, index, seg.fin)]
  BY Zenon DEF DeliverEmpty, ReceiveSegment, seg
<1>3. accepted' = accepted
  BY DEF DeliverEmpty
<1>4. CASE ~rcv.hasIsn
  BY <1>1, <1>2, <1>3, <1>4, SameStep
<1>5. CASE rcv.hasIsn
  <2>1. isn = PeerISN
    BY <1>5 DEF RcvInv
  <2>2. absSeq \in Nat
    <3> DEFINE q == seg.seqno
               c == Ring.output.written
    <3>1. q \in Seqno
      BY <1>0, <1>1 DEF Wrap, Seqno
    <3>2. c \in Nat /\ c + Mod32 <= Mod64 /\ StreamOut(rcv) = Ring.output
      BY InvFacts
    <3> HIDE DEF q, c
    <3>3. Unwrap(q, PeerISN, c) \in Nat
      BY <1>0, <3>1, <3>2, UnwrapNearest
    <3> QED BY <2>1, <3>2, <3>3 DEF q, c
  <2> HIDE DEF absSeq, isn
  <2>3. index \in 0..(Mod64 - 1)
    <3>1. BoolToNat(seg.syn) = 0
      BY <1>1 DEF BoolToNat
    <3> QED BY <1>0, <2>2, <3>1
  <2> HIDE DEF index
  <2>4. PeerPush(seg.payload, index, seg.fin)
    <3>1. seg.payload \in Seq(Nat) /\ Len(seg.payload) = 0 /\ 1..0 = {}
      BY <1>1
    <3>2. index \in Nat /\ index \in UInt64 /\ ~(0 > 0) /\ seg.fin = FALSE
      BY <1>0, <1>1, <2>3 DEF UInt64
    <3> QED BY <3>1, <3>2, Zenon DEF PeerPush, StreamData
  <2>5. rcv' = [rcv EXCEPT !.hasIsn = TRUE, !.isn = PeerISN,
                           !.reassembler = PushSubstring(@, seg.payload, index, seg.fin)]
    BY <1>2, <1>5, <2>1
  <2>6. \A j \in Nat : j \notin index..(index + Len(seg.payload) - 1)
    BY <1>0, <1>1, <2>3
  <2> QED BY <1>3, <2>4, <2>5, <2>6, PushStep, Zenon
<1> QED BY <1>4, <1>5

\* The application reads what is buffered.
LEMMA ReadStep ==
  ASSUME RcvInv, NEW m \in Nat, Read(m)
  PROVE  RcvInv' /\ Advance(Ring, Ring')
<1> DEFINE C == RecvCapacity
           r == rcv.reassembler
           b == r.output
           w == PopOutput(b, m)
           n == [r EXCEPT !.output = w]
<1>0. C \in Nat /\ C > 0
  BY ReceiverAssumption
<1>1. /\ rcv \in ReceiverType /\ b \in ByteStreamState /\ r \in ReassemblerState(C) /\ RingOK(r)
      /\ m <= BufferSize(b) /\ b.capacity = C /\ b.read \in Nat /\ b.written \in Nat
      /\ b.data \in Seq(Nat) /\ Len(b.data) = b.written - b.read /\ r.cur = b.written
      /\ r.cur \in Nat
  BY InvFacts DEF RcvInv, Ring, Read, StreamOut, ReceiverType, ByteStreamState, Byte
<1>2. /\ w \in ByteStreamState /\ w.data = SubSeq(b.data, m + 1, Len(b.data))
      /\ w.written = b.written /\ w.read = b.read + m
      /\ w.capacity = b.capacity /\ w.ended = b.ended
  BY <1>1, PopSome, Zenon
<1>3. rcv' = [rcv EXCEPT !.reassembler = n] /\ accepted' = accepted
  BY Zenon DEF Read
<1> HIDE DEF w
<1>4. /\ n \in ReassemblerState(C) /\ n.output = w /\ n.slots = r.slots /\ n.cur = r.cur
      /\ n.eofIndex = r.eofIndex /\ n.unassembled = r.unassembled /\ n.thrown = r.thrown
  BY <1>1, <1>2, Zenon DEF ReassemblerState
<1> HIDE DEF n
<1>5. rcv' \in ReceiverType /\ rcv'.reassembler = n /\ rcv'.hasIsn = rcv.hasIsn
      /\ rcv'.isn = rcv.isn
  BY <1>1, <1>3, <1>4 DEF ReceiverType
<1>6. \A j : SlotOf(n, j) = SlotOf(r, j) /\ (Present(n, j) <=> Present(r, j))
  BY <1>4 DEF SlotOf, Present
<1>7. FullSlots(n) = FullSlots(r)
  BY <1>4, Zenon DEF FullSlots
<1>8. RingCore(n)
  <2>1. RingCore(r)
    BY <1>1 DEF RingOK
  <2>2. \A i \in n.cur..(n.cur + C - 1) :
          SlotOf(n, i).full => SlotOf(n, i).byte = i + 1 /\ i < Total /\ InWindow(n, i)
    <3> SUFFICES ASSUME NEW i \in n.cur..(n.cur + C - 1), SlotOf(n, i).full
                 PROVE  SlotOf(n, i).byte = i + 1 /\ i < Total /\ InWindow(n, i)
      OBVIOUS
    <3>0. i \in r.cur..(r.cur + C - 1) /\ SlotOf(r, i).full
      BY <1>4, <1>6
    <3>1. SlotOf(r, i).byte = i + 1 /\ i < Total /\ InWindow(r, i)
      BY <2>1, <3>0, Zenon DEF RingCore
    <3>2. InWindow(n, i)
      <4> DEFINE q == b.read
      <4>1. i < q + C /\ q \in Nat /\ n.output.read = q + m /\ i \in Int
        BY <1>0, <1>1, <1>2, <1>4, <3>0, <3>1 DEF InWindow
      <4> HIDE DEF q
      <4>2. i < (q + m) + C
        BY <1>0, <4>1
      <4> QED BY <4>1, <4>2 DEF InWindow
    <3> QED BY <1>6, <3>1, <3>2
  <2>3. n.cur <= w.read + C /\ w.written <= n.cur
    BY <1>0, <1>1, <1>2, <1>4, <2>1 DEF RingCore
  <2> QED BY <1>1, <1>2, <1>4, <1>7, <2>1, <2>2, <2>3 DEF RingCore
<1>9. w.data = [i \in 1..BufferSize(w) |-> w.read + i]
  <2> DEFINE e == b.data
             a == m + 1
             z == Len(b.data)
             d == SubSeq(e, a, z)
             q == b.read
             f == [i \in 1..(z - m) |-> (q + m) + i]
  <2>1. /\ \A i \in a..z : e[i] \in Nat
        /\ \A i \in 1..z : e[i] = q + i
    <3>1. e = [i \in 1..z |-> q + i]
      <4>1. e = [i \in 1..BufferSize(b) |-> q + i] /\ z = BufferSize(b)
        BY <1>1 DEF RingOK, BufferSize
      <4> QED BY <4>1, Zenon
    <3>2. \A i \in a..z : i \in 1..z
      BY <1>1
    <3>3. q \in Nat
      BY <1>1
    <3> HIDE DEF e, z, q, a
    <3> QED BY <3>1, <3>2, <3>3
  <2>2. a \in Int /\ z \in Int /\ m <= z /\ q \in Nat /\ BufferSize(w) = z - m
    BY <1>1, <1>2 DEF BufferSize
  <2> HIDE DEF e, a, z, q
  <2>3. /\ d \in Seq(Nat) /\ Len(d) = IF a <= z THEN z - a + 1 ELSE 0
        /\ \A i \in 1..(z - a + 1) : d[i] = e[a + i - 1]
    BY <2>1, <2>2, SubSeqProperties
  <2> HIDE DEF d
  <2>4. Len(d) = z - m /\ z - m \in Nat
    BY <2>2, <2>3 DEF a
  <2>5. ASSUME NEW i \in 1..(z - m) PROVE d[i] = (q + m) + i
    <3>1. d[i] = e[m + i] /\ m + i \in 1..z
      BY <2>2, <2>3, <2>4 DEF a
    <3>2. e[m + i] = q + (m + i)
      BY <2>1, <3>1
    <3> QED BY <2>2, <3>1, <3>2
  <2>6. f \in Seq(Nat) /\ Len(f) = z - m
    BY <2>2, <2>4
  <2>7. \A i \in 1..Len(d) : d[i] = f[i]
    BY <2>4, <2>5
  <2> HIDE DEF f
  <2>8. d = f
    BY <2>3, <2>4, <2>6, <2>7, SeqEqual, Zenon
  <2> QED BY <1>2, <2>2, <2>8 DEF d, f, e, a, z, q
<1>10. RingOK(n)
  BY <1>1, <1>2, <1>4, <1>6, <1>8, <1>9, Zenon DEF RingOK
<1>11. ~rcv.hasIsn => n = r
  <2> SUFFICES ASSUME ~rcv.hasIsn PROVE n = r
    OBVIOUS
  <2>1. rcv = NewReceiver(C)
    BY DEF RcvInv
  <2>2. b.written = 0 /\ b.read = 0 /\ b.data = <<>>
    BY <2>1 DEF NewReceiver, NewReassembler, NewStream
  <2>3. m = 0
    BY <1>1, <2>2 DEF BufferSize
  <2>4. w = b
    <3>1. w = [b EXCEPT !.data = SubSeq(@, 0 + 1, Len(@)), !.read = @ + 0]
      BY <2>2, <2>3 DEF w, PopOutput, Lesser, BufferSize
    <3>2. SubSeq(b.data, 0 + 1, Len(b.data)) = b.data /\ b.read + 0 = b.read
      BY <1>1
    <3> QED BY <1>1, <3>1, <3>2, Zenon DEF ByteStreamState
  <2> QED BY <1>1, <2>4 DEF n, ReassemblerState
<1>12. ~rcv'.hasIsn => rcv' = NewReceiver(C)
  BY <1>1, <1>3, <1>5, <1>11 DEF RcvInv, ReceiverType
<1>13. \A j \in Nat : j \in accepted' <=> Present(n, j)
  BY <1>3, <1>6 DEF RcvInv, Ring
<1>14. RcvInv'
  <2>1. rcv.hasIsn => rcv.isn = PeerISN
    BY DEF RcvInv
  <2> QED BY <1>5, <1>10, <1>12, <1>13, <2>1 DEF RcvInv, Ring
<1>15. Advance(Ring, Ring')
  BY <1>1, <1>2, <1>4, <1>5 DEF Advance, Ring
<1> QED BY <1>14, <1>15

-----------------------------------------------------------------------------
(* The theorems *)

\* Every step keeps the invariant and takes nothing back.
LEMMA NextInv ==
  ASSUME RcvInv, [Next]_vars
  PROVE  RcvInv' /\ Advance(Ring, Ring')
<1>1. CASE DeliverSome
  <2>1. PICK first \in 0..(Total + 1), len \in 1..(MaxLength + 2) :
          first + len <= Total + 2 /\ Deliver(first, first + len - 1)
    BY <1>1 DEF DeliverSome
  <2> DEFINE last == first + len - 1
  <2>2. last \in 0..(Total + 1) /\ first <= last /\ Deliver(first, last)
    BY <2>1, ReceiverAssumption
  <2> HIDE DEF last
  <2> QED BY <2>2, DeliverStep
<1>2. CASE \E seq \in 0..(Total + 2) : DeliverEmpty(seq)
  BY <1>2, DeliverEmptyStep
<1>3. CASE \E n \in 1..RecvCapacity : Read(n)
  BY <1>3, ReadStep
<1>4. CASE UNCHANGED vars
  BY <1>4, SameStep DEF vars
<1> QED BY <1>1, <1>2, <1>3, <1>4 DEF Next

LEMMA InvHolds == Spec => []RcvInv
<1>1. RcvInv /\ [Next]_vars => RcvInv'
  BY NextInv
<1> QED BY InitInv, <1>1, PTL DEF Spec

\* What the application reads is the peer's stream, in order and without gap, repetition
\* or loss, and it ends when the FIN and all before it have arrived: StreamReassembler and
\* ByteStream do this for any capacity, and for segments cut, reordered, repeated and lost
\* in any way.
THEOREM OutputAlwaysStream == Spec => []OutputIsStream
<1>1. RcvInv => OutputIsStream
  BY DEF RcvInv, RingOK, RingCore, OutputIsStream, Output, Ring, StreamOut
<1> QED BY InvHolds, <1>1, PTL

\* No segment of the peer makes push_substring throw.
THEOREM ReassemblerNeverThrows == Spec => []NeverThrows
<1>1. RcvInv => NeverThrows
  BY DEF RcvInv, RingOK, RingCore, NeverThrows
<1> QED BY InvHolds, <1>1, PTL

\* The ring of the reassembler holds exactly what arrived in the window, each byte in the
\* one slot of its index, counted by _unassembled_bytes_cnt and within the capacity.
THEOREM RingAlwaysHoldsAccepted == Spec => []RingHoldsAccepted
<1>1. RcvInv => RingHoldsAccepted
  <2> SUFFICES ASSUME RcvInv PROVE RingHoldsAccepted
    OBVIOUS
  <2> DEFINE r == Ring
             C == RecvCapacity
  <2>1. /\ RingCore(r) /\ ~SlotOf(r, r.cur).full /\ r \in ReassemblerState(C)
        /\ r.unassembled = Cardinality(FullSlots(r)) /\ DOMAIN r.slots = 0..(C - 1)
    BY DEF RcvInv, RingOK, RingCore, ReassemblerState
  <2>2. C \in Nat /\ C > 0 /\ r.cur \in Nat /\ StreamOut(rcv) = r.output
        /\ r.output.read \in Nat /\ r.cur = r.output.written /\ r.output.capacity = C
    BY InvFacts, ReceiverAssumption
  <2>3. \A j \in Nat : j \in accepted <=> Present(r, j)
    BY DEF RcvInv
  <2> HIDE DEF r
  <2>4. \A i \in 0..(r.cur - 1) : i \in accepted
    BY <2>2, <2>3 DEF Present
  <2>5. r.cur \notin accepted
    BY <2>1, <2>2, <2>3 DEF Present
  <2>6. ASSUME NEW i \in r.cur..(r.cur + C - 1)
        PROVE  /\ SlotOf(r, i).full <=> i \in accepted
               /\ SlotOf(r, i).full => SlotOf(r, i).byte = i + 1
    <3>1. i \in Nat /\ ~(i < r.cur)
      BY <2>2
    <3>2. SlotOf(r, i).full <=> i \in accepted
      BY <2>3, <3>1, Zenon DEF Present
    <3> QED BY <2>1, <3>2, Zenon DEF RingCore
  <2>7. FullSlots(r) = {k \in DOMAIN r.slots : r.slots[k].full}
    BY <2>1 DEF FullSlots
  <2>8. BufferSize(r.output) + r.unassembled <= C
    <3>1. r.unassembled <= (r.output.read + RecvCapacity) - r.cur /\ r.unassembled \in Nat
      BY <2>1, WindowBound, FullSlotsFinite
    <3> QED BY <2>2, <3>1 DEF BufferSize
  <2> QED BY <2>1, <2>2, <2>4, <2>5, <2>6, <2>7, <2>8 DEF RingHoldsAccepted, Output, SlotOf, r
<1> QED BY InvHolds, <1>1, PTL

\* unwrap near the bytes written finds the closest number, at every point of the stream
\* and for every sequence number.
THEOREM UnwrapAlwaysClosest == Spec => []UnwrapClosest
<1>1. RcvInv => UnwrapClosest
  <2> SUFFICES ASSUME RcvInv, NEW q \in Seqno
               PROVE  /\ Wrap(Unwrap(q, rcv.isn, Output.written), rcv.isn) = q
                      /\ \A n \in UInt64 : Wrap(n, rcv.isn) = q =>
                           Distance(Unwrap(q, rcv.isn, Output.written), Output.written)
                             <= Distance(n, Output.written)
    BY Zenon DEF UnwrapClosest
  <2> DEFINE c == Output.written
             isn == rcv.isn
  <2>1. c \in Nat /\ isn \in Seqno /\ c + Mod32 <= Mod64
    BY InvFacts DEF Output
  <2>2. \A n \in UInt64 : n \in Nat
    BY ModAssumption DEF UInt64
  <2> HIDE DEF c, isn
  <2>3. /\ Wrap(Unwrap(q, isn, c), isn) = q
        /\ \A n \in Nat : Wrap(n, isn) = q => Distance(Unwrap(q, isn, c), c) <= Distance(n, c)
    BY <2>1, UnwrapIsClosest
  <2> QED BY <2>2, <2>3, Zenon DEF c, isn
<1> QED BY InvHolds, <1>1, PTL

\* Neither the ackno nor the right edge of the window that ackno() and window_size() tell
\* the peer ever moves left.
THEOREM ReceiverNeverReneges == Spec => NeverReneges
<1> DEFINE Edge == AbsoluteAckno(rcv) + WindowSize(rcv)
           A == /\ AbsoluteAckno(rcv') >= AbsoluteAckno(rcv)
                /\ AbsoluteAckno(rcv') + WindowSize(rcv') >= AbsoluteAckno(rcv) + WindowSize(rcv)
           one == BoolToNat(Ring.output.ended)
           Facts == /\ Ring.cur \in Nat /\ Ring.output.read \in Nat
                    /\ Ring.output.ended \in BOOLEAN
                    /\ AbsoluteAckno(rcv) = Ring.cur + 1 + one
                    /\ Edge = Ring.output.read + RecvCapacity + 1 + one
<1>1. RcvInv => Facts
  <2> SUFFICES ASSUME RcvInv PROVE Facts
    OBVIOUS
  <2>1. Ring.output.ended \in BOOLEAN /\ one \in Nat
    BY InvFacts DEF ByteStreamState, BoolToNat
  <2>2. RecvCapacity \in Nat
    BY ReceiverAssumption
  <2> HIDE DEF one
  <2>3. AbsoluteAckno(rcv) = Ring.cur + 1 + one
    BY InvFacts DEF AbsoluteAckno, one
  <2>4. WindowSize(rcv) = RecvCapacity - (Ring.cur - Ring.output.read)
    BY InvFacts DEF WindowSize, RemainingCapacity, BufferSize
  <2> QED BY <2>1, <2>2, <2>3, <2>4, InvFacts
<1>2. RcvInv /\ [Next]_vars => A
  <2> SUFFICES ASSUME RcvInv, [Next]_vars PROVE A
    OBVIOUS
  <2>1. RcvInv' /\ Advance(Ring, Ring')
    BY NextInv
  <2>2. Facts
    BY <1>1
  <2>3. Facts'
    BY <1>1, <2>1, PTL
  <2>4. one \in Nat /\ one' \in Nat /\ one <= one' /\ RecvCapacity \in Nat
    BY <2>1, <2>2, <2>3, ReceiverAssumption DEF Advance, BoolToNat
  <2>5. Ring'.cur >= Ring.cur /\ Ring'.output.read >= Ring.output.read
    BY <2>1 DEF Advance
  <2> HIDE DEF one
  <2> QED BY <2>2, <2>3, <2>4, <2>5
<1> QED BY InvHolds, <1>2, PTL DEF NeverReneges, Spec
=============================================================================
