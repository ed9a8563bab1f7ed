-------------------------- MODULE TCPSenderProofs ---------------------------
(***************************************************************************)
(* Proofs about the TCPSender for every window, MSS, timeout and sequence  *)
(* space: its fields keep their types, bytes in flight are counted         *)
(* exactly, the timer guards what is outstanding, and Reno keeps its       *)
(* bounds.  The four are inductive only together: the timer is stopped on  *)
(* "nothing in flight" and must agree with "nothing outstanding", and the  *)
(* congestion window is divided by.  The two loops, of fill_window and of  *)
(* ack_received, keep the invariant by OrbitInvariant.                     *)
(***************************************************************************)
EXTENDS TCPSenderSpec, BasicsTheorems, SequenceTheorems

-----------------------------------------------------------------------------
(* Types of the operators *)

\* Wrapping an absolute number gives a 32-bit sequence number.
LEMMA WrapType ==
  ASSUME NEW n \in Nat, NEW isn \in Seqno
  PROVE  Wrap(n, isn) \in Seqno
BY ModAssumption DEF Wrap, Seqno

\* The effective window, limited by cwnd or not, is a natural number.
LEMMA EffectiveWindowType ==
  ASSUME NEW s \in SenderState
  PROVE  EffectiveWindow(s) \in Nat
BY DEF EffectiveWindow, SenderState, Larger, Lesser

\* What a peek or a pop of n bytes covers lies within the buffered bytes.
LEMMA BufferedPart ==
  ASSUME NEW b \in ByteStreamState, NEW n \in Nat
  PROVE  /\ Lesser(n, BufferSize(b)) \in 0..Len(b.data)
         /\ b.data \in Seq(Byte)
         /\ Len(b.data) \in Nat
BY DEF ByteStreamState, BufferSize, Lesser

\* The record a ByteStream is, without its representation invariant.
RawStream ==
  [data: Seq(Byte), capacity: Nat, written: Nat, read: Nat,
   ended: BOOLEAN, error: BOOLEAN]

\* A byte stream state is a record of the right shape whose counters agree with its
\* buffered bytes.
LEMMA StreamType ==
  ASSUME NEW b
  PROVE  b \in ByteStreamState <=>
           /\ b \in RawStream
           /\ b.read <= b.written /\ b.written - b.read <= b.capacity
           /\ Len(b.data) = b.written - b.read
BY DEF ByteStreamState, RawStream

\* pop_output keeps the stream's representation: the bytes removed are counted as read.
LEMMA PopOutputType ==
  ASSUME NEW b \in ByteStreamState, NEW n \in Nat
  PROVE  /\ PopOutput(b, n) \in ByteStreamState
         /\ PopOutput(b, n).read = b.read + Lesser(n, BufferSize(b))
         /\ PopOutput(b, n).written = b.written
         /\ PopOutput(b, n).ended = b.ended
<1> DEFINE m == Lesser(n, BufferSize(b))
           d == SubSeq(b.data, m + 1, Len(b.data))
           r == b.read + m
           c == PopOutput(b, n)
<1>0. /\ b \in RawStream
      /\ b.read <= b.written /\ b.written - b.read <= b.capacity
      /\ Len(b.data) = b.written - b.read
  BY StreamType, Zenon
<1>1. m \in 0..Len(b.data) /\ m \in Nat
  BY BufferedPart
<1>2. d \in Seq(Byte) /\ Len(d) = Len(b.data) - m
  <2>1. b.data \in Seq(Byte) BY BufferedPart
  <2> HIDE DEF m
  <2> QED BY <1>1, <2>1, SubSeqProperties
<1>3. c = [b EXCEPT !.data = d, !.read = r]
  BY DEF PopOutput
<1>4. r \in Nat
  <2> HIDE DEF m
  <2> QED BY <1>1 DEF ByteStreamState
<1> HIDE DEF d, r, c
<1>5. /\ c \in RawStream
      /\ c.data = d /\ c.read = r /\ c.written = b.written /\ c.ended = b.ended
      /\ c.capacity = b.capacity
  BY <1>0, <1>2, <1>3, <1>4, Zenon DEF RawStream
<1>6. c \in ByteStreamState
  <2> HIDE DEF m
  <2>1. b.read \in Nat /\ b.written \in Nat /\ b.capacity \in Nat
    BY <1>0 DEF RawStream
  <2>2. c.read <= c.written /\ c.written - c.read <= c.capacity /\ Len(c.data) = c.written - c.read
    BY <1>0, <1>1, <1>2, <1>5, <2>1 DEF r
  <2> QED BY <1>5, <2>2, StreamType
<1> QED BY <1>5, <1>6 DEF r, c

\* peek_output returns as many bytes as asked for, or all there are.
LEMMA PeekOutputType ==
  ASSUME NEW b \in ByteStreamState, NEW n \in Nat
  PROVE  /\ PeekOutput(b, n) \in Seq(Byte)
         /\ Len(PeekOutput(b, n)) = Lesser(n, BufferSize(b))
<1> DEFINE m == Lesser(n, BufferSize(b))
<1>1. m \in 0..Len(b.data) /\ m \in Nat /\ b.data \in Seq(Byte)
  BY BufferedPart
<1> HIDE DEF m
<1>2. SubSeq(b.data, 1, m) \in Seq(Byte) /\ Len(SubSeq(b.data, 1, m)) = m
  BY <1>1, SubSeqProperties
<1> QED BY <1>2 DEF PeekOutput, m

\* A flag occupies one sequence number or none.
LEMMA BoolToNatType ==
  ASSUME NEW b
  PROVE  BoolToNat(b) \in {0, 1}
BY DEF BoolToNat

\* length_in_sequence_space is a natural number.
LEMMA SegmentLengthType ==
  ASSUME NEW seg \in Segment
  PROVE  /\ LengthInSequenceSpace(seg) \in Nat
         /\ Len(seg.payload) \in Nat
<1>1. seg.payload \in Seq(Byte)
  BY DEF Segment
<1>2. Len(seg.payload) \in Nat
  BY <1>1
<1> QED BY <1>2, BoolToNatType DEF LengthInSequenceSpace

\* What a round of fill_window assembles is a segment: the room in the window never goes
\* below zero, even when the SYN takes one number of it.
LEMMA NextSegmentType ==
  ASSUME NEW s \in SenderState, NEW w \in Nat, s.inFlight < w
  PROVE  NextSegment(s, w) \in Segment
<1> DEFINE syn == ~s.syn
           room == w - s.inFlight - BoolToNat(syn)
           size == Lesser(MaxPayloadSize, Lesser(room, BufferSize(s.stream)))
           payload == PeekOutput(s.stream, size)
           fin == /\ ~s.fin
                  /\ Eof(PopOutput(s.stream, size))
                  /\ s.inFlight + Len(payload) + BoolToNat(syn) < w
           empty == EmptySegment(Wrap(s.nextSeqno, s.isn))
           seg == NextSegment(s, w)
<1>1. room \in Nat
  <2> HIDE DEF syn
  <2> QED BY BoolToNatType DEF SenderState
<1>2. size \in Nat
  <2>1. BufferSize(s.stream) \in Nat
    BY DEF SenderState, ByteStreamState, BufferSize
  <2> HIDE DEF room
  <2> QED BY <1>1, <2>1, SenderAssumption DEF Lesser
<1>3. payload \in Seq(Byte)
  <2>1. s.stream \in ByteStreamState BY DEF SenderState
  <2> HIDE DEF size
  <2> QED BY <1>2, <2>1, PeekOutputType
<1>4. syn \in BOOLEAN /\ fin \in BOOLEAN
  OBVIOUS
<1>5. empty \in Segment
  <2>1. Wrap(s.nextSeqno, s.isn) \in Seqno BY WrapType DEF SenderState
  <2>2. 0 \in Seqno BY ModAssumption DEF Seqno
  <2> QED BY <2>1, <2>2 DEF EmptySegment, Segment
<1>6. seg = [empty EXCEPT !.syn = syn, !.fin = fin, !.payload = payload]
  BY DEF NextSegment
<1> HIDE DEF seg, syn, fin, payload, empty
<1> QED BY <1>3, <1>4, <1>5, <1>6, Zenon DEF Segment, seg

-----------------------------------------------------------------------------
(* The invariant, as predicates of a sender state *)

Flight(s) ==
  /\ Contiguous(s.outstanding, s.nextSeqno)
  /\ s.inFlight = IF s.outstanding = <<>> THEN 0 ELSE s.nextSeqno - s.outstanding[1].seq

TimerOK(s) == s.timer.running <=> s.outstanding # <<>>

RenoOK(s) ==
  /\ s.cwnd >= MaxPayloadSize
  /\ s.ssthresh >= 2 * MaxPayloadSize
  /\ s.recovery => s.dupAcks >= 3 /\ s.cwnd >= s.ssthresh + 3 * MaxPayloadSize

Good == {s \in SenderState : Flight(s) /\ TimerOK(s) /\ RenoOK(s)}

\* An entry of the outstanding queue.
Outstanding == [seq: Nat, seg: Segment]

\* With a queue that is contiguous, nothing in flight means nothing outstanding.
LEMMA FlightZero ==
  ASSUME NEW s \in SenderState, Flight(s)
  PROVE  /\ s.inFlight \in Nat
         /\ s.inFlight = 0 <=> s.outstanding = <<>>
<1>1. CASE s.outstanding = <<>>
  BY <1>1 DEF Flight
<1>2. CASE s.outstanding # <<>>
  <2> DEFINE out == s.outstanding
  <2>1. out \in Seq(Outstanding) /\ Len(out) \in Nat /\ Len(out) > 0 /\ s.nextSeqno \in Nat
    BY <1>2 DEF SenderState, Outstanding
  <2>2. \A i \in 1..Len(out) : out[i].seq \in Nat /\ SegEnd(out[i]) \in Nat
    <3> SUFFICES ASSUME NEW i \in 1..Len(out)
                 PROVE  out[i].seq \in Nat /\ SegEnd(out[i]) \in Nat
      OBVIOUS
    <3>1. out[i] \in Outstanding BY <2>1
    <3>2. out[i].seq \in Nat /\ out[i].seg \in Segment BY <3>1 DEF Outstanding
    <3> QED BY <3>2, SegmentLengthType DEF SegEnd
  <2> DEFINE P == {n \in Nat : n + 1 \in 1..Len(out) => out[n + 1].seq >= out[1].seq}
  <2>3. Contiguous(out, s.nextSeqno)
    BY DEF Flight
  <2> HIDE DEF out
  <2>4. 0 \in P
    BY <2>1, <2>2
  <2>5. \A n \in Nat : n \in P => n + 1 \in P
    <3> SUFFICES ASSUME NEW n \in Nat, n \in P
                 PROVE  (n + 1) + 1 \in 1..Len(out) => out[(n + 1) + 1].seq >= out[1].seq
      OBVIOUS
    <3> HAVE (n + 1) + 1 \in 1..Len(out)
    <3>1. n + 1 \in 1..Len(out) /\ n + 1 # Len(out) /\ 1 \in 1..Len(out)
      BY <2>1
    <3>2. out[n + 1].seq < SegEnd(out[n + 1]) /\ SegEnd(out[n + 1]) = out[(n + 1) + 1].seq
      BY <2>3, <3>1 DEF Contiguous
    <3>3. out[n + 1].seq >= out[1].seq BY <3>1
    <3>4. out[n + 1].seq \in Nat /\ out[(n + 1) + 1].seq \in Nat /\ out[1].seq \in Nat
      BY <2>2, <3>1
    <3> QED BY <3>2, <3>3, <3>4
  <2>6. Len(out) - 1 \in P
    <3>1. Nat \subseteq P
      <4> HIDE DEF P
      <4> QED BY <2>4, <2>5, Induct
    <3>2. Len(out) - 1 \in Nat BY <2>1
    <3> QED BY <3>1, <3>2
  <2>7. out[Len(out)].seq >= out[1].seq
    BY <2>1, <2>6
  <2>8. out[Len(out)].seq < s.nextSeqno
    BY <2>1, <2>3 DEF Contiguous
  <2>9. s.inFlight = s.nextSeqno - out[1].seq
    BY <1>2 DEF Flight, out
  <2>10. out[Len(out)].seq \in Nat /\ out[1].seq \in Nat
    BY <2>1, <2>2
  <2> QED BY <1>2, <2>1, <2>7, <2>8, <2>9, <2>10
<1> QED BY <1>1, <1>2

\* What SendSegment does to each field of a sender state s.
SendSegmentEffect(s, seg, t) ==
  /\ t.syn = TRUE /\ t.fin = (s.fin \/ seg.fin)
  /\ t.stream = PopOutput(s.stream, Len(seg.payload))
  /\ t.segmentsOut = Append(s.segmentsOut, seg)
  /\ t.timer.running = TRUE /\ t.timer.timeOut = s.timer.timeOut
  /\ t.outstanding = Append(s.outstanding, [seq |-> s.nextSeqno, seg |-> seg])
  /\ t.nextSeqno = s.nextSeqno + LengthInSequenceSpace(seg)
  /\ t.inFlight = s.inFlight + LengthInSequenceSpace(seg)
  /\ t.isn = s.isn /\ t.retx = s.retx /\ t.window = s.window
  /\ t.cwnd = s.cwnd /\ t.ssthresh = s.ssthresh /\ t.dupAcks = s.dupAcks
  /\ t.lastAckno = s.lastAckno /\ t.recovery = s.recovery

\* A round of fill_window that sends changes the fields SendSegmentEffect names.
LEMMA SendSegmentFields ==
  ASSUME NEW s \in SenderState, NEW seg \in Segment
  PROVE  SendSegment(s, seg) \in SenderState /\ SendSegmentEffect(s, seg, SendSegment(s, seg))
<1> DEFINE stream == PopOutput(s.stream, Len(seg.payload))
           segs == Append(s.segmentsOut, seg)
           timer == IF s.timer.running THEN s.timer ELSE Restart(s.timer)
           out == Append(s.outstanding, [seq |-> s.nextSeqno, seg |-> seg])
           next == s.nextSeqno + LengthInSequenceSpace(seg)
           flight == s.inFlight + LengthInSequenceSpace(seg)
           fin == s.fin \/ seg.fin
           t == SendSegment(s, seg)
<1>1. stream \in ByteStreamState
  BY PopOutputType, SegmentLengthType, Zenon DEF SenderState
<1>2. segs \in Seq(Segment)
  BY DEF SenderState
<1>3. s.timer \in Timer /\ timer \in Timer /\ timer.running = TRUE /\ timer.timeOut = s.timer.timeOut
  <2>1. s.timer \in Timer BY DEF SenderState
  <2>2. CASE s.timer.running
    BY <2>1, <2>2 DEF Timer
  <2>3. CASE ~s.timer.running
    BY <2>1, <2>3, Zenon DEF Timer, Restart
  <2> QED BY <2>1, <2>2, <2>3, Zenon
<1>4. out \in Seq(Outstanding)
  BY DEF SenderState, Outstanding
<1>5. next \in Nat /\ flight \in Int
  BY SegmentLengthType DEF SenderState
<1>6. fin \in BOOLEAN
  OBVIOUS
<1>7. t = [s EXCEPT !.syn = TRUE, !.fin = fin, !.stream = stream, !.segmentsOut = segs,
                    !.timer = timer, !.outstanding = out, !.nextSeqno = next, !.inFlight = flight]
  BY DEF SendSegment
<1> HIDE DEF stream, segs, timer, out, next, flight, fin, t
<1>8. /\ t \in SenderState
      /\ t.syn = TRUE /\ t.fin = fin /\ t.stream = stream /\ t.segmentsOut = segs
      /\ t.timer = timer /\ t.outstanding = out /\ t.nextSeqno = next /\ t.inFlight = flight
      /\ t.isn = s.isn /\ t.retx = s.retx /\ t.window = s.window
      /\ t.cwnd = s.cwnd /\ t.ssthresh = s.ssthresh /\ t.dupAcks = s.dupAcks
      /\ t.lastAckno = s.lastAckno /\ t.recovery = s.recovery
  BY <1>1, <1>2, <1>3, <1>4, <1>5, <1>6, <1>7, Zenon DEF SenderState, Outstanding
<1> QED BY <1>3, <1>8 DEF SendSegmentEffect, stream, segs, out, next, flight, fin, t

\* Sending a segment that occupies sequence space extends the queue without a hole and
\* leaves the timer running.
LEMMA SendSegmentGood ==
  ASSUME NEW s \in Good, NEW seg \in Segment, LengthInSequenceSpace(seg) > 0
  PROVE  SendSegment(s, seg) \in Good
<1> DEFINE t == SendSegment(s, seg)
           out == s.outstanding
           new == [seq |-> s.nextSeqno, seg |-> seg]
           len == LengthInSequenceSpace(seg)
<1>1. s \in SenderState /\ Flight(s) /\ TimerOK(s) /\ RenoOK(s)
  BY DEF Good
<1>2. t \in SenderState /\ SendSegmentEffect(s, seg, t)
  BY <1>1, SendSegmentFields
<1>b. t.outstanding = Append(out, new) /\ t.nextSeqno = s.nextSeqno + len /\ t.inFlight = s.inFlight + len
  BY <1>2 DEF SendSegmentEffect
<1>3. len \in Nat /\ len > 0 /\ s.nextSeqno \in Nat /\ s.inFlight \in Int /\ out \in Seq(Outstanding)
  BY <1>1, SegmentLengthType DEF SenderState, Outstanding
<1>4. SegEnd(new) = s.nextSeqno + len /\ new.seq = s.nextSeqno
  BY DEF SegEnd
<1> HIDE DEF t, out, new, len
<1>5. Contiguous(out, s.nextSeqno)
  BY <1>1 DEF Flight, out
<1>6. Contiguous(Append(out, new), s.nextSeqno + len)
  <2> DEFINE app == Append(out, new)
  <2>0. Len(out) \in Nat /\ Len(app) = Len(out) + 1 /\ app[Len(out) + 1] = new
    BY <1>3
  <2>1. \A i \in 1..Len(out) : app[i] = out[i]
    BY <1>3
  <2> HIDE DEF app
  <2> SUFFICES ASSUME NEW i \in 1..Len(app)
               PROVE  /\ app[i].seq < SegEnd(app[i])
                      /\ SegEnd(app[i]) = IF i = Len(app) THEN s.nextSeqno + len ELSE app[i + 1].seq
    BY DEF Contiguous, app
  <2>2. CASE i = Len(out) + 1
    BY <1>3, <1>4, <2>0, <2>2
  <2>3. CASE i = Len(out)
    <3>1. i \in 1..Len(out) /\ i + 1 = Len(out) + 1 BY <2>0, <2>3
    <3>2. out[i].seq < SegEnd(out[i]) /\ SegEnd(out[i]) = s.nextSeqno
      BY <1>5, <2>3, <3>1 DEF Contiguous
    <3> QED BY <1>4, <2>0, <2>1, <2>3, <3>1, <3>2
  <2>4. CASE i < Len(out)
    <3>1. i \in 1..Len(out) /\ i + 1 \in 1..Len(out) /\ i # Len(out) /\ i # Len(app)
      BY <2>0, <2>4
    <3>2. out[i].seq < SegEnd(out[i]) /\ SegEnd(out[i]) = out[i + 1].seq
      BY <1>5, <3>1 DEF Contiguous
    <3> QED BY <2>1, <3>1, <3>2
  <2> QED BY <2>0, <2>2, <2>3, <2>4
<1>7. Append(out, new) # <<>> /\ Append(out, new)[1] = IF out = <<>> THEN new ELSE out[1]
  <2>1. CASE out = <<>>
    BY <2>1
  <2>2. CASE out # <<>>
    <3>1. Len(out) \in Nat /\ 1 \in 1..Len(out) BY <1>3, <2>2
    <3> QED BY <1>3, <2>2, <3>1
  <2> QED BY <2>1, <2>2
<1>8. s.inFlight = IF out = <<>> THEN 0 ELSE s.nextSeqno - out[1].seq
  BY <1>1 DEF Flight, out
<1>9. CASE out = <<>>
  <2>1. Flight(t) BY <1>b, <1>3, <1>4, <1>6, <1>7, <1>8, <1>9 DEF Flight
  <2> QED BY <1>1, <1>2, <1>b, <1>7, <2>1 DEF Good, TimerOK, RenoOK, SendSegmentEffect, t
<1>10. CASE out # <<>>
  <2>0. out[1] \in Outstanding BY <1>3, <1>10
  <2>1. out[1].seq \in Nat BY <2>0 DEF Outstanding
  <2>2. Flight(t) BY <1>b, <1>3, <1>4, <1>6, <1>7, <1>8, <1>10, <2>1 DEF Flight
  <2> QED BY <1>1, <1>2, <1>b, <1>7, <2>2 DEF Good, TimerOK, RenoOK, SendSegmentEffect, t
<1> QED BY <1>9, <1>10

\* A round of fill_window keeps the invariant, whether it sends or stops.
LEMMA FillRoundGood ==
  ASSUME NEW w \in Nat
  PROVE  /\ FillRound(w) \in [SenderState -> SenderState]
         /\ \A s \in Good : FillRound(w)[s] \in Good
<1> DEFINE sends(s) == s.inFlight < w /\ LengthInSequenceSpace(NextSegment(s, w)) > 0
           body(s) == IF sends(s) THEN SendSegment(s, NextSegment(s, w)) ELSE s
<1>1. FillRound(w) = [s \in SenderState |-> body(s)]
  BY DEF FillRound
<1>2. \A s \in SenderState : body(s) \in SenderState
  <2> TAKE s \in SenderState
  <2>1. CASE sends(s)
    <3>1. NextSegment(s, w) \in Segment BY <2>1, NextSegmentType
    <3> QED BY <2>1, <3>1, SendSegmentFields
  <2> QED BY <2>1
<1>3. \A s \in Good : s \in SenderState /\ body(s) \in Good
  <2> TAKE s \in Good
  <2>0. s \in SenderState BY DEF Good
  <2>1. CASE sends(s)
    <3>1. NextSegment(s, w) \in Segment BY <2>0, <2>1, NextSegmentType
    <3> QED BY <2>0, <2>1, <3>1, SendSegmentGood
  <2> QED BY <2>0, <2>1
<1> HIDE DEF body
<1> QED BY <1>1, <1>2, <1>3

\* fill_window keeps the invariant, however many rounds its loop makes.
LEMMA FillWindowGood ==
  ASSUME NEW s \in Good
  PROVE  FillWindow(s) \in Good
<1> DEFINE w == EffectiveWindow(s)
           F == FillRound(w)
           n == Larger(w - s.inFlight, 0)
<1>1. s \in SenderState /\ Good \subseteq SenderState
  BY DEF Good
<1>2. w \in Nat
  BY <1>1, EffectiveWindowType
<1>3. n \in Nat
  <2> HIDE DEF w
  <2> QED BY <1>1, <1>2 DEF Larger, SenderState
<1>4. F \in [SenderState -> SenderState] /\ \A y \in Good : F[y] \in Good
  BY <1>2, FillRoundGood
<1>5. FillWindow(s) = Orbit(F, s)[n]
  BY DEF FillWindow
<1> HIDE DEF F, n
<1> QED BY <1>1, <1>3, <1>4, <1>5, OrbitInvariant

-----------------------------------------------------------------------------
(* ack_received: the loop that drops acknowledged segments *)

\* The loop of ack_received started in s is at t: only the queue and the count of
\* bytes in flight have changed, and the count has not grown.
AckFrame(s, t) ==
  /\ t.isn = s.isn /\ t.stream = s.stream /\ t.segmentsOut = s.segmentsOut
  /\ t.nextSeqno = s.nextSeqno /\ t.timer = s.timer /\ t.retx = s.retx
  /\ t.window = s.window /\ t.syn = s.syn /\ t.fin = s.fin
  /\ t.cwnd = s.cwnd /\ t.ssthresh = s.ssthresh /\ t.dupAcks = s.dupAcks
  /\ t.lastAckno = s.lastAckno /\ t.recovery = s.recovery
  /\ t.inFlight <= s.inFlight

Popping(s) == {t \in SenderState : Flight(t) /\ AckFrame(s, t)}

\* Dropping the oldest segment from the queue takes exactly its length out of flight.
LEMMA TailFlight ==
  ASSUME NEW s \in SenderState, Flight(s), s.outstanding # <<>>,
         NEW t, t = [s EXCEPT !.outstanding = Tail(s.outstanding),
                              !.inFlight = s.inFlight - LengthInSequenceSpace(Head(s.outstanding).seg)]
  PROVE  t \in Popping(s)
<1> DEFINE out == s.outstanding
           tl == Tail(out)
           fl == s.inFlight - LengthInSequenceSpace(Head(out).seg)
<1>1. /\ out \in Seq(Outstanding) /\ out # <<>> /\ s.nextSeqno \in Nat /\ s.inFlight \in Int
  BY DEF SenderState, Outstanding
<1>2. /\ tl \in Seq(Outstanding) /\ Head(out) = out[1] /\ Len(out) \in Nat /\ Len(out) >= 1
      /\ Len(tl) = Len(out) - 1 /\ \A i \in 1..Len(tl) : tl[i] = out[i + 1]
  <2> HIDE DEF out
  <2> QED BY <1>1
<1>3. out[1] \in Outstanding
  BY <1>1, <1>2
<1>4. out[1].seg \in Segment /\ out[1].seq \in Nat
  BY <1>3 DEF Outstanding
<1>5. LengthInSequenceSpace(out[1].seg) \in Nat
  BY <1>4, SegmentLengthType
<1>6. fl \in Int /\ fl = s.inFlight - LengthInSequenceSpace(out[1].seg) /\ fl <= s.inFlight
  BY <1>1, <1>2, <1>5
<1>7. Contiguous(out, s.nextSeqno) /\ s.inFlight = s.nextSeqno - out[1].seq
  BY DEF Flight
<1>8. t = [s EXCEPT !.outstanding = tl, !.inFlight = fl]
  OBVIOUS
<1> HIDE DEF out, tl, fl
<1>9. /\ t \in SenderState /\ t.outstanding = tl /\ t.inFlight = fl
      /\ t.isn = s.isn /\ t.stream = s.stream /\ t.segmentsOut = s.segmentsOut
      /\ t.nextSeqno = s.nextSeqno /\ t.timer = s.timer /\ t.retx = s.retx
      /\ t.window = s.window /\ t.syn = s.syn /\ t.fin = s.fin
      /\ t.cwnd = s.cwnd /\ t.ssthresh = s.ssthresh /\ t.dupAcks = s.dupAcks
      /\ t.lastAckno = s.lastAckno /\ t.recovery = s.recovery
  BY <1>2, <1>6, <1>8, Zenon DEF SenderState, Outstanding
<1>10. AckFrame(s, t)
  BY <1>6, <1>9 DEF AckFrame
<1>11. Contiguous(tl, s.nextSeqno)
  <2> SUFFICES ASSUME NEW i \in 1..Len(tl)
               PROVE  /\ tl[i].seq < SegEnd(tl[i])
                      /\ SegEnd(tl[i]) = IF i = Len(tl) THEN s.nextSeqno ELSE tl[i + 1].seq
    BY DEF Contiguous
  <2>1. i + 1 \in 1..Len(out) /\ tl[i] = out[i + 1]
    BY <1>2
  <2>2. /\ out[i + 1].seq < SegEnd(out[i + 1])
        /\ SegEnd(out[i + 1]) = IF i + 1 = Len(out) THEN s.nextSeqno ELSE out[(i + 1) + 1].seq
    BY <1>7, <2>1 DEF Contiguous
  <2>3. CASE i = Len(tl)
    BY <1>2, <2>1, <2>2, <2>3
  <2>4. CASE i # Len(tl)
    <3>1. i + 1 \in 1..Len(tl) /\ i + 1 # Len(out) BY <1>2, <2>4
    <3>2. tl[i + 1] = out[(i + 1) + 1] BY <1>2, <3>1
    <3> QED BY <2>1, <2>2, <2>4, <3>1, <3>2
  <2> QED BY <2>3, <2>4
<1>12. SegEnd(out[1]) = IF 1 = Len(out) THEN s.nextSeqno ELSE out[1 + 1].seq
  BY <1>2, <1>7 DEF Contiguous
<1>13. SegEnd(out[1]) = out[1].seq + LengthInSequenceSpace(out[1].seg)
  BY DEF SegEnd
<1>14. fl = IF tl = <<>> THEN 0 ELSE s.nextSeqno - tl[1].seq
  <2>1. CASE tl = <<>>
    <3>1. Len(out) = 1 BY <1>2, <2>1
    <3> QED BY <1>1, <1>4, <1>5, <1>6, <1>7, <1>12, <1>13, <2>1, <3>1
  <2>2. CASE tl # <<>>
    <3>1. Len(tl) \in Nat /\ Len(tl) # 0 BY <1>2, <2>2
    <3>2. Len(out) # 1 /\ 1 \in 1..Len(tl) BY <1>2, <3>1
    <3>3. tl[1] = out[1 + 1] BY <1>2, <3>2
    <3> QED BY <1>1, <1>4, <1>5, <1>6, <1>7, <1>12, <1>13, <2>2, <3>2, <3>3
  <2> QED BY <2>1, <2>2
<1>15. Flight(t)
  BY <1>9, <1>11, <1>14, Zenon DEF Flight
<1> QED BY <1>9, <1>10, <1>15 DEF Popping

\* AckFrame composes: a step from a state the loop has reached stays in its frame.
LEMMA AckFrameTransitive ==
  ASSUME NEW s \in SenderState, NEW t \in Popping(s), NEW u \in Popping(t)
  PROVE  u \in Popping(s)
<1>1. t.inFlight \in Int /\ u.inFlight \in Int /\ s.inFlight \in Int
  BY DEF Popping, SenderState
<1> QED BY <1>1 DEF Popping, AckFrame

\* The whole loop of ack_received keeps the queue contiguous and the count exact.
LEMMA PopAckedFlight ==
  ASSUME NEW s \in SenderState, Flight(s), NEW a \in Nat
  PROVE  PopAcked(s, a) \in Popping(s)
<1> DEFINE F == AckRound(a)
           drops(t) == /\ t.outstanding # <<>>
                       /\ Head(t.outstanding).seq + LengthInSequenceSpace(Head(t.outstanding).seg) - 1 < a
           drop(t) == [t EXCEPT !.outstanding = Tail(t.outstanding),
                                !.inFlight = t.inFlight - LengthInSequenceSpace(Head(t.outstanding).seg)]
           body(t) == IF drops(t) THEN drop(t) ELSE t
<1>1. F = [t \in SenderState |-> body(t)]
  BY DEF AckRound
<1>2. \A t \in SenderState : body(t) \in SenderState
  <2> SUFFICES ASSUME NEW t \in SenderState PROVE body(t) \in SenderState
    BY Zenon
  <2>1. CASE drops(t)
    <3> DEFINE tl == Tail(t.outstanding)
               fl == t.inFlight - LengthInSequenceSpace(Head(t.outstanding).seg)
               u == drop(t)
    <3>1. t.outstanding \in Seq(Outstanding) /\ t.outstanding # <<>> /\ t.inFlight \in Int
      BY <2>1 DEF SenderState, Outstanding
    <3>2. tl \in Seq(Outstanding) /\ Head(t.outstanding) \in Outstanding
      BY <3>1
    <3>3. LengthInSequenceSpace(Head(t.outstanding).seg) \in Nat
      BY <3>2, SegmentLengthType DEF Outstanding
    <3>4. fl \in Int
      BY <3>1, <3>3
    <3>5. u = [t EXCEPT !.outstanding = tl, !.inFlight = fl]
      OBVIOUS
    <3> HIDE DEF tl, fl, u
    <3>6. u \in SenderState
      BY <3>2, <3>4, <3>5, Zenon DEF SenderState, Outstanding
    <3> QED BY <2>1, <3>6 DEF u
  <2> QED BY <2>1
<1>3. \A t \in Popping(s) : t \in SenderState /\ body(t) \in Popping(s)
  <2> SUFFICES ASSUME NEW t \in Popping(s) PROVE t \in SenderState /\ body(t) \in Popping(s)
    BY Zenon
  <2>1. t \in SenderState /\ Flight(t) BY DEF Popping
  <2>2. CASE drops(t)
    <3>1. t.outstanding # <<>> BY <2>2
    <3>2. drop(t) \in Popping(t) BY <2>1, <3>1, TailFlight, Zenon
    <3> HIDE DEF drop
    <3>3. drop(t) \in Popping(s) BY <2>1, <3>2, AckFrameTransitive
    <3> QED BY <2>1, <2>2, <3>3
  <2> QED BY <2>1, <2>2
<1>4. s \in Popping(s)
  BY DEF Popping, AckFrame, SenderState
<1>5. Len(s.outstanding) \in Nat /\ Popping(s) \subseteq SenderState
  BY DEF SenderState, Popping
<1> HIDE DEF body
<1>6. F \in [SenderState -> SenderState] /\ \A t \in Popping(s) : F[t] \in Popping(s)
  BY <1>1, <1>2, <1>3
<1>7. PopAcked(s, a) = Orbit(F, s)[Len(s.outstanding)]
  BY DEF PopAcked
<1> HIDE DEF F
<1> QED BY <1>4, <1>5, <1>6, <1>7, OrbitInvariant

-----------------------------------------------------------------------------
(* ack_received: congestion control and the timer *)

\* Congestion control touches neither the queue nor the timer.
CongestionFrame(s, t) ==
  /\ t.isn = s.isn /\ t.stream = s.stream /\ t.nextSeqno = s.nextSeqno
  /\ t.timer = s.timer /\ t.outstanding = s.outstanding /\ t.retx = s.retx
  /\ t.inFlight = s.inFlight /\ t.window = s.window /\ t.syn = s.syn /\ t.fin = s.fin

\* The states in which Reno's bounds hold and that differ from s at most in what
\* congestion control owns.
Controlled(s) == {t \in SenderState : RenoOK(t) /\ CongestionFrame(s, t)}

\* Division of naturals, as the congestion window arithmetic uses it.
LEMMA DivNat ==
  ASSUME NEW a \in Nat, NEW b \in Nat, b > 0
  PROVE  a \div b \in Nat
OBVIOUS

\* A new ACK keeps cwnd at one MSS or more and leaves fast recovery.
LEMMA OnNewAckControlled ==
  ASSUME NEW s \in SenderState, RenoOK(s), NEW n \in Nat
  PROVE  OnNewAck(s, n) \in Controlled(s)
<1> DEFINE c0 == IF s.recovery THEN s.ssthresh ELSE s.cwnd
           c == IF c0 < s.ssthresh THEN c0 + n ELSE c0 + ((MaxPayloadSize * n) \div c0)
           t == OnNewAck(s, n)
<1>1. /\ s.cwnd \in Nat /\ s.ssthresh \in Nat /\ s.segmentsOut \in Seq(Segment)
      /\ s.cwnd >= MaxPayloadSize /\ s.ssthresh >= 2 * MaxPayloadSize
      /\ MaxPayloadSize \in Nat /\ MaxPayloadSize > 0
  BY SenderAssumption DEF SenderState, RenoOK
<1>2. c0 \in Nat /\ c0 >= MaxPayloadSize
  BY <1>1
<1>3. (MaxPayloadSize * n) \div c0 \in Nat
  <2>1. MaxPayloadSize * n \in Nat /\ c0 > 0
    <3> HIDE DEF c0
    <3> QED BY <1>1, <1>2
  <2> HIDE DEF c0
  <2> QED BY <1>2, <2>1, DivNat
<1>4. c \in Nat /\ c >= MaxPayloadSize
  <2> DEFINE q == (MaxPayloadSize * n) \div c0
  <2>1. q \in Nat BY <1>3
  <2>2. c = IF c0 < s.ssthresh THEN c0 + n ELSE c0 + q OBVIOUS
  <2> HIDE DEF q, c, c0
  <2> QED BY <1>1, <1>2, <2>1, <2>2
<1>5. t = [s EXCEPT !.recovery = FALSE, !.dupAcks = 0, !.cwnd = c]
  BY DEF OnNewAck
<1> HIDE DEF c, c0, t
<1>6. /\ t \in SenderState /\ CongestionFrame(s, t)
      /\ t.cwnd = c /\ t.ssthresh = s.ssthresh /\ t.recovery = FALSE
  BY <1>4, <1>5, Zenon DEF SenderState, CongestionFrame
<1> QED BY <1>1, <1>4, <1>6 DEF Controlled, RenoOK, t

\* The halved threshold is a number of at least two MSS.
LEMMA HalvedThresholdBound ==
  ASSUME NEW s \in SenderState
  PROVE  /\ HalvedThreshold(s) \in Nat
         /\ HalvedThreshold(s) >= 2 * MaxPayloadSize
<1>1. s.cwnd \in Nat
  BY DEF SenderState
<1>2. s.cwnd \div 2 \in Nat
  BY <1>1, DivNat
<1> QED BY <1>2, SenderAssumption DEF HalvedThreshold, Larger

\* Entering, extending or not yet reaching fast recovery keeps Reno's bounds.
LEMMA OnDupAckControlled ==
  ASSUME NEW s \in SenderState, RenoOK(s)
  PROVE  OnDupAck(s) \in Controlled(s)
<1> DEFINE d == s.dupAcks + 1
           h == HalvedThreshold(s)
           t == [s EXCEPT !.dupAcks = d]
<1>1. /\ s.cwnd \in Nat /\ s.ssthresh \in Nat /\ s.dupAcks \in Nat /\ d \in Nat
      /\ MaxPayloadSize \in Nat /\ MaxPayloadSize > 0 /\ s.recovery \in BOOLEAN
      /\ h \in Nat /\ h >= 2 * MaxPayloadSize
  <2>1. s.cwnd \in Nat /\ s.ssthresh \in Nat /\ s.dupAcks \in Nat /\ s.recovery \in BOOLEAN
    BY DEF SenderState
  <2>2. h \in Nat /\ h >= 2 * MaxPayloadSize
    BY HalvedThresholdBound
  <2> HIDE DEF h
  <2> QED BY <2>1, <2>2, SenderAssumption
<1> HIDE DEF h, d
<1>2. /\ t \in SenderState /\ CongestionFrame(s, t) /\ t.dupAcks = d
      /\ t.cwnd = s.cwnd /\ t.ssthresh = s.ssthresh /\ t.recovery = s.recovery
      /\ t.segmentsOut = s.segmentsOut
  BY <1>1, Zenon DEF SenderState, CongestionFrame
<1>3. s \in Controlled(s)
  BY DEF Controlled, CongestionFrame
<1>4. t \in Controlled(s)
  <2> HIDE DEF t
  <2> QED BY <1>1, <1>2 DEF Controlled, RenoOK, d
<1> DEFINE enter == [t EXCEPT !.ssthresh = h, !.cwnd = h + 3 * MaxPayloadSize, !.recovery = TRUE,
                              !.segmentsOut = Append(t.segmentsOut, Head(s.outstanding).seg)]
           inflate == [t EXCEPT !.cwnd = t.cwnd + MaxPayloadSize]
<1>5. OnDupAck(s) = IF s.outstanding = <<>> THEN s
                    ELSE IF t.dupAcks = 3 /\ ~s.recovery THEN enter
                    ELSE IF s.recovery /\ t.dupAcks > 3 THEN inflate
                    ELSE t
  BY Zenon DEF OnDupAck, enter, inflate, h, d
<1>6. ASSUME s.outstanding # <<>>, t.dupAcks = 3
      PROVE  enter \in Controlled(s)
  <2> DEFINE segs == Append(t.segmentsOut, Head(s.outstanding).seg)
             c == h + 3 * MaxPayloadSize
             u == enter
  <2>1. s.outstanding \in Seq(Outstanding) BY DEF SenderState, Outstanding
  <2>2. Head(s.outstanding) \in Outstanding BY <1>6, <2>1
  <2>3. segs \in Seq(Segment)
    <3>1. t.segmentsOut \in Seq(Segment) BY <1>2 DEF SenderState
    <3>2. Head(s.outstanding).seg \in Segment BY <2>2 DEF Outstanding
    <3> HIDE DEF t
    <3> QED BY <3>1, <3>2
  <2>4. c \in Nat /\ c >= h + 3 * MaxPayloadSize /\ c >= MaxPayloadSize BY <1>1
  <2>5. u = [t EXCEPT !.ssthresh = h, !.cwnd = c, !.recovery = TRUE, !.segmentsOut = segs]
    OBVIOUS
  <2> HIDE DEF segs, c, u, t
  <2>6. /\ u \in SenderState /\ CongestionFrame(t, u) /\ u.ssthresh = h /\ u.cwnd = c
        /\ u.dupAcks = t.dupAcks
    BY <1>1, <1>2, <2>3, <2>4, <2>5, Zenon DEF SenderState, CongestionFrame
  <2>7. CongestionFrame(s, u)
    BY <1>2, <2>6 DEF CongestionFrame
  <2>8. RenoOK(u)
    BY <1>1, <1>6, <2>4, <2>6 DEF RenoOK
  <2> QED BY <2>6, <2>7, <2>8 DEF Controlled, u
<1>7. inflate \in Controlled(s)
  <2> DEFINE c == t.cwnd + MaxPayloadSize
             u == inflate
  <2>1. c \in Nat /\ c >= s.cwnd /\ c >= MaxPayloadSize
    BY <1>1, <1>2 DEF RenoOK
  <2>2. u = [t EXCEPT !.cwnd = c]
    OBVIOUS
  <2> HIDE DEF c, u, t
  <2>3. /\ u \in SenderState /\ CongestionFrame(t, u) /\ u.ssthresh = t.ssthresh /\ u.cwnd = c
        /\ u.dupAcks = t.dupAcks /\ u.recovery = t.recovery
    BY <1>2, <2>1, <2>2, Zenon DEF SenderState, CongestionFrame
  <2>4. CongestionFrame(s, u)
    BY <1>2, <2>3 DEF CongestionFrame
  <2>5. RenoOK(u)
    BY <1>1, <1>2, <1>4, <2>1, <2>3 DEF RenoOK, Controlled
  <2> QED BY <2>3, <2>4, <2>5 DEF Controlled, u
<1> HIDE DEF enter, inflate, t
<1> QED BY <1>3, <1>4, <1>5, <1>6, <1>7

\* The congestion control part of ack_received, whichever branch it takes.
LEMMA AckCongestionControlled ==
  ASSUME NEW s \in SenderState, RenoOK(s), NEW a \in Nat, NEW n \in Nat
  PROVE  AckCongestion(s, a, n) \in Controlled(s)
<1> DEFINE t == IF n > 0 THEN OnNewAck(s, n) ELSE IF a = s.lastAckno THEN OnDupAck(s) ELSE s
           u == [t EXCEPT !.lastAckno = a]
<1>1. s \in Controlled(s)
  BY DEF Controlled, CongestionFrame
<1>2. t \in Controlled(s)
  BY <1>1, OnNewAckControlled, OnDupAckControlled
<1>3. AckCongestion(s, a, n) = IF CongestionControl THEN u ELSE s
  BY DEF AckCongestion
<1> HIDE DEF t
<1>4. t \in SenderState /\ CongestionFrame(s, t) /\ RenoOK(t)
  BY <1>2 DEF Controlled
<1>5. /\ u \in SenderState /\ CongestionFrame(t, u) /\ u.ssthresh = t.ssthresh /\ u.cwnd = t.cwnd
      /\ u.dupAcks = t.dupAcks /\ u.recovery = t.recovery
  BY <1>4, Zenon DEF SenderState, CongestionFrame
<1> HIDE DEF u
<1>6. CongestionFrame(s, u) /\ RenoOK(u)
  BY <1>4, <1>5 DEF CongestionFrame, RenoOK
<1> QED BY <1>1, <1>3, <1>5, <1>6 DEF Controlled

\* The timer part of ack_received makes the timer run exactly while something is outstanding.
LEMMA AckTimerGood ==
  ASSUME NEW s \in SenderState, Flight(s), RenoOK(s), NEW n \in Nat,
         n = 0 /\ s.outstanding # <<>> => s.timer.running
  PROVE  AckTimer(s, n) \in Good
<1> DEFINE reset == [s.timer EXCEPT !.timeOut = RetxTimeout]
           again == Restart(reset)
           tm == IF n > 0 THEN again ELSE s.timer
           rx == IF n > 0 THEN 0 ELSE s.retx
           last == IF s.inFlight = 0 THEN Stop(tm) ELSE tm
           t == AckTimer(s, n)
<1>1. s.timer \in Timer /\ s.retx \in Nat /\ RetxTimeout \in Nat
  BY SenderAssumption DEF SenderState
<1>2. reset \in Timer
  BY <1>1, Zenon DEF Timer
<1>3. again \in Timer /\ again.running = TRUE
  <2> HIDE DEF reset
  <2>1. 0 \in Nat OBVIOUS
  <2> QED BY <1>2, <2>1, Zenon DEF Timer, Restart
<1>4. tm \in Timer /\ (s.outstanding # <<>> => tm.running = TRUE)
  <2>1. s.timer.running \in BOOLEAN BY <1>1 DEF Timer
  <2> HIDE DEF again
  <2> QED BY <1>1, <1>3, <2>1
<1>5. Stop(tm) \in Timer /\ Stop(tm).running = FALSE
  <2> HIDE DEF tm
  <2> QED BY <1>4, Zenon DEF Timer, Stop
<1>6. last \in Timer /\ (s.inFlight = 0 => last.running = FALSE) /\ (s.inFlight # 0 => last = tm)
  <2> HIDE DEF tm
  <2> QED BY <1>4, <1>5
<1>7. rx \in Nat
  BY <1>1
<1>8. /\ t \in SenderState /\ t.timer = last /\ t.retx = rx
      /\ t.isn = s.isn /\ t.stream = s.stream /\ t.nextSeqno = s.nextSeqno
      /\ t.outstanding = s.outstanding /\ t.inFlight = s.inFlight
      /\ t.cwnd = s.cwnd /\ t.ssthresh = s.ssthresh /\ t.dupAcks = s.dupAcks
      /\ t.recovery = s.recovery
  <2> DEFINE v == IF n > 0 THEN [s EXCEPT !.retx = 0, !.timer = again] ELSE s
  <2>1. t = IF s.inFlight = 0 THEN [v EXCEPT !.timer = Stop(v.timer)] ELSE v
    BY Zenon DEF AckTimer, again, reset
  <2>2. /\ v \in SenderState /\ v.timer = tm /\ v.retx = rx
        /\ v.isn = s.isn /\ v.stream = s.stream /\ v.nextSeqno = s.nextSeqno
        /\ v.outstanding = s.outstanding /\ v.inFlight = s.inFlight
        /\ v.cwnd = s.cwnd /\ v.ssthresh = s.ssthresh /\ v.dupAcks = s.dupAcks
        /\ v.recovery = s.recovery
    <3> HIDE DEF again
    <3>1. CASE n > 0
      <4>1. 0 \in Nat OBVIOUS
      <4> QED BY <1>3, <3>1, <4>1, Zenon DEF SenderState
    <3>2. CASE ~(n > 0)
      BY <3>2
    <3> QED BY <3>1, <3>2
  <2> HIDE DEF t, v, tm, rx
  <2>3. CASE s.inFlight = 0
    <3>1. t = [v EXCEPT !.timer = Stop(tm)] BY <2>1, <2>2, <2>3
    <3> QED BY <1>5, <2>2, <2>3, <3>1, Zenon DEF SenderState, last
  <2>4. CASE s.inFlight # 0
    BY <2>1, <2>2, <2>4
  <2> QED BY <2>3, <2>4
<1> HIDE DEF t, last, tm
<1>9. Flight(t) /\ RenoOK(t)
  BY <1>8 DEF Flight, RenoOK
<1>10. s.inFlight = 0 <=> s.outstanding = <<>>
  BY FlightZero
<1>11. TimerOK(t)
  BY <1>4, <1>6, <1>8, <1>10 DEF TimerOK
<1> QED BY <1>8, <1>9, <1>11 DEF Good, t

-----------------------------------------------------------------------------
(* ack_received as a whole *)

\* Unwrapping gives a natural number, whatever the checkpoint.
LEMMA UnwrapType ==
  ASSUME NEW n \in Seqno, NEW isn \in Seqno, NEW c \in Nat
  PROVE  Unwrap(n, isn, c) \in Nat
<1> DEFINE half == Mod32 \div 2
           low == (n - isn) % Mod32
           x1 == (c - half) % Mod64
           x2 == (c + half) % Mod64
<1>1. half \in Nat /\ n \in Int /\ isn \in Int
  BY ModAssumption, DivNat DEF Seqno
<1>2. low \in Nat
  BY <1>1, ModAssumption
<1>3. x1 \in Nat /\ x2 \in Nat
  <2> HIDE DEF half
  <2> QED BY <1>1, ModAssumption
<1>4. \A x \in Nat : HighBits(x) \in Nat
  BY ModAssumption DEF HighBits
<1>5. Unwrap(n, isn, c) \in {low + HighBits(x1), low + HighBits(x2)}
  BY DEF Unwrap
<1> HIDE DEF low, x1, x2
<1> QED BY <1>2, <1>3, <1>4, <1>5

\* A field the invariant does not speak of may change.
LEMMA GoodFrame ==
  ASSUME NEW s \in Good, NEW t \in SenderState,
         t.nextSeqno = s.nextSeqno, t.outstanding = s.outstanding, t.inFlight = s.inFlight,
         t.timer.running = s.timer.running, t.cwnd = s.cwnd, t.ssthresh = s.ssthresh,
         t.dupAcks = s.dupAcks, t.recovery = s.recovery
  PROVE  t \in Good
<1>1. Flight(s) /\ TimerOK(s) /\ RenoOK(s)
  BY DEF Good
<1>2. Flight(t)
  BY <1>1 DEF Flight
<1>3. TimerOK(t) /\ RenoOK(t)
  BY <1>1 DEF TimerOK, RenoOK
<1> QED BY <1>2, <1>3 DEF Good

\* The state ack_received has reached when it calls fill_window.
Acknowledged(s, a, win) ==
  LET p == PopAcked(s, a)
      n == s.inFlight - p.inFlight
  IN  [AckTimer(AckCongestion(p, a, n), n) EXCEPT !.window = win]

\* ack_received keeps the invariant up to its fill_window: acknowledged segments leave the
\* queue with their bytes, and the timer is restarted or stopped to match.
LEMMA AcknowledgedGood ==
  ASSUME NEW s \in Good, NEW a \in Nat, NEW win \in Nat
  PROVE  Acknowledged(s, a, win) \in Good
<1> DEFINE p == PopAcked(s, a)
           n == s.inFlight - p.inFlight
           c == AckCongestion(p, a, n)
           d == AckTimer(c, n)
           e == [d EXCEPT !.window = win]
<1>1. s \in SenderState /\ Flight(s) /\ TimerOK(s) /\ RenoOK(s)
  BY DEF Good
<1>2. a \in Nat
  OBVIOUS
<1>3. Acknowledged(s, a, win) = e
  BY DEF Acknowledged
<1>4. p \in Popping(s)
  BY <1>1, <1>2, PopAckedFlight
<1> HIDE DEF p
<1>5. p \in SenderState /\ Flight(p) /\ AckFrame(s, p)
  BY <1>4 DEF Popping
<1>6. n \in Nat /\ (n = 0 => p.inFlight = s.inFlight)
  <2>1. s.inFlight \in Int /\ p.inFlight \in Int /\ p.inFlight <= s.inFlight
    BY <1>1, <1>5 DEF SenderState, AckFrame
  <2> QED BY <2>1
<1> HIDE DEF n
<1>7. RenoOK(p)
  BY <1>1, <1>5 DEF AckFrame, RenoOK
<1>8. c \in Controlled(p)
  BY <1>2, <1>5, <1>6, <1>7, AckCongestionControlled
<1> HIDE DEF c
<1>9. c \in SenderState /\ RenoOK(c) /\ CongestionFrame(p, c)
  BY <1>8 DEF Controlled
<1>10. Flight(c)
  BY <1>5, <1>9 DEF Flight, CongestionFrame
<1>11. n = 0 /\ c.outstanding # <<>> => c.timer.running
  <2> SUFFICES ASSUME n = 0, c.outstanding # <<>> PROVE c.timer.running
    OBVIOUS
  <2>1. p.outstanding # <<>> BY <1>9 DEF CongestionFrame
  <2>2. p.inFlight # 0 BY <1>5, <2>1, FlightZero
  <2>3. s.inFlight # 0 BY <1>6, <2>2
  <2>4. s.outstanding # <<>> BY <1>1, <2>3, FlightZero
  <2>5. s.timer.running BY <1>1, <2>4 DEF TimerOK
  <2> QED BY <1>5, <1>9, <2>5 DEF AckFrame, CongestionFrame
<1>12. d \in Good
  BY <1>6, <1>9, <1>10, <1>11, AckTimerGood
<1> HIDE DEF d
<1>13. d \in SenderState
  BY <1>12 DEF Good
<1>14. /\ e \in SenderState /\ e.nextSeqno = d.nextSeqno /\ e.outstanding = d.outstanding
       /\ e.inFlight = d.inFlight /\ e.timer = d.timer /\ e.cwnd = d.cwnd
       /\ e.ssthresh = d.ssthresh /\ e.dupAcks = d.dupAcks /\ e.recovery = d.recovery
  BY <1>13, Zenon DEF SenderState
<1> HIDE DEF e
<1>15. e \in Good
  BY <1>12, <1>14, GoodFrame
<1> QED BY <1>3, <1>15

\* An acknowledgment beyond what was sent is ignored; any other is taken in and followed
\* by fill_window.
LEMMA AckReceivedCases ==
  ASSUME NEW s \in Good, NEW ackno \in Seqno, NEW win \in Nat
  PROVE  /\ AbsAckno(s, ackno) \in Nat
         /\ \/ AckReceived(s, ackno, win) = s
            \/ AckReceived(s, ackno, win) = FillWindow(Acknowledged(s, AbsAckno(s, ackno), win))
<1>1. AbsAckno(s, ackno) \in Nat
  BY UnwrapType DEF AbsAckno, Good, SenderState
<1> QED BY <1>1, Zenon DEF AckReceived, Acknowledged

\* ack_received as a whole keeps the invariant.
LEMMA AckReceivedGood ==
  ASSUME NEW s \in Good, NEW ackno \in Seqno, NEW win \in Nat
  PROVE  AckReceived(s, ackno, win) \in Good
BY AckReceivedCases, AcknowledgedGood, FillWindowGood, Zenon

-----------------------------------------------------------------------------
(* tick *)

\* Restarting a timer, doubled or not, gives a running timer.
LEMMA RestartType ==
  ASSUME NEW tm \in Timer
  PROVE  Restart(tm) \in Timer /\ Restart(tm).running = TRUE /\ Restart(tm).timeOut = tm.timeOut
<1>1. 0 \in Nat OBVIOUS
<1> QED BY <1>1, Zenon DEF Timer, Restart

\* A timeout keeps Reno's bounds: it halves ssthresh and falls back to one MSS.
LEMMA OnCongestionTimeoutControlled ==
  ASSUME NEW s \in SenderState
  PROVE  OnCongestionTimeout(s) \in Controlled(s)
<1> DEFINE h == HalvedThreshold(s)
           t == OnCongestionTimeout(s)
<1>1. h \in Nat /\ h >= 2 * MaxPayloadSize /\ MaxPayloadSize \in Nat /\ 0 \in Nat
  BY HalvedThresholdBound, SenderAssumption
<1>2. t = [s EXCEPT !.ssthresh = h, !.cwnd = MaxPayloadSize, !.dupAcks = 0, !.recovery = FALSE]
  BY DEF OnCongestionTimeout
<1> HIDE DEF h, t
<1>3. /\ t \in SenderState /\ CongestionFrame(s, t)
      /\ t.ssthresh = h /\ t.cwnd = MaxPayloadSize /\ t.recovery = FALSE
  BY <1>1, <1>2, Zenon DEF SenderState, CongestionFrame
<1> QED BY <1>1, <1>3 DEF Controlled, RenoOK, t

\* Retransmitting the oldest segment leaves the queue alone and the timer running.
LEMMA RetransmitOldestGood ==
  ASSUME NEW s \in Good, s.outstanding # <<>>
  PROVE  RetransmitOldest(s) \in Good
<1> DEFINE t == IF CongestionControl THEN OnCongestionTimeout(s) ELSE s
           b == IF s.window > 0
                THEN [t EXCEPT !.retx = t.retx + 1, !.timer.timeOut = t.timer.timeOut * 2] ELSE t
           segs == Append(b.segmentsOut, Head(s.outstanding).seg)
           u == RetransmitOldest(s)
<1>1. s \in SenderState /\ Flight(s) /\ TimerOK(s) /\ RenoOK(s)
  BY DEF Good
<1>2. t \in Controlled(s)
  <2>1. s \in Controlled(s) BY <1>1 DEF Controlled, CongestionFrame
  <2> QED BY <1>1, <2>1, OnCongestionTimeoutControlled
<1>3. u = [b EXCEPT !.segmentsOut = segs, !.timer = Restart(b.timer)]
  BY Zenon DEF RetransmitOldest
<1> HIDE DEF t
<1>4. t \in SenderState /\ RenoOK(t) /\ CongestionFrame(s, t)
  BY <1>2 DEF Controlled
<1>5. /\ b \in SenderState /\ b.nextSeqno = t.nextSeqno /\ b.outstanding = t.outstanding
      /\ b.inFlight = t.inFlight /\ b.cwnd = t.cwnd /\ b.ssthresh = t.ssthresh
      /\ b.dupAcks = t.dupAcks /\ b.recovery = t.recovery
  <2> DEFINE rx == t.retx + 1
             to == t.timer.timeOut * 2
             tm == [t.timer EXCEPT !.timeOut = to]
             v == [t EXCEPT !.retx = rx, !.timer = tm]
  <2>1. t.timer \in Timer /\ t.retx \in Nat BY <1>4 DEF SenderState
  <2>2. rx \in Nat /\ to \in Nat BY <2>1 DEF Timer
  <2>3. b = IF s.window > 0 THEN v ELSE t
    BY Zenon
  <2> HIDE DEF rx, to, b
  <2>4. tm \in Timer BY <2>1, <2>2, Zenon DEF Timer
  <2> HIDE DEF tm
  <2>5. /\ v \in SenderState /\ v.nextSeqno = t.nextSeqno /\ v.outstanding = t.outstanding
        /\ v.inFlight = t.inFlight /\ v.cwnd = t.cwnd /\ v.ssthresh = t.ssthresh
        /\ v.dupAcks = t.dupAcks /\ v.recovery = t.recovery
    BY <1>4, <2>2, <2>4, Zenon DEF SenderState
  <2> HIDE DEF v
  <2> QED BY <1>4, <2>3, <2>5
<1> HIDE DEF b
<1>6. segs \in Seq(Segment)
  <2>1. b.segmentsOut \in Seq(Segment) BY <1>5 DEF SenderState
  <2>2. s.outstanding \in Seq(Outstanding) BY <1>1 DEF SenderState, Outstanding
  <2>3. Head(s.outstanding) \in Outstanding BY <2>2
  <2>4. Head(s.outstanding).seg \in Segment BY <2>3 DEF Outstanding
  <2> QED BY <2>1, <2>4
<1>7. Restart(b.timer) \in Timer /\ Restart(b.timer).running = TRUE
  <2>1. b.timer \in Timer BY <1>5 DEF SenderState
  <2> QED BY <2>1, RestartType, Zenon
<1> HIDE DEF segs, u
<1>8. /\ u \in SenderState /\ u.nextSeqno = b.nextSeqno /\ u.outstanding = b.outstanding
      /\ u.inFlight = b.inFlight /\ u.timer = Restart(b.timer) /\ u.cwnd = b.cwnd
      /\ u.ssthresh = b.ssthresh /\ u.dupAcks = b.dupAcks /\ u.recovery = b.recovery
  BY <1>3, <1>5, <1>6, <1>7, Zenon DEF SenderState
<1>9. RenoOK(u)
  BY <1>4, <1>5, <1>8 DEF RenoOK
<1>10. u.outstanding = s.outstanding /\ u.nextSeqno = s.nextSeqno /\ u.inFlight = s.inFlight
  BY <1>4, <1>5, <1>8 DEF CongestionFrame
<1>11. Flight(u)
  BY <1>1, <1>10 DEF Flight
<1>12. TimerOK(u)
  BY <1>7, <1>8, <1>10 DEF TimerOK
<1> QED BY <1>8, <1>9, <1>11, <1>12 DEF Good, u

\* tick keeps the invariant, whether or not the timer expires.
LEMMA SenderTickGood ==
  ASSUME NEW s \in Good, NEW ms \in Nat
  PROVE  SenderTick(s, ms) \in Good
<1> DEFINE tm == TimerTick(s.timer, ms)
           t == [s EXCEPT !.timer = tm]
<1>1. s \in SenderState /\ s.timer \in Timer
  BY DEF Good, SenderState
<1>2. tm \in Timer /\ tm.running = s.timer.running
  <2> DEFINE c == s.timer.count + ms
  <2>1. c \in Nat BY <1>1 DEF Timer
  <2>2. tm = IF s.timer.running THEN [s.timer EXCEPT !.count = c] ELSE s.timer
    BY DEF TimerTick
  <2> HIDE DEF c, tm
  <2>3. [s.timer EXCEPT !.count = c] \in Timer /\ [s.timer EXCEPT !.count = c].running = s.timer.running
    BY <1>1, <2>1, Zenon DEF Timer
  <2> QED BY <1>1, <2>2, <2>3, Zenon
<1>3. SenderTick(s, ms) = IF TimedOut(t.timer) /\ t.outstanding # <<>> THEN RetransmitOldest(t) ELSE t
  BY Zenon DEF SenderTick
<1> HIDE DEF tm
<1>4. /\ t \in SenderState /\ t.nextSeqno = s.nextSeqno /\ t.outstanding = s.outstanding
      /\ t.inFlight = s.inFlight /\ t.timer = tm /\ t.cwnd = s.cwnd
      /\ t.ssthresh = s.ssthresh /\ t.dupAcks = s.dupAcks /\ t.recovery = s.recovery
  BY <1>1, <1>2, Zenon DEF SenderState
<1> HIDE DEF t
<1>5. t \in Good
  BY <1>2, <1>4, GoodFrame
<1> QED BY <1>3, <1>5, RetransmitOldestGood

-----------------------------------------------------------------------------
(* The calls that only feed or drain the sender *)

\* Writing to the stream keeps what is buffered within its capacity.
LEMMA StreamWriteType ==
  ASSUME NEW b \in ByteStreamState, NEW data \in Seq(Byte)
  PROVE  StreamWrite(b, data) \in ByteStreamState
<1> DEFINE n == Lesser(Len(data), RemainingCapacity(b))
           part == SubSeq(data, 1, n)
           d == b.data \o part
           w == b.written + n
           c == StreamWrite(b, data)
<1>1. b \in RawStream /\ b.read <= b.written /\ b.written - b.read <= b.capacity
      /\ Len(b.data) = b.written - b.read
  BY StreamType, Zenon
<1>2. b.data \in Seq(Byte) /\ b.read \in Nat /\ b.written \in Nat /\ b.capacity \in Nat
  BY <1>1 DEF RawStream
<1>3. Len(data) \in Nat /\ n \in Nat /\ n <= Len(data) /\ n <= b.capacity - (b.written - b.read)
  BY <1>1, <1>2 DEF Lesser, RemainingCapacity, BufferSize
<1>4. c = [b EXCEPT !.data = d, !.written = w]
  BY DEF StreamWrite
<1> HIDE DEF n
<1>5. part \in Seq(Byte) /\ Len(part) = n
  BY <1>3, SubSeqProperties
<1> HIDE DEF part
<1>6. d \in Seq(Byte) /\ Len(d) = Len(b.data) + n
  BY <1>2, <1>5, ConcatProperties, Zenon
<1>7. w = b.written + n /\ w \in Nat
  BY <1>2, <1>3
<1> HIDE DEF d, w, c
<1>8. /\ c \in RawStream /\ c.data = d /\ c.written = w /\ c.read = b.read
      /\ c.capacity = b.capacity
  BY <1>1, <1>4, <1>6, <1>7, Zenon DEF RawStream
<1>9. c.read <= c.written /\ c.written - c.read <= c.capacity
  BY <1>1, <1>2, <1>3, <1>7, <1>8
<1>10. Len(c.data) = c.written - c.read
  <2>1. Len(c.data) = Len(b.data) + n BY <1>6, <1>8
  <2> QED BY <1>1, <1>2, <1>3, <1>7, <1>8, <2>1
<1>11. c \in ByteStreamState
  BY <1>8, <1>9, <1>10, StreamType
<1> QED BY <1>11 DEF c

\* Ending the input changes nothing else in the stream.
LEMMA EndInputType ==
  ASSUME NEW b \in ByteStreamState
  PROVE  EndInput(b) \in ByteStreamState
<1> DEFINE c == EndInput(b)
<1>1. b \in RawStream /\ b.read <= b.written /\ b.written - b.read <= b.capacity
      /\ Len(b.data) = b.written - b.read
  BY StreamType, Zenon
<1>2. /\ c \in RawStream /\ c.data = b.data /\ c.written = b.written /\ c.read = b.read
      /\ c.capacity = b.capacity
  BY <1>1, Zenon DEF RawStream, EndInput
<1> HIDE DEF c
<1>3. c \in ByteStreamState
  BY <1>1, <1>2, StreamType
<1> QED BY <1>3 DEF c

\* Replacing the outgoing stream by another one keeps the invariant.
LEMMA SetStreamGood ==
  ASSUME NEW s \in Good, NEW b \in ByteStreamState
  PROVE  [s EXCEPT !.stream = b] \in Good
<1> DEFINE t == [s EXCEPT !.stream = b]
<1>1. s \in SenderState
  BY DEF Good
<1>2. /\ t \in SenderState /\ t.nextSeqno = s.nextSeqno /\ t.outstanding = s.outstanding
      /\ t.inFlight = s.inFlight /\ t.timer = s.timer /\ t.cwnd = s.cwnd
      /\ t.ssthresh = s.ssthresh /\ t.dupAcks = s.dupAcks /\ t.recovery = s.recovery
  BY <1>1, Zenon DEF SenderState
<1> HIDE DEF t
<1>3. t \in Good
  BY <1>2, GoodFrame
<1> QED BY <1>3 DEF t

\* Replacing the queue of segments to transmit keeps the invariant.
LEMMA SetSegmentsOutGood ==
  ASSUME NEW s \in Good, NEW segs \in Seq(Segment)
  PROVE  [s EXCEPT !.segmentsOut = segs] \in Good
<1> DEFINE t == [s EXCEPT !.segmentsOut = segs]
<1>1. s \in SenderState
  BY DEF Good
<1>2. /\ t \in SenderState /\ t.nextSeqno = s.nextSeqno /\ t.outstanding = s.outstanding
      /\ t.inFlight = s.inFlight /\ t.timer = s.timer /\ t.cwnd = s.cwnd
      /\ t.ssthresh = s.ssthresh /\ t.dupAcks = s.dupAcks /\ t.recovery = s.recovery
  BY <1>1, Zenon DEF SenderState
<1> HIDE DEF t
<1>3. t \in Good
  BY <1>2, GoodFrame
<1> QED BY <1>3 DEF t

\* An empty segment is a segment.
LEMMA EmptySegmentType ==
  ASSUME NEW q \in Seqno
  PROVE  EmptySegment(q) \in Segment
<1>1. 0 \in Seqno BY ModAssumption DEF Seqno
<1> QED BY <1>1 DEF EmptySegment, Segment

\* send_empty_segment keeps the invariant: an empty segment is not tracked.
LEMMA SendEmptyGood ==
  ASSUME NEW s \in Good
  PROVE  SendEmptySegment(s) \in Good
<1> DEFINE seg == EmptySegment(Wrap(s.nextSeqno, s.isn))
           segs == Append(s.segmentsOut, seg)
<1>1. s.nextSeqno \in Nat /\ s.isn \in Seqno /\ s.segmentsOut \in Seq(Segment)
  BY DEF Good, SenderState
<1>2. seg \in Segment
  BY <1>1, WrapType, EmptySegmentType
<1>3. SendEmptySegment(s) = [s EXCEPT !.segmentsOut = segs]
  BY DEF SendEmptySegment
<1> HIDE DEF seg
<1>4. segs \in Seq(Segment)
  BY <1>1, <1>2
<1> HIDE DEF segs
<1> QED BY <1>3, <1>4, SetSegmentsOutGood

-----------------------------------------------------------------------------
(* The invariant of the state machine *)

\* A freshly constructed TCPSender satisfies the invariant.
LEMMA InitGood == Init => snd \in Good
<1> SUFFICES ASSUME Init PROVE snd \in Good
  OBVIOUS
<1> DEFINE s == NewSender(SendCapacity, ISN)
<1>1. NewStream(SendCapacity) \in ByteStreamState
  <2> DEFINE b == NewStream(SendCapacity)
  <2>1. /\ b \in RawStream /\ b.data = <<>> /\ b.written = 0 /\ b.read = 0
        /\ b.capacity = SendCapacity
    BY SpecAssumption DEF NewStream, RawStream
  <2>2. SendCapacity \in Nat BY SpecAssumption
  <2> HIDE DEF b
  <2>3. b \in ByteStreamState BY <2>1, <2>2, StreamType
  <2> QED BY <2>3 DEF b
<1>2. [count |-> 0, timeOut |-> RetxTimeout, running |-> FALSE] \in Timer
  BY SenderAssumption DEF Timer
<1>3. SizeMax \in Nat /\ MaxPayloadSize \in Nat /\ 2 * MaxPayloadSize <= SizeMax
  BY SenderAssumption, ModAssumption DEF SizeMax
<1>4. ISN \in Seqno /\ 0 \in Nat /\ 1 \in Nat /\ 0 \in Int
  BY SpecAssumption
<1>5. s \in SenderState
  BY <1>1, <1>2, <1>3, <1>4 DEF NewSender, SenderState
<1>6. /\ s.outstanding = <<>> /\ s.inFlight = 0 /\ s.timer.running = FALSE
      /\ s.cwnd = MaxPayloadSize /\ s.ssthresh = SizeMax /\ s.recovery = FALSE
  BY DEF NewSender
<1> HIDE DEF s
<1>7. Flight(s) /\ TimerOK(s)
  BY <1>6 DEF Flight, TimerOK, Contiguous
<1>8. RenoOK(s)
  BY <1>3, <1>6 DEF RenoOK
<1>9. snd = s
  BY DEF Init, s
<1> QED BY <1>5, <1>7, <1>8, <1>9 DEF Good

\* Every call the owner can make keeps the invariant.
LEMMA NextGood == snd \in Good /\ [Next]_snd => snd' \in Good
<1> SUFFICES ASSUME snd \in Good, [Next]_snd
             PROVE  snd' \in Good
  OBVIOUS
<1>1. Drained \in Good
  <2>1. <<>> \in Seq(Segment) OBVIOUS
  <2> QED BY <2>1, SetSegmentsOutGood, Zenon DEF Drained
<1>2. CASE Connect
  BY <1>1, <1>2, FillWindowGood DEF Connect
<1>3. ASSUME NEW n \in 1..MaxBytes, Write(n)
      PROVE  snd' \in Good
  <2> DEFINE b == Drained.stream
             data == Bytes(b.written + 1, n)
             t == [Drained EXCEPT !.stream = StreamWrite(b, data)]
  <2>1. b \in ByteStreamState
    BY <1>1 DEF Good, SenderState
  <2>2. b.written \in Nat
    BY <2>1 DEF ByteStreamState
  <2>3. data \in Seq(Byte)
    <3> HIDE DEF b
    <3>1. n \in Nat /\ \A i \in 1..n : b.written + 1 + i - 1 \in Byte
      BY <2>2, SpecAssumption DEF Byte
    <3> QED BY <3>1 DEF Bytes
  <2>4. snd' = FillWindow(t)
    BY <1>3, Zenon DEF Write
  <2>5. StreamWrite(b, data) \in ByteStreamState
    BY <2>1, <2>3, StreamWriteType
  <2>6. t \in Good
    BY <1>1, <2>5, SetStreamGood
  <2> QED BY <2>4, <2>6, FillWindowGood
<1>4. CASE EndInputStream
  <2> DEFINE b == Drained.stream
             t == [Drained EXCEPT !.stream = EndInput(b)]
  <2>1. b \in ByteStreamState
    BY <1>1 DEF Good, SenderState
  <2>2. t \in Good
    BY <1>1, <2>1, EndInputType, SetStreamGood
  <2>3. snd' = FillWindow(t)
    BY <1>4, Zenon DEF EndInputStream
  <2> QED BY <2>2, <2>3, FillWindowGood
<1>5. ASSUME NEW ackno \in Seqno, NEW win \in 0..MaxWindow, Ack(ackno, win)
      PROVE  snd' \in Good
  <2>1. win \in Nat
    BY SpecAssumption
  <2> QED BY <1>1, <1>5, <2>1, AckReceivedGood DEF Ack
<1>6. ASSUME NEW ms \in 1..MaxTick, Tick(ms)
      PROVE  snd' \in Good
  <2>1. ms \in Nat
    BY SpecAssumption
  <2> QED BY <1>1, <1>6, <2>1, SenderTickGood DEF Tick
<1>7. CASE SendEmpty
  BY <1>1, <1>7, SendEmptyGood DEF SendEmpty
<1>8. CASE UNCHANGED snd
  BY <1>8
<1> QED BY <1>2, <1>3, <1>4, <1>5, <1>6, <1>7, <1>8 DEF Next

\* The inductive invariant of the sender.
IInv == snd \in Good

\* The inductive invariant implies the invariants the runs check.
LEMMA GoodImplies ==
  IInv => TypeOK /\ InFlightExact /\ TimerGuardsOutstanding /\ RenoWindow
<1> SUFFICES ASSUME snd \in Good
             PROVE  TypeOK /\ InFlightExact /\ TimerGuardsOutstanding /\ RenoWindow
  BY DEF IInv
<1>1. snd \in SenderState /\ Flight(snd) /\ TimerOK(snd) /\ RenoOK(snd)
  BY DEF Good
<1> QED BY <1>1 DEF TypeOK, InFlightExact, TimerGuardsOutstanding, RenoWindow, Flight, TimerOK, RenoOK

\* Every state of the sender satisfies the inductive invariant.
LEMMA AlwaysGood == Spec => []IInv
<1>1. Init => IInv
  BY InitGood DEF IInv
<1>2. IInv /\ [Next]_snd => IInv'
  BY NextGood DEF IInv
<1> QED BY <1>1, <1>2, PTL DEF Spec

\* Every field of the TCPSender keeps its type, its stream its representation invariant,
\* whatever the calls, acknowledgments, windows and times.
THEOREM SenderTypeCorrect == Spec => []TypeOK
BY AlwaysGood, GoodImplies, PTL

\* _bytes_in_flight always equals what the outstanding queue covers, and the queue covers
\* sequence space without hole up to next_seqno: the subtraction in ack_received never
\* underflows, however acknowledgments, retransmissions and new sends interleave.
THEOREM InFlightAlwaysExact == Spec => []InFlightExact
BY AlwaysGood, GoodImplies, PTL

\* The retransmission timer runs exactly while a segment is outstanding.
THEOREM TimerAlwaysGuards == Spec => []TimerGuardsOutstanding
BY AlwaysGood, GoodImplies, PTL

\* Reno's bounds on cwnd and ssthresh hold for every MSS and every history of ACKs.
THEOREM RenoAlwaysBounded == Spec => []RenoWindow
BY AlwaysGood, GoodImplies, PTL
=============================================================================
