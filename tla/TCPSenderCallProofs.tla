------------------------- MODULE TCPSenderCallProofs ------------------------
(***************************************************************************)
(* What the calls of the TCPSender send, on top of the invariant of        *)
(* TCPSenderProofs: only what the window allows, all that it allows, each  *)
(* segment with the bytes of its place in the stream, and nothing but new  *)
(* segments, empty ones and copies of the oldest.                          *)
(*                                                                         *)
(* All four are facts about the loop of fill_window.  Filled is its        *)
(* invariant, relative to the state the loop starts from; Settled is what  *)
(* its last round leaves when the window is not full.                      *)
(***************************************************************************)
EXTENDS TCPSenderProofs

-----------------------------------------------------------------------------
(* One round of fill_window *)

\* There is nothing the sender could send.
Settled(s) == s.syn /\ BufferSize(s.stream) = 0 /\ (s.stream.ended => s.fin)

\* The next segment lies within the window, carries the first bytes of the stream, and is
\* empty only if nothing is left to send.
LEMMA NextSegmentFields ==
  ASSUME NEW s \in SenderState, NEW w \in Nat, s.inFlight \in Nat, s.inFlight < w
  PROVE  LET seg == NextSegment(s, w)
             n == Len(seg.payload)
         IN  /\ seg \in Segment /\ seg.seqno = Wrap(s.nextSeqno, s.isn) /\ seg.syn = ~s.syn
             /\ n \in Nat /\ n <= BufferSize(s.stream)
             /\ seg.payload = SubSeq(s.stream.data, 1, n)
             /\ seg.fin => ~s.fin /\ Eof(PopOutput(s.stream, n))
             /\ s.inFlight + LengthInSequenceSpace(seg) <= w
             /\ LengthInSequenceSpace(seg) = 0 => Settled(s)
<1> DEFINE syn == ~s.syn
           one == BoolToNat(syn)
           room == w - s.inFlight - one
           buf == BufferSize(s.stream)
           size == Lesser(MaxPayloadSize, Lesser(room, buf))
           payload == PeekOutput(s.stream, size)
           fin == /\ ~s.fin
                  /\ Eof(PopOutput(s.stream, size))
                  /\ s.inFlight + Len(payload) + one < w
           empty == EmptySegment(Wrap(s.nextSeqno, s.isn))
           seg == NextSegment(s, w)
           last == BoolToNat(fin)
<1>1. seg = [empty EXCEPT !.syn = syn, !.fin = fin, !.payload = payload]
  BY DEF NextSegment
<1>2. seg \in Segment
  BY NextSegmentType
<1>3. one \in {0, 1} /\ (one = 0 <=> s.syn)
  BY DEF BoolToNat, SenderState
<1>4. s.stream \in ByteStreamState /\ buf \in Nat
  BY DEF SenderState, ByteStreamState, BufferSize
<1>5. MaxPayloadSize \in Nat /\ MaxPayloadSize > 0
  BY SenderAssumption
<1>6. fin \in BOOLEAN /\ syn \in BOOLEAN
  OBVIOUS
<1> HIDE DEF one, buf
<1>7. /\ size \in Nat /\ size <= room /\ size <= buf /\ Lesser(size, buf) = size
      /\ size = 0 => room = 0 \/ buf = 0
  BY <1>3, <1>4, <1>5 DEF Lesser
<1>8. payload \in Seq(Byte) /\ Len(payload) = size
  <2> HIDE DEF size
  <2> QED BY <1>4, <1>7, PeekOutputType DEF buf
<1>9. payload = SubSeq(s.stream.data, 1, size)
  BY <1>7 DEF PeekOutput, buf
<1>10. fin <=> ~s.fin /\ Eof(PopOutput(s.stream, size)) /\ s.inFlight + size + one < w
  BY <1>8
<1> HIDE DEF syn, fin, payload, empty, seg, size, room
<1>11. empty.seqno = Wrap(s.nextSeqno, s.isn) /\ empty = EmptySegment(Wrap(s.nextSeqno, s.isn))
  BY DEF empty, EmptySegment
<1>12. seg.seqno = empty.seqno /\ seg.syn = syn /\ seg.fin = fin /\ seg.payload = payload
  BY <1>1, <1>11, Zenon DEF EmptySegment
<1>13. last \in {0, 1} /\ (last = 1 <=> fin)
  BY <1>6 DEF BoolToNat
<1>14. LengthInSequenceSpace(seg) = size + one + last
  BY <1>8, <1>12, Zenon DEF LengthInSequenceSpace, one
<1> HIDE DEF last
<1>15. s.inFlight + LengthInSequenceSpace(seg) <= w
  <2>1. CASE last = 1
    <3>1. s.inFlight + size + one < w
      BY <1>10, <1>13, <2>1
    <3> QED BY <1>3, <1>7, <1>14, <2>1, <3>1
  <2>2. CASE last = 0
    BY <1>3, <1>7, <1>14, <2>2 DEF room
  <2> QED BY <1>13, <2>1, <2>2
<1>16. ASSUME LengthInSequenceSpace(seg) = 0 PROVE Settled(s)
  <2>0. size = 0 /\ one = 0 /\ last = 0
    BY <1>3, <1>7, <1>13, <1>14, <1>16
  <2>1. size = 0 /\ one = 0 /\ ~fin
    BY <1>13, <2>0
  <2>2. s.syn /\ room > 0 /\ buf = 0
    BY <1>3, <1>7, <2>1 DEF room
  <2>3. s.inFlight + size + one < w
    BY <2>1
  <2>4. ~Eof(PopOutput(s.stream, 0)) \/ s.fin
    BY <1>10, <2>1, <2>3
  <2>5. PopOutput(s.stream, 0) \in ByteStreamState /\ PopOutput(s.stream, 0).ended = s.stream.ended
        /\ PopOutput(s.stream, 0).read = s.stream.read + Lesser(0, buf)
        /\ PopOutput(s.stream, 0).written = s.stream.written
    BY <1>4, PopOutputType, Zenon DEF buf
  <2>6. BufferSize(PopOutput(s.stream, 0)) = 0
    BY <1>4, <2>2, <2>5 DEF BufferSize, Lesser, buf, ByteStreamState
  <2> QED BY <2>2, <2>4, <2>5, <2>6 DEF Settled, Eof, buf
<1>17. seg.fin => ~s.fin /\ Eof(PopOutput(s.stream, size))
  BY <1>10, <1>12
<1>18. Len(seg.payload) = size /\ seg.syn = ~s.syn
  BY <1>8, <1>12 DEF syn
<1> QED BY <1>2, <1>7, <1>9, <1>11, <1>12, <1>15, <1>16, <1>17, <1>18 DEF seg, buf

\* A round of fill_window sends the next segment, or finds the window full or nothing to
\* send and leaves everything as it is.
LEMMA FillRoundEffect ==
  ASSUME NEW w \in Nat, NEW s \in Good
  PROVE  LET t == FillRound(w)[s]
             seg == NextSegment(s, w)
         IN  /\ t \in Good
             /\ \/ t = s /\ (s.inFlight < w => Settled(s))
                \/ /\ s.inFlight < w /\ LengthInSequenceSpace(seg) > 0
                   /\ SendSegmentEffect(s, seg, t)
<1> DEFINE t == FillRound(w)[s]
           seg == NextSegment(s, w)
           len == LengthInSequenceSpace(seg)
<1>1. s \in SenderState /\ s.inFlight \in Nat
  BY FlightZero DEF Good
<1>2. t = IF s.inFlight < w /\ len > 0 THEN SendSegment(s, seg) ELSE s
  BY <1>1 DEF FillRound
<1>3. t \in Good
  BY FillRoundGood
<1> HIDE DEF t
<1>4. CASE s.inFlight < w
  <2>1. seg \in Segment /\ (len = 0 => Settled(s))
    BY <1>1, <1>4, NextSegmentFields
  <2>2. len \in Nat /\ SendSegmentEffect(s, seg, SendSegment(s, seg))
    BY <1>1, <2>1, SegmentLengthType, SendSegmentFields
  <2> HIDE DEF seg, len
  <2>3. CASE len = 0
    BY <1>2, <1>3, <2>1, <2>3 DEF t, seg
  <2>4. CASE len > 0
    BY <1>2, <1>3, <1>4, <2>2, <2>4 DEF t, seg, len
  <2> QED BY <2>2, <2>3, <2>4
<1>5. CASE ~(s.inFlight < w)
  BY <1>2, <1>3, <1>5 DEF t
<1> QED BY <1>4, <1>5

-----------------------------------------------------------------------------
(* The whole loop of fill_window *)

\* The states of the loop started in s with window w: what it has sent lies in the window.
Filled(s, w) ==
  {t \in Good : /\ t.window = s.window /\ t.cwnd = s.cwnd
                /\ t.nextSeqno = s.nextSeqno \/ (t.nextSeqno > s.nextSeqno /\ t.inFlight <= w)}

\* A round stays within Filled, and puts more in flight unless it has nothing to do.
LEMMA FillRoundFilled ==
  ASSUME NEW w \in Nat, NEW s \in Good, NEW t \in Filled(s, w)
  PROVE  LET u == FillRound(w)[t]
         IN  /\ u \in Filled(s, w)
             /\ t.inFlight \in Nat /\ u.inFlight \in Nat
             /\ \/ u.inFlight > t.inFlight
                \/ u = t /\ (t.inFlight < w => Settled(t))
<1> DEFINE u == FillRound(w)[t]
           seg == NextSegment(t, w)
           len == LengthInSequenceSpace(seg)
<1>1. t \in Good /\ t \in SenderState /\ t.inFlight \in Nat
  BY FlightZero DEF Filled, Good
<1>2. /\ u \in Good
      /\ \/ u = t /\ (t.inFlight < w => Settled(t))
         \/ t.inFlight < w /\ len > 0 /\ SendSegmentEffect(t, seg, u)
  BY <1>1, FillRoundEffect
<1> HIDE DEF u
<1>3. CASE u = t /\ (t.inFlight < w => Settled(t))
  BY <1>1, <1>3 DEF u
<1>4. CASE t.inFlight < w /\ len > 0 /\ SendSegmentEffect(t, seg, u)
  <2>1. seg \in Segment /\ t.inFlight + len <= w
    BY <1>1, <1>4, NextSegmentFields
  <2>2. len \in Nat
    BY <2>1, SegmentLengthType
  <2>3. /\ u.nextSeqno = t.nextSeqno + len /\ u.inFlight = t.inFlight + len
        /\ u.window = t.window /\ u.cwnd = t.cwnd
    BY <1>4 DEF SendSegmentEffect
  <2>4. t.nextSeqno \in Nat /\ s.nextSeqno \in Nat /\ t.nextSeqno >= s.nextSeqno
    <3>1. t.nextSeqno \in Nat /\ s.nextSeqno \in Nat
      BY <1>1 DEF Good, SenderState
    <3>2. t.nextSeqno = s.nextSeqno \/ t.nextSeqno > s.nextSeqno
      BY DEF Filled
    <3> QED BY <3>1, <3>2
  <2> HIDE DEF seg, len
  <2>5. u.nextSeqno > s.nextSeqno /\ u.inFlight <= w /\ u.inFlight > t.inFlight /\ u.inFlight \in Nat
    BY <1>1, <1>4, <2>1, <2>2, <2>3, <2>4
  <2>6. u.window = s.window /\ u.cwnd = s.cwnd
    BY <2>3 DEF Filled
  <2> QED BY <1>1, <1>2, <2>5, <2>6 DEF Filled, u
<1> QED BY <1>2, <1>3, <1>4

\* fill_window sends only into the window, and stops only when the window is full or
\* nothing is left to send.
LEMMA FillWindowEffect ==
  ASSUME NEW s \in Good
  PROVE  LET t == FillWindow(s)
         IN  /\ t \in Filled(s, EffectiveWindow(s))
             /\ t.inFlight >= EffectiveWindow(s) \/ Settled(t)
<1> DEFINE w == EffectiveWindow(s)
           F == FillRound(w)
           n == Larger(w - s.inFlight, 0)
           q == Orbit(F, s)
           full(t) == t.inFlight >= w \/ Settled(t)
<1>1. s \in SenderState /\ s.inFlight \in Nat
  BY FlightZero DEF Good
<1>2. w \in Nat
  BY <1>1, EffectiveWindowType
<1>3. FillWindow(s) = q[n]
  BY DEF FillWindow
<1> HIDE DEF w
<1>4. n \in Nat /\ s.inFlight + n >= w
  BY <1>1, <1>2 DEF Larger
<1>5. s \in Filled(s, w)
  BY DEF Filled
<1>6. \A t \in Filled(s, w) : F[t] \in Filled(s, w)
  BY <1>2, FillRoundFilled
<1>7. q[0] = s /\ \A k \in Nat : q[k] \in Filled(s, w) /\ q[k + 1] = F[q[k]]
  <2> DEFINE I == Filled(s, w)
  <2>1. s \in I /\ \A t \in I : F[t] \in I
    BY <1>5, <1>6
  <2> HIDE DEF F, I
  <2>2. /\ Orbit(F, s)[0] = s
        /\ \A k \in Nat : Orbit(F, s)[k] \in I /\ Orbit(F, s)[k + 1] = F[Orbit(F, s)[k]]
    BY <2>1, OrbitWithin
  <2> QED BY <2>2 DEF I
<1>8. \A k \in Nat : /\ q[k].inFlight \in Nat /\ q[k + 1].inFlight \in Nat
                      /\ \/ q[k + 1].inFlight > q[k].inFlight
                         \/ q[k + 1] = q[k] /\ (q[k].inFlight < w => Settled(q[k]))
  <2> TAKE k \in Nat
  <2>1. q[k] \in Filled(s, w) /\ q[k + 1] = F[q[k]]
    BY <1>7
  <2> HIDE DEF q
  <2> QED BY <1>2, <2>1, FillRoundFilled
<1> HIDE DEF q, n
<1> DEFINE P == {k \in Nat : \/ q[k].inFlight >= w \/ q[k + 1] = q[k]
                             \/ q[k].inFlight >= s.inFlight + k}
<1>9. 0 \in P
  BY <1>1, <1>7
<1>10. \A k \in Nat : k \in P => k + 1 \in P
  <2> SUFFICES ASSUME NEW k \in Nat, k \in P PROVE k + 1 \in P
    OBVIOUS
  <2>1. /\ q[k].inFlight \in Nat /\ q[k + 1].inFlight \in Nat
        /\ q[k + 1].inFlight > q[k].inFlight \/ q[k + 1] = q[k]
    BY <1>8
  <2>2. CASE q[k + 1] = q[k]
    <3>1. k + 1 \in Nat /\ q[k + 1] = F[q[k]]
      BY <1>7
    <3>2. q[(k + 1) + 1] = F[q[k + 1]]
      BY <1>7, <3>1
    <3> QED BY <2>2, <3>1, <3>2
  <2>3. CASE q[k + 1].inFlight > q[k].inFlight
    <3>1. q[k].inFlight >= w \/ q[k].inFlight >= s.inFlight + k
      BY <2>1, <2>3
    <3> QED BY <1>1, <1>2, <2>1, <2>3, <3>1
  <2> QED BY <2>1, <2>2, <2>3
<1>11. n \in P
  <2> HIDE DEF P
  <2> QED BY <1>4, <1>9, <1>10, Induct
<1>12. full(q[n])
  <2>1. /\ q[n].inFlight \in Nat
        /\ q[n + 1].inFlight > q[n].inFlight \/ (q[n].inFlight < w => Settled(q[n]))
    BY <1>4, <1>8
  <2>2. CASE q[n + 1] = q[n]
    BY <1>2, <2>1, <2>2
  <2>3. CASE q[n + 1] # q[n]
    BY <1>1, <1>2, <1>4, <1>11, <2>1, <2>3
  <2> QED BY <2>2, <2>3
<1> QED BY <1>3, <1>4, <1>7, <1>12 DEF w

-----------------------------------------------------------------------------
(* Sequence numbers and the stream *)

\* The entries of the outstanding queue.
Entries(s) == {s.outstanding[k] : k \in 1..Len(s.outstanding)}

\* The buffered bytes are the ones that follow what was read.
Numbered(b) == \A i \in 1..Len(b.data) : b.data[i] = b.read + i

\* The entry o carries what its place in sequence space says.
EntryMatches(s, o) ==
  /\ o.seg.seqno = Wrap(o.seq, s.isn)
  /\ o.seg.syn <=> o.seq = 0
  /\ o.seg.fin => SegEnd(o) = s.nextSeqno /\ s.fin
  /\ \A i \in 1..Len(o.seg.payload) :
       o.seg.payload[i] = o.seq + BoolToNat(o.seg.syn) + i - 1

\* SequenceMatchesStream made inductive: before the SYN nothing was read, and what is
\* still buffered has the numbers that come next.
Aligned(s) ==
  /\ s.nextSeqno = BoolToNat(s.syn) + s.stream.read + BoolToNat(s.fin)
  /\ s.fin => s.syn /\ Eof(s.stream)
  /\ s.syn \/ s.stream.read = 0
  /\ Numbered(s.stream)
  /\ \A o \in Entries(s) : EntryMatches(s, o)

\* The bytes left after a pop are numbered from where the pop ended.
LEMMA PopNumbered ==
  ASSUME NEW b \in ByteStreamState, Numbered(b), NEW n \in Nat, n <= BufferSize(b)
  PROVE  Numbered(PopOutput(b, n))
<1> DEFINE d == SubSeq(b.data, n + 1, Len(b.data))
           c == PopOutput(b, n)
<1>1. b.data \in Seq(Byte) /\ Len(b.data) = BufferSize(b) /\ b.read \in Nat /\ Len(b.data) \in Nat
  BY DEF ByteStreamState, BufferSize
<1>2. Lesser(n, BufferSize(b)) = n
  BY <1>1 DEF Lesser
<1>3. c.data = d /\ c.read = b.read + n
  BY <1>2, Zenon DEF PopOutput, ByteStreamState
<1>4. Len(d) = Len(b.data) - n /\ \A i \in 1..Len(d) : d[i] = b.data[n + i]
  BY <1>1
<1> HIDE DEF d, c
<1>5. \A i \in 1..Len(d) : d[i] = (b.read + n) + i
  <2> TAKE i \in 1..Len(d)
  <2>1. n + i \in 1..Len(b.data)
    BY <1>1, <1>4
  <2>2. b.data[n + i] = b.read + (n + i)
    BY <2>1 DEF Numbered
  <2> QED BY <1>1, <1>4, <2>2
<1> QED BY <1>3, <1>5 DEF Numbered, c

\* An entry appended to the queue is the only new one.
LEMMA AppendEntries ==
  ASSUME NEW s \in SenderState, NEW t \in SenderState, NEW new \in Outstanding,
         t.outstanding = Append(s.outstanding, new)
  PROVE  Entries(t) = Entries(s) \cup {new}
<1>1. s.outstanding \in Seq(Outstanding) /\ Len(s.outstanding) \in Nat
  BY DEF SenderState, Outstanding
<1> DEFINE out == s.outstanding
           app == t.outstanding
<1>2. /\ Len(app) = Len(out) + 1 /\ app[Len(out) + 1] = new
      /\ \A k \in 1..Len(out) : app[k] = out[k]
  BY <1>1
<1> HIDE DEF out, app
<1>3. \A k \in 1..Len(app) : k \in 1..Len(out) \/ k = Len(out) + 1
  BY <1>1, <1>2 DEF out
<1>4. \A k \in 1..Len(out) : k \in 1..Len(app)
  BY <1>1, <1>2 DEF out
<1>5. Len(out) + 1 \in 1..Len(app)
  BY <1>1, <1>2 DEF out
<1>6. Entries(t) = {app[k] : k \in 1..Len(app)} /\ Entries(s) = {out[k] : k \in 1..Len(out)}
  BY DEF Entries, out, app
<1> QED BY <1>2, <1>3, <1>4, <1>5, <1>6, Zenon

\* A segment that fill_window sends carries the bytes of its place in the stream; once the
\* FIN is sent no segment follows.
LEMMA SendAligned ==
  ASSUME NEW w \in Nat, NEW s \in Good, NEW t \in Good, s.inFlight < w, Aligned(s),
         NEW seg, seg = NextSegment(s, w), LengthInSequenceSpace(seg) > 0,
         SendSegmentEffect(s, seg, t)
  PROVE  Aligned(t)
<1> DEFINE n == Len(seg.payload)
           b == s.stream
           c == t.stream
           sy == BoolToNat(s.syn)
           one == BoolToNat(seg.syn)
           last == BoolToNat(seg.fin)
           new == [seq |-> s.nextSeqno, seg |-> seg]
<1>1. s \in SenderState /\ t \in SenderState /\ s.inFlight \in Nat
  BY FlightZero DEF Good
<1>a. b \in ByteStreamState /\ s.nextSeqno \in Nat /\ s.syn \in BOOLEAN /\ s.fin \in BOOLEAN
  BY <1>1 DEF SenderState
<1>2. /\ b \in ByteStreamState /\ b.read \in Nat /\ s.nextSeqno \in Nat /\ BufferSize(b) \in Nat
      /\ Len(b.data) = BufferSize(b) /\ b.data \in Seq(Byte)
  BY <1>a DEF ByteStreamState, BufferSize
<1>3. /\ seg \in Segment /\ seg.seqno = Wrap(s.nextSeqno, s.isn) /\ seg.syn = ~s.syn
      /\ n \in Nat /\ n <= BufferSize(b)
      /\ seg.payload = SubSeq(b.data, 1, n)
      /\ seg.fin => ~s.fin /\ Eof(PopOutput(b, n))
  BY <1>1, NextSegmentFields
<1>4. LengthInSequenceSpace(seg) = n + one + last
  BY DEF LengthInSequenceSpace
<1>5. /\ one \in {0, 1} /\ last \in {0, 1} /\ sy \in {0, 1} /\ one + sy = 1
      /\ (seg.fin <=> last = 1) /\ (s.syn <=> sy = 1) /\ (seg.syn <=> one = 1)
  BY <1>a, <1>3 DEF BoolToNat, Segment
<1>c. one \in {0, 1} /\ last \in {0, 1} /\ sy \in {0, 1} /\ one + sy = 1
  BY <1>5
<1>d. n \in Nat /\ n <= BufferSize(b) /\ seg.payload = SubSeq(b.data, 1, n)
  BY <1>3
<1>6. /\ t.syn = TRUE /\ t.fin = (s.fin \/ seg.fin) /\ c = PopOutput(b, n)
      /\ t.nextSeqno = s.nextSeqno + LengthInSequenceSpace(seg) /\ t.isn = s.isn
      /\ t.outstanding = Append(s.outstanding, new)
  BY DEF SendSegmentEffect
<1>7. /\ s.nextSeqno = sy + b.read + BoolToNat(s.fin) /\ (s.fin => s.syn /\ Eof(b))
      /\ s.syn \/ b.read = 0
      /\ Numbered(b) /\ \A o \in Entries(s) : EntryMatches(s, o)
  BY DEF Aligned
<1> HIDE DEF one, sy, last, n
<1>e. c = PopOutput(b, n) /\ t.nextSeqno = s.nextSeqno + LengthInSequenceSpace(seg)
  BY <1>6
<1>8. ~s.fin
  <2> SUFFICES ASSUME s.fin PROVE FALSE
    OBVIOUS
  <2>1. BufferSize(b) = 0 /\ s.syn /\ ~seg.fin
    BY <1>3, <1>7 DEF Eof
  <2>2. n = 0 /\ one = 0 /\ last = 0
    BY <1>3, <1>5, <2>1
  <2> QED BY <1>4, <2>2
<1>9. s.nextSeqno = sy + b.read
  BY <1>2, <1>c, <1>7, <1>8 DEF BoolToNat
<1>10. c.read = b.read + n
  <2>1. Lesser(n, BufferSize(b)) = n
    BY <1>2, <1>d DEF Lesser
  <2> QED BY <1>2, <1>d, <1>e, <2>1, PopOutputType, Zenon
<1>11. t.fin = seg.fin /\ BoolToNat(t.fin) = last /\ BoolToNat(t.syn) = 1
  BY <1>3, <1>6, <1>8 DEF BoolToNat, last, Segment
<1> DEFINE rd == b.read
           nx == s.nextSeqno
<1>f. rd \in Nat /\ nx \in Nat /\ nx = sy + rd
  BY <1>2, <1>9
<1>g. c.read = rd + n /\ t.nextSeqno = nx + (n + one + last)
  BY <1>4, <1>e, <1>10
<1> HIDE DEF rd, nx
<1>12. t.nextSeqno = 1 + c.read + last
  BY <1>c, <1>d, <1>f, <1>g
<1>13. t.fin => Eof(c)
  BY <1>3, <1>6, <1>11
<1>14. Numbered(c)
  BY <1>2, <1>3, <1>6, <1>7, PopNumbered
<1>15. new \in Outstanding /\ new.seq = s.nextSeqno /\ new.seg = seg
  BY <1>2, <1>3 DEF Outstanding
<1>16. Entries(t) = Entries(s) \cup {new}
  BY <1>1, <1>6, <1>15, AppendEntries
<1> HIDE DEF new, b, c
<1>17. EntryMatches(t, new)
  <2>1. new.seg.seqno = Wrap(new.seq, t.isn)
    BY <1>3, <1>6, <1>15
  <2>2. new.seg.syn <=> new.seq = 0
    <3>1. CASE s.syn
      BY <1>2, <1>3, <1>5, <1>9, <1>15, <3>1
    <3>2. CASE ~s.syn
      <4>1. sy = 0 /\ b.read = 0
        BY <1>5, <1>7, <3>2
      <4>2. s.nextSeqno = 0
        BY <1>9, <4>1
      <4> QED BY <1>3, <1>15, <3>2, <4>2, Zenon
    <3> QED BY <3>1, <3>2
  <2>3. new.seg.fin => SegEnd(new) = t.nextSeqno /\ t.fin
    BY <1>6, <1>11, <1>15, Zenon DEF SegEnd
  <2>4. \A i \in 1..n : seg.payload[i] = s.nextSeqno + one + i - 1
    <3> TAKE i \in 1..n
    <3>1. seg.payload[i] = b.data[i] /\ i \in 1..Len(b.data)
      BY <1>2, <1>d
    <3>2. b.data[i] = b.read + i
      BY <1>7, <3>1 DEF Numbered
    <3>3. rd + i = nx + one + i - 1
      BY <1>c, <1>d, <1>f
    <3> QED BY <3>1, <3>2, <3>3 DEF rd, nx
  <2> QED BY <1>15, <2>1, <2>2, <2>3, <2>4 DEF EntryMatches, n, one
<1>18. \A o \in Entries(s) : EntryMatches(t, o)
  BY <1>6, <1>7, <1>8 DEF EntryMatches
<1>19. t.nextSeqno = BoolToNat(t.syn) + c.read + BoolToNat(t.fin)
  BY <1>11, <1>12
<1> QED BY <1>6, <1>13, <1>14, <1>16, <1>17, <1>18, <1>19 DEF Aligned, c

\* What t has queued for transmission was queued in s already or is in the outstanding
\* queue with a number that s had not used.
Emitted(s, t) ==
  \A i \in 1..Len(t.segmentsOut) :
    \/ i \in 1..Len(s.segmentsOut) /\ t.segmentsOut[i] = s.segmentsOut[i]
    \/ \E o \in Entries(t) : o.seg = t.segmentsOut[i] /\ o.seq >= s.nextSeqno

\* The states of the loop of fill_window started in s, as far as what it sends goes.
Sent(s) ==
  {t \in Good : /\ t.isn = s.isn /\ t.nextSeqno >= s.nextSeqno
                /\ Aligned(s) => Aligned(t)
                /\ Emitted(s, t)}

\* A round of fill_window stays within Sent.
LEMMA FillRoundSent ==
  ASSUME NEW w \in Nat, NEW s \in Good, NEW t \in Sent(s)
  PROVE  FillRound(w)[t] \in Sent(s)
<1> DEFINE u == FillRound(w)[t]
           seg == NextSegment(t, w)
           len == LengthInSequenceSpace(seg)
           new == [seq |-> t.nextSeqno, seg |-> seg]
<1>1. t \in Good /\ t \in SenderState /\ s \in SenderState /\ t.inFlight \in Nat
  BY FlightZero DEF Sent, Good
<1>2. /\ u \in Good
      /\ u = t \/ (t.inFlight < w /\ len > 0 /\ SendSegmentEffect(t, seg, u))
  BY <1>1, FillRoundEffect
<1>3. u \in SenderState
  BY <1>2 DEF Good
<1> HIDE DEF u
<1>4. CASE t.inFlight < w /\ len > 0 /\ SendSegmentEffect(t, seg, u)
  <2>1. seg \in Segment
    BY <1>1, <1>4, NextSegmentFields
  <2>2. len \in Nat
    BY <2>1, SegmentLengthType
  <2>3. Aligned(t) => Aligned(u)
    BY <1>1, <1>2, <1>4, SendAligned
  <2>4. /\ u.isn = t.isn /\ u.nextSeqno = t.nextSeqno + len
        /\ u.outstanding = Append(t.outstanding, new)
        /\ u.segmentsOut = Append(t.segmentsOut, seg)
    BY <1>4 DEF SendSegmentEffect
  <2> HIDE DEF seg, len
  <2>5. t.nextSeqno \in Nat /\ s.nextSeqno \in Nat /\ t.segmentsOut \in Seq(Segment)
    BY <1>1 DEF SenderState
  <2>6. t.nextSeqno >= s.nextSeqno
    BY DEF Sent
  <2>7. u.nextSeqno >= s.nextSeqno
    BY <2>2, <2>4, <2>5, <2>6
  <2>8. new \in Outstanding /\ new.seq = t.nextSeqno /\ new.seg = seg
    BY <2>1, <2>5 DEF Outstanding
  <2> HIDE DEF new
  <2>9. Entries(u) = Entries(t) \cup {new}
    BY <1>1, <1>3, <2>4, <2>8, AppendEntries
  <2>10. Emitted(s, u)
    <3> SUFFICES ASSUME NEW i \in 1..Len(u.segmentsOut)
                 PROVE  \/ i \in 1..Len(s.segmentsOut) /\ u.segmentsOut[i] = s.segmentsOut[i]
                        \/ \E o \in Entries(u) : o.seg = u.segmentsOut[i] /\ o.seq >= s.nextSeqno
      BY DEF Emitted
    <3>1. \/ i \in 1..Len(t.segmentsOut) /\ u.segmentsOut[i] = t.segmentsOut[i]
          \/ u.segmentsOut[i] = seg
      BY <2>1, <2>4, <2>5
    <3>2. CASE i \in 1..Len(t.segmentsOut) /\ u.segmentsOut[i] = t.segmentsOut[i]
      <4>1. \/ i \in 1..Len(s.segmentsOut) /\ t.segmentsOut[i] = s.segmentsOut[i]
            \/ \E o \in Entries(t) : o.seg = t.segmentsOut[i] /\ o.seq >= s.nextSeqno
        BY <3>2 DEF Sent, Emitted
      <4> QED BY <2>9, <3>2, <4>1, Zenon
    <3>3. CASE u.segmentsOut[i] = seg
      BY <2>6, <2>8, <2>9, <3>3
    <3> QED BY <3>1, <3>2, <3>3
  <2>11. u.isn = s.isn /\ (Aligned(s) => Aligned(u))
    BY <2>3, <2>4 DEF Sent
  <2> QED BY <1>2, <2>7, <2>10, <2>11 DEF Sent, u
<1> QED BY <1>2, <1>4 DEF u

\* fill_window keeps sequence numbers and stream bytes together, and queues only segments
\* with new numbers.
LEMMA FillWindowSent ==
  ASSUME NEW s \in Good
  PROVE  FillWindow(s) \in Sent(s)
<1> DEFINE w == EffectiveWindow(s)
           F == FillRound(w)
           n == Larger(w - s.inFlight, 0)
           I == Sent(s)
<1>1. s \in SenderState /\ s.inFlight \in Nat /\ s.nextSeqno \in Nat
  BY FlightZero, Zenon DEF Good, SenderState
<1>2. w \in Nat
  BY <1>1, EffectiveWindowType
<1>3. FillWindow(s) = Orbit(F, s)[n]
  BY DEF FillWindow
<1> HIDE DEF w
<1>4. n \in Nat
  BY <1>1, <1>2 DEF Larger
<1>5. s \in I
  BY <1>1 DEF Sent, Emitted
<1>6. \A t \in I : F[t] \in I
  BY <1>2, FillRoundSent
<1> HIDE DEF F, I, n
<1>7. Orbit(F, s)[n] \in I
  BY <1>4, <1>5, <1>6, OrbitWithin
<1> QED BY <1>3, <1>7 DEF I

-----------------------------------------------------------------------------
(* ack_received up to its fill_window *)

\* The states of the loop over acknowledged segments, started in s: something was dropped
\* and the count went down, or nothing changed; nothing enters the queue.
Shrunk(s) ==
  {t \in SenderState : /\ Flight(t)
                       /\ t = s \/ t.inFlight < s.inFlight
                       /\ Entries(t) \subseteq Entries(s)}

\* Dropping the oldest segment lowers the count, as no segment in the queue is empty.
LEMMA TailShrinks ==
  ASSUME NEW s \in SenderState, Flight(s), s.outstanding # <<>>,
         NEW t, t = [s EXCEPT !.outstanding = Tail(s.outstanding),
                              !.inFlight = s.inFlight - LengthInSequenceSpace(Head(s.outstanding).seg)]
  PROVE  t \in Shrunk(s)
<1> DEFINE out == s.outstanding
           tl == Tail(out)
           len == LengthInSequenceSpace(out[1].seg)
<1>1. t \in SenderState /\ Flight(t)
  BY TailFlight, Zenon DEF Popping
<1>2. out \in Seq(Outstanding) /\ out # <<>> /\ s.inFlight \in Int
  BY DEF SenderState, Outstanding
<1>3. t.outstanding = tl /\ t.inFlight = s.inFlight - LengthInSequenceSpace(Head(out).seg)
  BY DEF SenderState
<1> HIDE DEF out, tl
<1>4. /\ Head(out) = out[1] /\ Len(out) \in Nat /\ 1 \in 1..Len(out)
      /\ Len(tl) = Len(out) - 1 /\ \A i \in 1..Len(tl) : tl[i] = out[i + 1]
  BY <1>2 DEF tl
<1>5. out[1] \in Outstanding
  BY <1>2, <1>4
<1>6. out[1].seq \in Nat /\ out[1].seg \in Segment
  BY <1>5 DEF Outstanding
<1>7. len \in Nat
  BY <1>6, SegmentLengthType
<1>8. out[1].seq < out[1].seq + len
  BY <1>4 DEF Flight, Contiguous, SegEnd, out
<1>9. t.inFlight = s.inFlight - len
  BY <1>3, <1>4
<1> HIDE DEF len
<1>10. t.inFlight < s.inFlight
  BY <1>2, <1>6, <1>7, <1>8, <1>9
<1>11. \A i \in 1..Len(tl) : i + 1 \in 1..Len(out)
  BY <1>4
<1>12. Entries(t) = {tl[k] : k \in 1..Len(tl)} /\ Entries(s) = {out[k] : k \in 1..Len(out)}
  BY <1>3 DEF Entries, out
<1>13. Entries(t) \subseteq Entries(s)
  BY <1>4, <1>11, <1>12
<1> QED BY <1>1, <1>10, <1>13, Zenon DEF Shrunk

\* The loop of ack_received either drops nothing or takes bytes out of flight.
LEMMA PopAckedShrinks ==
  ASSUME NEW s \in SenderState, Flight(s), NEW a \in Nat
  PROVE  PopAcked(s, a) \in Shrunk(s)
<1> DEFINE F == AckRound(a)
           I == Shrunk(s)
           drop(t) == [t EXCEPT !.outstanding = Tail(t.outstanding),
                                !.inFlight = t.inFlight - LengthInSequenceSpace(Head(t.outstanding).seg)]
           drops(t) == /\ t.outstanding # <<>>
                       /\ Head(t.outstanding).seq + LengthInSequenceSpace(Head(t.outstanding).seg) - 1 < a
<1>0. F = [t \in SenderState |-> IF drops(t) THEN drop(t) ELSE t]
  BY DEF AckRound
<1>1. \A t \in I : F[t] \in I
  <2> SUFFICES ASSUME NEW t \in I PROVE F[t] \in I
    BY Zenon
  <2>1. t \in SenderState /\ Flight(t)
    BY DEF Shrunk
  <2>2. F[t] = t \/ (t.outstanding # <<>> /\ F[t] = drop(t))
    <3>1. F[t] = IF drops(t) THEN drop(t) ELSE t
      <4> HIDE DEF drop, drops
      <4> QED BY <1>0, <2>1
    <3> QED BY <3>1, Zenon
  <2>3. CASE t.outstanding # <<>> /\ F[t] = drop(t)
    <3>1. drop(t) \in Shrunk(t)
      BY <2>1, <2>3, TailShrinks, Zenon
    <3> DEFINE u == F[t]
    <3>2. u \in Shrunk(t)
      BY <2>3, <3>1
    <3> HIDE DEF u, drop
    <3>3. s.inFlight \in Int /\ t.inFlight \in Int
      BY <2>1 DEF SenderState
    <3>4. u \in SenderState /\ u.inFlight \in Int
      BY <3>2 DEF Shrunk, SenderState
    <3>5. u = t \/ u.inFlight < t.inFlight
      BY <3>2 DEF Shrunk
    <3>6. t = s \/ t.inFlight < s.inFlight
      BY DEF Shrunk
    <3>7. u = s \/ u.inFlight < s.inFlight
      BY <3>3, <3>4, <3>5, <3>6
    <3>8. u \in Shrunk(s)
      BY <3>2, <3>7 DEF Shrunk
    <3> QED BY <3>8 DEF u
  <2> QED BY <2>2, <2>3
<1>2. s \in I
  BY DEF Shrunk
<1>3. Len(s.outstanding) \in Nat
  BY DEF SenderState
<1>4. PopAcked(s, a) = Orbit(F, s)[Len(s.outstanding)]
  BY DEF PopAcked
<1> HIDE DEF F, I
<1>5. Orbit(F, s)[Len(s.outstanding)] \in I
  BY <1>1, <1>2, <1>3, OrbitWithin
<1> QED BY <1>4, <1>5 DEF I

\* Congestion control queues nothing but a copy of the oldest segment, and that only on
\* an acknowledgment that acknowledged nothing.
LEMMA AckCongestionQueues ==
  ASSUME NEW s \in SenderState, NEW a \in Nat, NEW n \in Nat
  PROVE  LET t == AckCongestion(s, a, n)
         IN  \/ t.segmentsOut = s.segmentsOut
             \/ /\ n = 0 /\ s.outstanding # <<>>
                /\ t.segmentsOut = Append(s.segmentsOut, Head(s.outstanding).seg)
<1> DEFINE t == IF n > 0 THEN OnNewAck(s, n) ELSE IF a = s.lastAckno THEN OnDupAck(s) ELSE s
           u == AckCongestion(s, a, n)
           segs == Append(s.segmentsOut, Head(s.outstanding).seg)
<1>1. u = [t EXCEPT !.lastAckno = a] \/ u = s
  BY Zenon DEF AckCongestion
<1>2. OnNewAck(s, n).segmentsOut = s.segmentsOut
  BY Zenon DEF OnNewAck, SenderState
<1>3. \/ OnDupAck(s).segmentsOut = s.segmentsOut
      \/ s.outstanding # <<>> /\ OnDupAck(s).segmentsOut = segs
  <2> DEFINE d == [s EXCEPT !.dupAcks = s.dupAcks + 1]
             h == HalvedThreshold(s)
             enter == [d EXCEPT !.ssthresh = h, !.cwnd = h + 3 * MaxPayloadSize, !.recovery = TRUE,
                                !.segmentsOut = Append(d.segmentsOut, Head(s.outstanding).seg)]
             inflate == [d EXCEPT !.cwnd = d.cwnd + MaxPayloadSize]
  <2>1. \/ OnDupAck(s) \in {s, d, inflate}
        \/ s.outstanding # <<>> /\ OnDupAck(s) = enter
    BY Zenon DEF OnDupAck
  <2>2. d.segmentsOut = s.segmentsOut
    BY Zenon DEF SenderState
  <2>3. inflate.segmentsOut = s.segmentsOut
    BY Zenon DEF SenderState
  <2>4. enter.segmentsOut = segs
    BY Zenon DEF SenderState
  <2> HIDE DEF d, enter, inflate, segs
  <2> QED BY <2>1, <2>2, <2>3, <2>4
<1>4. \/ t.segmentsOut = s.segmentsOut
      \/ n = 0 /\ s.outstanding # <<>> /\ t.segmentsOut = segs
  <2> HIDE DEF segs
  <2> QED BY <1>2, <1>3
<1>5. [t EXCEPT !.lastAckno = a].segmentsOut = t.segmentsOut
  OBVIOUS
<1> HIDE DEF t, u
<1> QED BY <1>1, <1>4, <1>5, Zenon DEF u

\* The timer part of ack_received changes only the timer and the count of retransmissions.
LEMMA AckTimerFrame ==
  ASSUME NEW s \in SenderState, NEW n \in Nat
  PROVE  LET t == AckTimer(s, n)
         IN  /\ t.isn = s.isn /\ t.stream = s.stream /\ t.segmentsOut = s.segmentsOut
             /\ t.nextSeqno = s.nextSeqno /\ t.outstanding = s.outstanding
             /\ t.syn = s.syn /\ t.fin = s.fin
<1> DEFINE again == Restart([s.timer EXCEPT !.timeOut = RetxTimeout])
           v == IF n > 0 THEN [s EXCEPT !.retx = 0, !.timer = again] ELSE s
           t == AckTimer(s, n)
<1>0. again \in Timer /\ 0 \in Nat
  <2> DEFINE reset == [s.timer EXCEPT !.timeOut = RetxTimeout]
  <2>1. s.timer \in Timer /\ RetxTimeout \in Nat
    BY SenderAssumption DEF SenderState
  <2>2. reset \in Timer
    BY <2>1, Zenon DEF Timer
  <2> HIDE DEF reset
  <2>3. Restart(reset) \in Timer
    BY <2>2, RestartType, Zenon
  <2> QED BY <2>3 DEF reset
<1>1. t = [v EXCEPT !.timer = Stop(v.timer)] \/ t = v
  BY Zenon DEF AckTimer
<1>2. v = [s EXCEPT !.retx = 0, !.timer = again] \/ v = s
  BY Zenon
<1> HIDE DEF again, v, t
<1>3. /\ v \in SenderState /\ v.isn = s.isn /\ v.stream = s.stream /\ v.segmentsOut = s.segmentsOut
      /\ v.nextSeqno = s.nextSeqno /\ v.outstanding = s.outstanding
      /\ v.syn = s.syn /\ v.fin = s.fin
  <2>1. CASE v = s
    BY <2>1
  <2>2. CASE v = [s EXCEPT !.retx = 0, !.timer = again]
    BY <1>0, <2>2, Zenon DEF SenderState
  <2> QED BY <1>2, <2>1, <2>2
<1>4. /\ t.isn = v.isn /\ t.stream = v.stream /\ t.segmentsOut = v.segmentsOut
      /\ t.nextSeqno = v.nextSeqno /\ t.outstanding = v.outstanding
      /\ t.syn = v.syn /\ t.fin = v.fin
  BY <1>1, <1>3 DEF SenderState
<1> QED BY <1>3, <1>4 DEF t

\* What e has queued for transmission is nothing or a copy of the oldest segment of s.
Queued(s, e) ==
  \/ e.segmentsOut = <<>>
  \/ s.outstanding # <<>> /\ e.segmentsOut = <<Head(s.outstanding).seg>>

\* Dropping entries and leaving numbers and stream alone keeps them together.
LEMMA AlignedFrame ==
  ASSUME NEW s, NEW t, Aligned(s), Entries(t) \subseteq Entries(s),
         t.isn = s.isn, t.stream = s.stream, t.nextSeqno = s.nextSeqno,
         t.syn = s.syn, t.fin = s.fin
  PROVE  Aligned(t)
<1>1. \A o \in Entries(t) : EntryMatches(t, o)
  BY DEF Aligned, EntryMatches
<1> QED BY <1>1 DEF Aligned

\* ack_received sends nothing before its fill_window but a copy of the oldest segment, and
\* only shortens the outstanding queue.
LEMMA AcknowledgedFrame ==
  ASSUME NEW s \in Good, s.segmentsOut = <<>>, NEW a \in Nat, NEW win \in Nat
  PROVE  LET e == Acknowledged(s, a, win)
         IN  /\ e.isn = s.isn /\ e.nextSeqno = s.nextSeqno
             /\ Queued(s, e)
             /\ Aligned(s) => Aligned(e)
<1> DEFINE p == PopAcked(s, a)
           n == s.inFlight - p.inFlight
           c == AckCongestion(p, a, n)
           d == AckTimer(c, n)
           e == [d EXCEPT !.window = win]
<1>1. s \in SenderState /\ Flight(s) /\ RenoOK(s)
  BY DEF Good
<1>2. Acknowledged(s, a, win) = e
  BY DEF Acknowledged
<1>3. p \in Popping(s) /\ p \in Shrunk(s)
  BY <1>1, PopAckedFlight, PopAckedShrinks
<1> HIDE DEF p
<1>4. p \in SenderState /\ AckFrame(s, p) /\ Entries(p) \subseteq Entries(s)
  BY <1>3 DEF Popping, Shrunk
<1>5. n \in Nat /\ (n = 0 => p = s)
  <2>1. s.inFlight \in Int /\ p.inFlight \in Int /\ p.inFlight <= s.inFlight
    BY <1>1, <1>4 DEF SenderState, AckFrame
  <2>2. p = s \/ p.inFlight < s.inFlight
    BY <1>3 DEF Shrunk
  <2> QED BY <2>1, <2>2
<1> HIDE DEF n
<1>6. RenoOK(p)
  BY <1>1, <1>4 DEF AckFrame, RenoOK
<1>7. c \in SenderState /\ CongestionFrame(p, c)
  BY <1>4, <1>5, <1>6, AckCongestionControlled DEF Controlled
<1>8. \/ c.segmentsOut = p.segmentsOut
      \/ /\ n = 0 /\ p.outstanding # <<>>
         /\ c.segmentsOut = Append(p.segmentsOut, Head(p.outstanding).seg)
  BY <1>4, <1>5, AckCongestionQueues
<1> HIDE DEF c
<1>9. /\ d.isn = c.isn /\ d.stream = c.stream /\ d.segmentsOut = c.segmentsOut
      /\ d.nextSeqno = c.nextSeqno /\ d.outstanding = c.outstanding
      /\ d.syn = c.syn /\ d.fin = c.fin
  BY <1>5, <1>7, AckTimerFrame
<1> HIDE DEF d
<1>10. /\ e.isn = d.isn /\ e.stream = d.stream /\ e.segmentsOut = d.segmentsOut
       /\ e.nextSeqno = d.nextSeqno /\ e.outstanding = d.outstanding
       /\ e.syn = d.syn /\ e.fin = d.fin
  OBVIOUS
<1> HIDE DEF e
<1>11. /\ e.isn = s.isn /\ e.stream = s.stream /\ e.nextSeqno = s.nextSeqno
       /\ e.syn = s.syn /\ e.fin = s.fin /\ e.outstanding = p.outstanding
       /\ p.segmentsOut = <<>> /\ e.segmentsOut = c.segmentsOut
  BY <1>4, <1>7, <1>9, <1>10 DEF AckFrame, CongestionFrame
<1>12. Queued(s, e)
  <2>1. CASE c.segmentsOut = p.segmentsOut
    BY <1>11, <2>1 DEF Queued
  <2>2. CASE /\ n = 0 /\ p.outstanding # <<>>
             /\ c.segmentsOut = Append(p.segmentsOut, Head(p.outstanding).seg)
    <3>1. s.outstanding # <<>> /\ e.segmentsOut = Append(<<>>, Head(s.outstanding).seg)
      BY <1>5, <1>11, <2>2
    <3> QED BY <3>1 DEF Queued
  <2> QED BY <1>8, <2>1, <2>2
<1>13. Entries(e) \subseteq Entries(s)
  BY <1>4, <1>11, Zenon DEF Entries
<1>14. Aligned(s) => Aligned(e)
  BY <1>11, <1>13, AlignedFrame
<1> QED BY <1>2, <1>11, <1>12, <1>14

-----------------------------------------------------------------------------
(* tick *)

\* A call that sends nothing new: numbers, queue and stream stay, the window does not grow,
\* and what is queued for transmission is a copy of the oldest segment or empty.
Idles(s, t) ==
  /\ t.isn = s.isn /\ t.nextSeqno = s.nextSeqno /\ t.outstanding = s.outstanding
  /\ t.inFlight = s.inFlight /\ t.stream = s.stream /\ t.syn = s.syn /\ t.fin = s.fin
  /\ EffectiveWindow(t) <= EffectiveWindow(s)
  /\ Queued(s, t) \/ t.segmentsOut = <<EmptySegment(Wrap(s.nextSeqno, s.isn))>>

\* A window that is the same and a cwnd that is not larger make an effective window that is
\* not larger.
LEMMA WindowShrinks ==
  ASSUME NEW s \in SenderState, NEW t \in SenderState, t.window = s.window, t.cwnd <= s.cwnd
  PROVE  EffectiveWindow(t) <= EffectiveWindow(s)
<1> DEFINE adv == Larger(s.window, 1)
<1>1. adv \in Nat /\ s.cwnd \in Nat /\ t.cwnd \in Nat
  BY DEF SenderState, Larger
<1>2. /\ EffectiveWindow(s) = IF CongestionControl THEN Lesser(adv, s.cwnd) ELSE adv
      /\ EffectiveWindow(t) = IF CongestionControl THEN Lesser(adv, t.cwnd) ELSE adv
  BY DEF EffectiveWindow
<1> HIDE DEF adv
<1>3. CASE CongestionControl
  BY <1>1, <1>2, <1>3 DEF Lesser
<1>4. CASE ~CongestionControl
  BY <1>1, <1>2, <1>4
<1> QED BY <1>3, <1>4

\* A retransmission queues a copy of the oldest segment and changes nothing that is sent
\* later except through a smaller congestion window.
LEMMA RetransmitIdles ==
  ASSUME NEW s \in Good, s.outstanding # <<>>, s.segmentsOut = <<>>
  PROVE  Idles(s, RetransmitOldest(s))
<1> DEFINE t == IF CongestionControl THEN OnCongestionTimeout(s) ELSE s
           tm == [t.timer EXCEPT !.timeOut = t.timer.timeOut * 2]
           v == [t EXCEPT !.retx = t.retx + 1, !.timer = tm]
           b == IF s.window > 0 THEN v ELSE t
           segs == Append(b.segmentsOut, Head(s.outstanding).seg)
           u == RetransmitOldest(s)
<1>1. s \in SenderState /\ RenoOK(s) /\ s.cwnd \in Nat /\ MaxPayloadSize \in Nat
  BY SenderAssumption DEF Good, SenderState
<1>2. u \in SenderState
  BY RetransmitOldestGood DEF Good
<1>3. u = [b EXCEPT !.segmentsOut = segs, !.timer = Restart(b.timer)]
  BY Zenon DEF RetransmitOldest
<1>4. CongestionFrame(s, t) /\ t \in SenderState
  <2>1. CongestionFrame(s, s)
    BY DEF CongestionFrame
  <2> QED BY <1>1, <2>1, OnCongestionTimeoutControlled DEF Controlled
<1>5. t.segmentsOut = <<>> /\ t.cwnd <= s.cwnd
  <2>1. CASE CongestionControl
    <3>1. t = OnCongestionTimeout(s)
      BY <2>1
    <3>2. t.segmentsOut = <<>> /\ t.cwnd = MaxPayloadSize
      BY <1>1, <3>1, Zenon DEF OnCongestionTimeout, SenderState
    <3> QED BY <1>1, <3>2 DEF RenoOK
  <2>2. CASE ~CongestionControl
    BY <1>1, <2>2
  <2> QED BY <2>1, <2>2
<1> HIDE DEF t
<1>6. /\ v.isn = t.isn /\ v.stream = t.stream /\ v.segmentsOut = t.segmentsOut
      /\ v.nextSeqno = t.nextSeqno /\ v.outstanding = t.outstanding /\ v.inFlight = t.inFlight
      /\ v.syn = t.syn /\ v.fin = t.fin /\ v.window = t.window /\ v.cwnd = t.cwnd
  BY <1>4, Zenon DEF SenderState
<1> HIDE DEF v
<1>7. /\ b.isn = t.isn /\ b.stream = t.stream /\ b.segmentsOut = t.segmentsOut
      /\ b.nextSeqno = t.nextSeqno /\ b.outstanding = t.outstanding /\ b.inFlight = t.inFlight
      /\ b.syn = t.syn /\ b.fin = t.fin /\ b.window = t.window /\ b.cwnd = t.cwnd
  BY <1>6
<1>8. segs = <<Head(s.outstanding).seg>>
  <2>1. segs = Append(<<>>, Head(s.outstanding).seg)
    BY <1>5, <1>7, Zenon
  <2> QED BY <2>1
<1> HIDE DEF b, segs, u
<1>9. "segmentsOut" \in DOMAIN u
  BY <1>2 DEF SenderState
<1>10. /\ u.isn = b.isn /\ u.stream = b.stream /\ u.segmentsOut = segs
       /\ u.nextSeqno = b.nextSeqno /\ u.outstanding = b.outstanding /\ u.inFlight = b.inFlight
       /\ u.syn = b.syn /\ u.fin = b.fin /\ u.window = b.window /\ u.cwnd = b.cwnd
  BY <1>3, <1>9
<1>11. u.window = s.window /\ u.cwnd <= s.cwnd
  BY <1>4, <1>5, <1>7, <1>10 DEF CongestionFrame
<1>12. EffectiveWindow(u) <= EffectiveWindow(s)
  BY <1>1, <1>2, <1>11, WindowShrinks
<1>13. Queued(s, u)
  BY <1>8, <1>10 DEF Queued
<1>14. /\ u.isn = s.isn /\ u.nextSeqno = s.nextSeqno /\ u.outstanding = s.outstanding
       /\ u.inFlight = s.inFlight /\ u.stream = s.stream /\ u.syn = s.syn /\ u.fin = s.fin
  BY <1>4, <1>7, <1>10 DEF CongestionFrame
<1> QED BY <1>12, <1>13, <1>14 DEF Idles, u

\* tick sends nothing new.
LEMMA SenderTickIdles ==
  ASSUME NEW s \in Good, s.segmentsOut = <<>>, NEW ms \in Nat
  PROVE  Idles(s, SenderTick(s, ms))
<1> DEFINE tm == TimerTick(s.timer, ms)
           t == [s EXCEPT !.timer = tm]
           u == SenderTick(s, ms)
<1>1. s \in SenderState /\ s.timer \in Timer /\ s.cwnd \in Nat
  BY DEF Good, SenderState
<1>2. tm \in Timer /\ tm.running = s.timer.running
  <2> DEFINE c == s.timer.count + ms
  <2>1. c \in Nat BY <1>1 DEF Timer
  <2>2. tm = IF s.timer.running THEN [s.timer EXCEPT !.count = c] ELSE s.timer
    BY DEF TimerTick
  <2> HIDE DEF c, tm
  <2>3. [s.timer EXCEPT !.count = c] \in Timer /\ [s.timer EXCEPT !.count = c].running = s.timer.running
    BY <1>1, <2>1, Zenon DEF Timer
  <2> QED BY <1>1, <2>2, <2>3, Zenon
<1>3. u = IF TimedOut(t.timer) /\ t.outstanding # <<>> THEN RetransmitOldest(t) ELSE t
  BY Zenon DEF SenderTick
<1> HIDE DEF tm
<1>4. /\ t \in SenderState /\ t.nextSeqno = s.nextSeqno /\ t.outstanding = s.outstanding
      /\ t.inFlight = s.inFlight /\ t.timer = tm /\ t.cwnd = s.cwnd
      /\ t.ssthresh = s.ssthresh /\ t.dupAcks = s.dupAcks /\ t.recovery = s.recovery
      /\ t.isn = s.isn /\ t.stream = s.stream /\ t.syn = s.syn /\ t.fin = s.fin
      /\ t.window = s.window /\ t.segmentsOut = <<>>
  BY <1>1, <1>2, Zenon DEF SenderState
<1> HIDE DEF t, u
<1>5. t \in Good
  BY <1>2, <1>4, GoodFrame
<1>6. EffectiveWindow(t) = EffectiveWindow(s) /\ EffectiveWindow(s) \in Nat
  BY <1>1, <1>4, EffectiveWindowType DEF EffectiveWindow
<1>7. Idles(s, t)
  BY <1>4, <1>6 DEF Idles, Queued
<1>8. ASSUME t.outstanding # <<>> PROVE Idles(s, RetransmitOldest(t))
  <2>1. Idles(t, RetransmitOldest(t))
    BY <1>4, <1>5, <1>8, RetransmitIdles
  <2> QED BY <1>4, <1>6, <2>1 DEF Idles, Queued
<1>9. Idles(s, u)
  BY <1>3, <1>7, <1>8
<1> QED BY <1>9 DEF u

-----------------------------------------------------------------------------
(* The calls *)

\* Bytes written to the stream get the numbers that come next.
LEMMA WriteNumbered ==
  ASSUME NEW b \in ByteStreamState, Numbered(b), NEW n \in Nat
  PROVE  LET c == StreamWrite(b, Bytes(b.written + 1, n))
         IN  Numbered(c) /\ c.read = b.read
<1> DEFINE data == Bytes(b.written + 1, n)
           m == Lesser(Len(data), RemainingCapacity(b))
           part == SubSeq(data, 1, m)
           d == b.data \o part
           c == StreamWrite(b, data)
<1>1. /\ b.data \in Seq(Byte) /\ Len(b.data) = b.written - b.read /\ b.read <= b.written
      /\ b.read \in Nat /\ b.written \in Nat /\ b.capacity \in Nat
      /\ b.written - b.read <= b.capacity
  BY DEF ByteStreamState
<1>2. c.data = d /\ c.read = b.read
  BY Zenon DEF StreamWrite, ByteStreamState
<1>3. /\ data \in Seq(Nat) /\ Len(data) = n
      /\ \A j \in 1..n : data[j] = b.written + j
  BY <1>1 DEF Bytes
<1>4. m \in Nat /\ m <= n
  BY <1>1, <1>3 DEF Lesser, RemainingCapacity, BufferSize
<1> HIDE DEF data, m
<1>5. part \in Seq(Nat) /\ Len(part) = m /\ \A j \in 1..m : part[j] = b.written + j
  BY <1>3, <1>4
<1> HIDE DEF part
<1>6. Byte = Nat
  BY DEF Byte
<1>7. /\ Len(d) = Len(b.data) + m
      /\ \A i \in 1..Len(b.data) : d[i] = b.data[i]
      /\ \A i \in 1..Len(d) : i > Len(b.data) => d[i] = part[i - Len(b.data)]
  <2>1. part \in Seq(Byte)
    BY <1>5, <1>6
  <2>2. b.data \in Seq(Byte) /\ Len(b.data) \in Nat
    BY <1>1
  <2>3. /\ Len(d) = Len(b.data) + Len(part)
        /\ \A i \in 1..(Len(b.data) + Len(part)) :
             d[i] = IF i <= Len(b.data) THEN b.data[i] ELSE part[i - Len(b.data)]
    BY <2>1, <2>2, ConcatProperties, Zenon
  <2> HIDE DEF d
  <2> QED BY <1>4, <1>5, <2>2, <2>3
<1> HIDE DEF d
<1>8. \A i \in 1..Len(d) : d[i] = b.read + i
  <2> TAKE i \in 1..Len(d)
  <2>1. CASE i <= Len(b.data)
    <3>1. i \in 1..Len(b.data)
      BY <1>1, <2>1
    <3> QED BY <1>7, <3>1 DEF Numbered
  <2>2. CASE i > Len(b.data)
    <3>1. i - Len(b.data) \in 1..m
      BY <1>1, <1>4, <1>7, <2>2
    <3>2. d[i] = b.written + (i - Len(b.data))
      BY <1>5, <1>7, <2>2, <3>1
    <3> QED BY <1>1, <3>2
  <2> QED BY <1>1, <2>1, <2>2
<1> QED BY <1>2, <1>8 DEF Numbered, data

\* A stream that has only grown or ended keeps numbers and stream together.
LEMMA AlignedStream ==
  ASSUME NEW s \in SenderState, Aligned(s), NEW b, b.read = s.stream.read, Numbered(b),
         s.fin => Eof(b)
  PROVE  Aligned([s EXCEPT !.stream = b])
<1> DEFINE t == [s EXCEPT !.stream = b]
<1>1. /\ t.stream = b /\ t.isn = s.isn /\ t.nextSeqno = s.nextSeqno /\ t.syn = s.syn /\ t.fin = s.fin
      /\ t.outstanding = s.outstanding
  BY Zenon DEF SenderState
<1> HIDE DEF t
<1>2. Entries(t) = Entries(s)
  BY <1>1 DEF Entries
<1>3. \A o \in Entries(t) : EntryMatches(t, o)
  BY <1>1, <1>2 DEF Aligned, EntryMatches
<1>4. Aligned(t)
  BY <1>1, <1>3 DEF Aligned
<1> QED BY <1>4 DEF t

\* A call that ends in fill_window, run from a state e with the numbers of s.
Fills(s, t) ==
  \E e \in Good : /\ t = FillWindow(e)
                  /\ e.nextSeqno = s.nextSeqno /\ e.isn = s.isn
                  /\ Queued(s, e)
                  /\ Aligned(s) => Aligned(e)

\* Every call fills the window or sends nothing new.
LEMMA CallEffect == snd \in Good /\ Next => Fills(snd, snd') \/ Idles(snd, snd')
<1> SUFFICES ASSUME snd \in Good, Next PROVE Fills(snd, snd') \/ Idles(snd, snd')
  OBVIOUS
<1> DEFINE s == Drained
<1>1. s \in Good
  <2>1. <<>> \in Seq(Segment) OBVIOUS
  <2> QED BY <2>1, SetSegmentsOutGood, Zenon DEF Drained
<1>2. snd \in SenderState /\ s \in SenderState
  BY <1>1 DEF Good
<1>3. /\ s.isn = snd.isn /\ s.nextSeqno = snd.nextSeqno /\ s.outstanding = snd.outstanding
      /\ s.inFlight = snd.inFlight /\ s.stream = snd.stream /\ s.syn = snd.syn /\ s.fin = snd.fin
      /\ s.window = snd.window /\ s.cwnd = snd.cwnd /\ s.segmentsOut = <<>>
  BY <1>2, Zenon DEF Drained, SenderState
<1>4. s.stream \in ByteStreamState /\ snd.stream.written \in Nat
  BY <1>2, <1>3 DEF SenderState, ByteStreamState
<1> HIDE DEF s
<1>5. Aligned(snd) => Aligned(s)
  <2>1. Entries(s) \subseteq Entries(snd)
    BY <1>3 DEF Entries
  <2> QED BY <1>3, <2>1, AlignedFrame
<1>6. EffectiveWindow(s) = EffectiveWindow(snd)
  BY <1>3 DEF EffectiveWindow
<1>7. \A t : Idles(s, t) => Idles(snd, t)
  BY <1>3, <1>6 DEF Idles, Queued
<1>8. CASE Connect
  <2>1. snd' = FillWindow(s) /\ Queued(snd, s)
    BY <1>3, <1>8 DEF Connect, s, Queued
  <2> QED BY <1>1, <1>3, <1>5, <2>1 DEF Fills
<1>9. ASSUME NEW b \in ByteStreamState, snd' = FillWindow([s EXCEPT !.stream = b]),
             Aligned(s) => b.read = s.stream.read /\ Numbered(b) /\ (s.fin => Eof(b))
      PROVE  Fills(snd, snd')
  <2> DEFINE e == [s EXCEPT !.stream = b]
  <2>1. e \in Good
    BY <1>1, SetStreamGood
  <2>2. e.nextSeqno = s.nextSeqno /\ e.isn = s.isn /\ e.segmentsOut = s.segmentsOut
    BY <1>2, Zenon DEF SenderState
  <2>3. Aligned(s) => Aligned(e)
    BY <1>2, <1>9, AlignedStream
  <2>4. snd' = FillWindow(e)
    BY <1>9
  <2> HIDE DEF e
  <2> QED BY <1>3, <1>5, <2>1, <2>2, <2>3, <2>4 DEF Fills, Queued
<1>10. ASSUME NEW n \in 1..MaxBytes, Write(n)
       PROVE  Fills(snd, snd')
  <2> DEFINE data == Bytes(s.stream.written + 1, n)
             b == StreamWrite(s.stream, data)
  <2>1. snd' = FillWindow([s EXCEPT !.stream = b]) /\ ~s.stream.ended
    BY <1>3, <1>10, Zenon DEF Write, s
  <2>2. n \in Nat
    BY SpecAssumption
  <2>3. data \in Seq(Byte)
    <3>1. s.stream.written \in Nat BY <1>3, <1>4
    <3>2. \A i \in 1..n : s.stream.written + 1 + i - 1 \in Byte
      BY <2>2, <3>1 DEF Byte
    <3> QED BY <2>2, <3>2 DEF Bytes
  <2>4. b \in ByteStreamState
    BY <1>4, <2>3, StreamWriteType
  <2>5. Aligned(s) => b.read = s.stream.read /\ Numbered(b) /\ (s.fin => Eof(b))
    <3> SUFFICES ASSUME Aligned(s)
                 PROVE  b.read = s.stream.read /\ Numbered(b) /\ (s.fin => Eof(b))
      OBVIOUS
    <3>1. Numbered(s.stream) /\ ~s.fin
      BY <2>1 DEF Aligned, Eof
    <3>2. Numbered(b) /\ b.read = s.stream.read
      BY <1>4, <2>2, <3>1, WriteNumbered
    <3> QED BY <3>1, <3>2
  <2> HIDE DEF b
  <2> QED BY <1>9, <2>1, <2>4, <2>5
<1>11. CASE EndInputStream
  <2> DEFINE b == EndInput(s.stream)
  <2>1. snd' = FillWindow([s EXCEPT !.stream = b])
    BY <1>11, Zenon DEF EndInputStream, s
  <2>2. b \in ByteStreamState
    BY <1>4, EndInputType
  <2>3. /\ b.read = s.stream.read /\ b.data = s.stream.data /\ b.written = s.stream.written
        /\ b.ended = TRUE
    BY <1>4 DEF EndInput, ByteStreamState
  <2> HIDE DEF b
  <2>4. Aligned(s) => Numbered(b) /\ (s.fin => Eof(b))
    BY <2>3 DEF Aligned, Numbered, Eof, BufferSize
  <2> QED BY <1>9, <2>1, <2>2, <2>3, <2>4
<1>12. ASSUME NEW ackno \in Seqno, NEW win \in 0..MaxWindow, Ack(ackno, win)
       PROVE  Fills(snd, snd') \/ Idles(snd, snd')
  <2> DEFINE a == AbsAckno(s, ackno)
             e == Acknowledged(s, a, win)
  <2>1. win \in Nat
    BY SpecAssumption
  <2>2. a \in Nat /\ (snd' = s \/ snd' = FillWindow(e))
    BY <1>1, <1>12, <2>1, AckReceivedCases DEF Ack, s
  <2> HIDE DEF a
  <2>3. e \in Good
    BY <1>1, <2>1, <2>2, AcknowledgedGood
  <2>4. e.isn = s.isn /\ e.nextSeqno = s.nextSeqno /\ Queued(s, e) /\ (Aligned(s) => Aligned(e))
    BY <1>1, <1>3, <2>1, <2>2, AcknowledgedFrame
  <2> HIDE DEF e
  <2>5. CASE snd' = FillWindow(e)
    BY <1>3, <1>5, <2>3, <2>4, <2>5 DEF Fills, Queued
  <2>6. CASE snd' = s
    <3>1. EffectiveWindow(s) \in Nat
      BY <1>2, EffectiveWindowType
    <3>2. Idles(s, s)
      BY <1>3, <3>1 DEF Idles, Queued
    <3> QED BY <1>7, <2>6, <3>2
  <2> QED BY <2>2, <2>5, <2>6
<1>13. ASSUME NEW ms \in 1..MaxTick, Tick(ms)
       PROVE  Idles(snd, snd')
  <2>1. ms \in Nat
    BY SpecAssumption
  <2>2. snd' = SenderTick(s, ms)
    BY <1>13 DEF Tick, s
  <2>3. Idles(s, SenderTick(s, ms))
    BY <1>1, <1>3, <2>1, SenderTickIdles
  <2> QED BY <1>7, <2>2, <2>3
<1>14. CASE SendEmpty
  <2> DEFINE seg == EmptySegment(Wrap(s.nextSeqno, s.isn))
             t == SendEmptySegment(s)
  <2>1. snd' = t
    BY <1>14 DEF SendEmpty, s
  <2>2. /\ t.isn = s.isn /\ t.nextSeqno = s.nextSeqno /\ t.outstanding = s.outstanding
        /\ t.inFlight = s.inFlight /\ t.stream = s.stream /\ t.syn = s.syn /\ t.fin = s.fin
        /\ t.window = s.window /\ t.cwnd = s.cwnd /\ t.segmentsOut = Append(s.segmentsOut, seg)
    BY <1>2, Zenon DEF SendEmptySegment, SenderState
  <2> HIDE DEF t, seg
  <2>3. EffectiveWindow(t) = EffectiveWindow(s) /\ EffectiveWindow(s) \in Nat
    BY <1>2, <2>2, EffectiveWindowType DEF EffectiveWindow
  <2>4. t.segmentsOut = <<seg>>
    BY <1>3, <2>2
  <2>5. Idles(s, t)
    BY <2>2, <2>3, <2>4 DEF Idles, seg
  <2> QED BY <1>7, <2>1, <2>5
<1> QED BY <1>8, <1>10, <1>11, <1>12, <1>13, <1>14 DEF Next

-----------------------------------------------------------------------------
(* The invariant of the calls *)

\* NoStall of a sender state.
Busy(s) ==
  s.syn => \/ s.inFlight >= EffectiveWindow(s)
           \/ BufferSize(s.stream) = 0 /\ (s.stream.ended => s.fin)

\* What t has queued for transmission, seen from the state s before the call.
Emits(s, t) ==
  \A i \in 1..Len(t.segmentsOut) :
    LET seg == t.segmentsOut[i]
    IN  \/ \E k \in 1..Len(t.outstanding) :
             /\ t.outstanding[k].seg = seg
             /\ t.outstanding[k].seq >= s.nextSeqno
        \/ i = 1 /\ s.outstanding # <<>> /\ seg = Head(s.outstanding).seg
        \/ LengthInSequenceSpace(seg) = 0 /\ seg.seqno = Wrap(s.nextSeqno, s.isn)

\* A call that fills the window sends within it, leaves nothing it could send, and queues
\* new segments after at most one copy of the oldest.
LEMMA FillsEffect ==
  ASSUME NEW s \in Good, NEW t, Fills(s, t)
  PROVE  /\ Busy(t)
         /\ Aligned(s) => Aligned(t)
         /\ t.nextSeqno = s.nextSeqno \/ t.inFlight <= EffectiveWindow(t)
         /\ Emits(s, t)
<1>1. PICK e \in Good : /\ t = FillWindow(e)
                        /\ e.nextSeqno = s.nextSeqno /\ e.isn = s.isn
                        /\ Queued(s, e)
                        /\ Aligned(s) => Aligned(e)
  BY DEF Fills
<1>2. t \in Filled(e, EffectiveWindow(e)) /\ (t.inFlight >= EffectiveWindow(e) \/ Settled(t))
  BY <1>1, FillWindowEffect
<1>3. EffectiveWindow(t) = EffectiveWindow(e)
  BY <1>2 DEF Filled, EffectiveWindow
<1>4. Busy(t)
  BY <1>2, <1>3 DEF Busy, Settled
<1>5. t.nextSeqno = s.nextSeqno \/ t.inFlight <= EffectiveWindow(t)
  BY <1>1, <1>2, <1>3 DEF Filled
<1>6. t \in Sent(e)
  BY <1>1, FillWindowSent
<1>7. Aligned(s) => Aligned(t)
  BY <1>1, <1>6 DEF Sent
<1>8. Emits(s, t)
  <2> SUFFICES ASSUME NEW i \in 1..Len(t.segmentsOut)
               PROVE  \/ \E k \in 1..Len(t.outstanding) :
                           /\ t.outstanding[k].seg = t.segmentsOut[i]
                           /\ t.outstanding[k].seq >= s.nextSeqno
                      \/ i = 1 /\ s.outstanding # <<>> /\ t.segmentsOut[i] = Head(s.outstanding).seg
    BY DEF Emits
  <2>1. \/ i \in 1..Len(e.segmentsOut) /\ t.segmentsOut[i] = e.segmentsOut[i]
        \/ \E o \in Entries(t) : o.seg = t.segmentsOut[i] /\ o.seq >= e.nextSeqno
    BY <1>6 DEF Sent, Emitted
  <2>2. CASE i \in 1..Len(e.segmentsOut) /\ t.segmentsOut[i] = e.segmentsOut[i]
    <3>1. CASE e.segmentsOut = <<>>
      BY <2>2, <3>1
    <3>2. CASE s.outstanding # <<>> /\ e.segmentsOut = <<Head(s.outstanding).seg>>
      <4>1. Len(e.segmentsOut) = 1 /\ e.segmentsOut[1] = Head(s.outstanding).seg
        BY <3>2
      <4>2. i = 1
        BY <2>2, <4>1
      <4> QED BY <2>2, <3>2, <4>1, <4>2
    <3> QED BY <1>1, <3>1, <3>2 DEF Queued
  <2>3. CASE \E o \in Entries(t) : o.seg = t.segmentsOut[i] /\ o.seq >= e.nextSeqno
    BY <1>1, <2>3, Zenon DEF Entries
  <2> QED BY <2>1, <2>2, <2>3
<1> QED BY <1>4, <1>5, <1>7, <1>8

\* A call that sends nothing new keeps all of this, as the window has not grown.
LEMMA IdlesEffect ==
  ASSUME NEW s \in Good, NEW t \in Good, Idles(s, t)
  PROVE  /\ Busy(s) => Busy(t)
         /\ Aligned(s) => Aligned(t)
         /\ Emits(s, t)
<1>1. /\ t.isn = s.isn /\ t.nextSeqno = s.nextSeqno /\ t.outstanding = s.outstanding
      /\ t.inFlight = s.inFlight /\ t.stream = s.stream /\ t.syn = s.syn /\ t.fin = s.fin
      /\ EffectiveWindow(t) <= EffectiveWindow(s)
      /\ Queued(s, t) \/ t.segmentsOut = <<EmptySegment(Wrap(s.nextSeqno, s.isn))>>
  BY DEF Idles
<1>2. s.inFlight \in Int /\ EffectiveWindow(s) \in Nat /\ EffectiveWindow(t) \in Nat
  BY EffectiveWindowType, Zenon DEF Good, SenderState
<1>3. Busy(s) => Busy(t)
  <2>1. s.inFlight >= EffectiveWindow(s) => t.inFlight >= EffectiveWindow(t)
    BY <1>1, <1>2
  <2> QED BY <1>1, <2>1 DEF Busy
<1>4. Aligned(s) => Aligned(t)
  <2>1. Entries(t) \subseteq Entries(s)
    BY <1>1 DEF Entries
  <2> QED BY <1>1, <2>1, AlignedFrame
<1>5. Emits(s, t)
  <2> SUFFICES ASSUME NEW i \in 1..Len(t.segmentsOut)
               PROVE  LET seg == t.segmentsOut[i]
                      IN  \/ i = 1 /\ s.outstanding # <<>> /\ seg = Head(s.outstanding).seg
                          \/ LengthInSequenceSpace(seg) = 0 /\ seg.seqno = Wrap(s.nextSeqno, s.isn)
    BY DEF Emits
  <2>1. CASE t.segmentsOut = <<>>
    BY <2>1
  <2>2. CASE s.outstanding # <<>> /\ t.segmentsOut = <<Head(s.outstanding).seg>>
    <3>1. i = 1 /\ t.segmentsOut[1] = Head(s.outstanding).seg
      BY <2>2
    <3> QED BY <2>2, <3>1
  <2>3. CASE t.segmentsOut = <<EmptySegment(Wrap(s.nextSeqno, s.isn))>>
    <3> DEFINE seg == EmptySegment(Wrap(s.nextSeqno, s.isn))
    <3>1. i = 1 /\ t.segmentsOut[1] = seg
      BY <2>3
    <3>2. LengthInSequenceSpace(seg) = 0 /\ seg.seqno = Wrap(s.nextSeqno, s.isn)
      BY DEF EmptySegment, LengthInSequenceSpace, BoolToNat
    <3> QED BY <3>1, <3>2
  <2> QED BY <1>1, <2>1, <2>2, <2>3 DEF Queued
<1> QED BY <1>3, <1>4, <1>5

\* The inductive invariant of the calls, on top of IInv.
CallInv == snd \in Good /\ Aligned(snd) /\ Busy(snd)

\* A new sender has sent and read nothing.
LEMMA InitCallInv == Init => CallInv
<1> SUFFICES ASSUME Init PROVE CallInv
  OBVIOUS
<1>1. snd \in Good
  BY InitGood
<1>2. /\ snd.syn = FALSE /\ snd.fin = FALSE /\ snd.nextSeqno = 0 /\ snd.outstanding = <<>>
      /\ snd.stream.read = 0 /\ snd.stream.data = <<>>
  BY DEF Init, NewSender, NewStream
<1>3. Entries(snd) = {}
  BY <1>2 DEF Entries
<1>4. Numbered(snd.stream)
  BY <1>2 DEF Numbered
<1>5. snd.nextSeqno = BoolToNat(snd.syn) + snd.stream.read + BoolToNat(snd.fin)
  BY <1>2 DEF BoolToNat
<1>6. Aligned(snd)
  BY <1>2, <1>3, <1>4, <1>5 DEF Aligned
<1> QED BY <1>1, <1>2, <1>6 DEF CallInv, Busy

\* Every call keeps the invariant, and what it sends is as it should be.
LEMMA NextCallInv ==
  CallInv /\ [Next]_snd =>
    /\ CallInv'
    /\ [snd'.nextSeqno > snd.nextSeqno => snd'.inFlight <= EffectiveWindow(snd')]_snd
    /\ [Emits(snd, snd')]_snd
<1> SUFFICES ASSUME CallInv, [Next]_snd
             PROVE  /\ CallInv'
                    /\ [snd'.nextSeqno > snd.nextSeqno => snd'.inFlight <= EffectiveWindow(snd')]_snd
                    /\ [Emits(snd, snd')]_snd
  OBVIOUS
<1>1. snd \in Good /\ Aligned(snd) /\ Busy(snd)
  BY DEF CallInv
<1>2. snd' \in Good
  BY <1>1, NextGood
<1>3. snd.nextSeqno \in Nat /\ snd'.nextSeqno \in Nat
  BY <1>1, <1>2 DEF Good, SenderState
<1>4. CASE UNCHANGED snd
  BY <1>4 DEF CallInv
<1>5. CASE Fills(snd, snd')
  <2>1. /\ Busy(snd') /\ Aligned(snd') /\ Emits(snd, snd')
        /\ snd'.nextSeqno = snd.nextSeqno \/ snd'.inFlight <= EffectiveWindow(snd')
    BY <1>1, <1>5, FillsEffect
  <2>2. snd'.nextSeqno > snd.nextSeqno => snd'.inFlight <= EffectiveWindow(snd')
    BY <1>3, <2>1
  <2> QED BY <1>2, <2>1, <2>2 DEF CallInv
<1>6. CASE Idles(snd, snd')
  <2>1. Busy(snd') /\ Aligned(snd') /\ Emits(snd, snd')
    BY <1>1, <1>2, <1>6, IdlesEffect
  <2>2. ~(snd'.nextSeqno > snd.nextSeqno)
    BY <1>3, <1>6 DEF Idles
  <2> QED BY <1>2, <2>1, <2>2 DEF CallInv
<1> QED BY <1>1, <1>4, <1>5, <1>6, CallEffect

\* Every state of the sender satisfies the invariant of the calls.
LEMMA AlwaysCallInv == Spec => []CallInv
<1>1. CallInv /\ [Next]_snd => CallInv'
  BY NextCallInv
<1> QED BY <1>1, InitCallInv, PTL DEF Spec

\* The sender never sits on bytes or a FIN that the effective window has room for, through
\* every order of writes, acknowledgments, window changes and timeouts.
THEOREM SenderNeverStalls == Spec => []NoStall
<1>1. CallInv => NoStall
  BY DEF CallInv, Busy, NoStall
<1> QED BY <1>1, AlwaysCallInv, PTL

\* Every outstanding segment carries the SYN, bytes and FIN of its place in sequence space,
\* so a retransmission repeats what the peer may already hold.
THEOREM SequenceAlwaysMatches == Spec => []SequenceMatchesStream
<1>1. CallInv => SequenceMatchesStream
  <2> SUFFICES ASSUME Aligned(snd) PROVE SequenceMatchesStream
    BY DEF CallInv
  <2>1. \A k \in 1..Len(snd.outstanding) : EntryMatches(snd, snd.outstanding[k])
    BY DEF Aligned, Entries
  <2> QED BY <2>1 DEF Aligned, EntryMatches, SequenceMatchesStream
<1> QED BY <1>1, AlwaysCallInv, PTL

\* fill_window never puts a new number in flight beyond min(max(window, 1), cwnd).
THEOREM WindowAlwaysRespected == Spec => WindowRespected
<1>1. CallInv /\ [Next]_snd =>
        [snd'.nextSeqno > snd.nextSeqno => snd'.inFlight <= EffectiveWindow(snd')]_snd
  BY NextCallInv
<1> QED BY <1>1, AlwaysCallInv, PTL DEF Spec, WindowRespected

\* A call emits only new segments, empty ones, and at most one copy, of the oldest
\* outstanding segment and before anything new.
THEOREM AlwaysEmitsNewOrOldest == Spec => EmitsNewOrOldest
<1>1. CallInv /\ [Next]_snd =>
        [\A i \in 1..Len(snd'.segmentsOut) :
           LET seg == snd'.segmentsOut[i]
           IN  \/ \E k \in 1..Len(snd'.outstanding) :
                    /\ snd'.outstanding[k].seg = seg
                    /\ snd'.outstanding[k].seq >= snd.nextSeqno
               \/ i = 1 /\ snd.outstanding # <<>> /\ seg = Head(snd.outstanding).seg
               \/ LengthInSequenceSpace(seg) = 0 /\ seg.seqno = Wrap(snd.nextSeqno, snd.isn)]_snd
  BY NextCallInv DEF Emits
<1> QED BY <1>1, AlwaysCallInv, PTL DEF Spec, EmitsNewOrOldest
=============================================================================
