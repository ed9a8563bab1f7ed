--------------------------- MODULE TCPSenderSpec ----------------------------
(***************************************************************************)
(* The TCPSender as a state machine: its owner (TCPConnection) calls the   *)
(* methods in any order and takes what is queued in segments_out after     *)
(* each call; acknowledgments carry any number and any window.  Byte i of  *)
(* the outgoing stream is the number i, so a misplaced byte shows.         *)
(***************************************************************************)
EXTENDS TCPSender

CONSTANTS SendCapacity,    \* TCPConfig::send_capacity
          ISN,             \* the initial sequence number
          MaxBytes,        \* bound: bytes the application ever writes
          MaxWindow,       \* bound: largest advertised window
          MaxTick,         \* bound: longest time between two ticks
          MaxRetx,         \* TCPConfig::MAX_RETX_ATTEMPTS
          MaxDupAcks       \* bound: duplicate ACKs counted in a row

ASSUME SpecAssumption ==
  /\ SendCapacity \in Nat /\ ISN \in Seqno
  /\ MaxBytes \in Nat /\ MaxWindow \in Nat /\ MaxTick \in Nat /\ MaxRetx \in Nat
  /\ MaxDupAcks \in Nat

VARIABLE snd

\* The owner has moved the queued segments on to its own queue.
Drained == [snd EXCEPT !.segmentsOut = <<>>]

Init == snd = NewSender(SendCapacity, ISN)

Connect == snd' = FillWindow(Drained)

\* The bytes numbered first, first + 1, ...
Bytes(first, n) == [i \in 1..n |-> first + i - 1]

\* TCPConnection::write: push into the stream, then try to send.
Write(n) ==
  /\ snd.stream.written + n <= MaxBytes
  /\ ~snd.stream.ended
  /\ snd' = FillWindow([Drained EXCEPT
              !.stream = StreamWrite(@, Bytes(@.written + 1, n))])

EndInputStream ==
  snd' = FillWindow([Drained EXCEPT !.stream = EndInput(@)])

Ack(ackno, win) ==
  /\ snd' = AckReceived(Drained, ackno, win)
  /\ snd'.dupAcks <= MaxDupAcks

\* The owner stops ticking once it has reset the connection.
Tick(ms) ==
  /\ snd.retx <= MaxRetx
  /\ snd' = SenderTick(Drained, ms)

SendEmpty == snd' = SendEmptySegment(Drained)

Next ==
  \/ Connect
  \/ \E n \in 1..MaxBytes : Write(n)
  \/ EndInputStream
  \/ \E ackno \in Seqno, win \in 0..MaxWindow : Ack(ackno, win)
  \/ \E ms \in 1..MaxTick : Tick(ms)
  \/ SendEmpty

Spec == Init /\ [][Next]_snd

\* The event loop calls tick again and again: weak fairness, with the condition under
\* which a tick changes the sender written out.
TickMatters ==
  snd.retx <= MaxRetx /\ \E ms \in 1..MaxTick : SenderTick(Drained, ms) # snd

FairSpec == Spec /\ ([]<>~TickMatters \/ []<><<\E ms \in 1..MaxTick : Tick(ms)>>_snd)

-----------------------------------------------------------------------------
TypeOK == snd \in SenderState

SegEnd(o) == o.seq + LengthInSequenceSpace(o.seg)

Contiguous(out, end) ==
  \A i \in 1..Len(out) :
    /\ out[i].seq < SegEnd(out[i])
    /\ SegEnd(out[i]) = IF i = Len(out) THEN end ELSE out[i + 1].seq

\* The outstanding queue covers the sequence numbers from the oldest unacknowledged
\* one up to next_seqno without hole or overlap, each entry at least one number long,
\* and _bytes_in_flight (kept by additions in fill_window and subtractions in
\* ack_received) is exactly what the queue holds, so it never underflows.
InFlightExact ==
  /\ Contiguous(snd.outstanding, snd.nextSeqno)
  /\ snd.inFlight = IF snd.outstanding = <<>> THEN 0
                    ELSE snd.nextSeqno - snd.outstanding[1].seq

\* The retransmission timer runs exactly while something is outstanding: no segment
\* waits without a timer, and tick never finds a timer with nothing to resend.
TimerGuardsOutstanding == snd.timer.running <=> snd.outstanding # <<>>

\* Where a segment sits in sequence space determines what it carries: SYN is number 0,
\* stream byte i is number i, FIN is the number after the last byte of an ended stream
\* and nothing is sent after it.  So what tick and fast retransmit resend agrees with
\* what the peer may already hold.
SequenceMatchesStream ==
  /\ snd.nextSeqno = BoolToNat(snd.syn) + snd.stream.read + BoolToNat(snd.fin)
  /\ snd.fin => snd.syn /\ Eof(snd.stream)
  /\ \A k \in 1..Len(snd.outstanding) :
       LET o == snd.outstanding[k]
       IN  /\ o.seg.seqno = Wrap(o.seq, snd.isn)
           /\ o.seg.syn <=> o.seq = 0
           /\ o.seg.fin => SegEnd(o) = snd.nextSeqno /\ snd.fin
           /\ \A i \in 1..Len(o.seg.payload) :
                o.seg.payload[i] = o.seq + BoolToNat(o.seg.syn) + i - 1

\* Once the SYN is out, the sender never sits on something it may send: either the
\* effective window is full, or the stream is drained and its FIN, if due, is sent.
\* (fill_window must therefore run after every event that opens the window.)
NoStall ==
  snd.syn => \/ snd.inFlight >= EffectiveWindow(snd)
             \/ BufferSize(snd.stream) = 0 /\ (snd.stream.ended => snd.fin)

\* The timeout is the initial one doubled once per counted retransmission, through
\* acknowledgments that reset both and zero-window probes that change neither.
BackoffExponential == snd.timer.timeOut = RetxTimeout * 2^snd.retx

\* Reno: cwnd never drops below one MSS nor ssthresh below two, and fast recovery
\* holds only after three duplicate ACKs, with cwnd inflated above ssthresh.
RenoWindow ==
  /\ snd.cwnd >= MaxPayloadSize
  /\ snd.ssthresh >= 2 * MaxPayloadSize
  /\ snd.recovery => snd.dupAcks >= 3 /\ snd.cwnd >= snd.ssthresh + 3 * MaxPayloadSize

\* New sequence numbers are sent only inside the window: a step that advances
\* next_seqno leaves no more in flight than min(max(window, 1), cwnd).
WindowRespected ==
  [][snd'.nextSeqno > snd.nextSeqno => snd'.inFlight <= EffectiveWindow(snd')]_snd

\* What a call emits is new, empty, or an unchanged copy of the oldest outstanding
\* segment; at most one copy per call, and never after something new was sent.
EmitsNewOrOldest ==
  [][\A i \in 1..Len(snd'.segmentsOut) :
       LET seg == snd'.segmentsOut[i]
       IN  \/ \E k \in 1..Len(snd'.outstanding) :
                /\ snd'.outstanding[k].seg = seg
                /\ snd'.outstanding[k].seq >= snd.nextSeqno
           \/ i = 1 /\ snd.outstanding # <<>> /\ seg = Head(snd.outstanding).seg
           \/ LengthInSequenceSpace(seg) = 0 /\ seg.seqno = Wrap(snd.nextSeqno, snd.isn)]_snd

OldestIs(q) == snd.outstanding # <<>> /\ Head(snd.outstanding).seq = q

\* A segment that stays the oldest unacknowledged one is retransmitted over and over
\* until the owner gives up: duplicate and stale acknowledgments, window changes and new
\* sends never postpone the retransmission timer.
OldestRetransmitted ==
  \A q \in 0..(MaxBytes + 1) :
    <>[]OldestIs(q) =>
      \/ []<>(OldestIs(q) /\ \E i \in 1..Len(snd.segmentsOut) : snd.segmentsOut[i] = Head(snd.outstanding).seg)
      \/ <>[](snd.retx > MaxRetx)

=============================================================================
