----------------------------- MODULE TCPSender ------------------------------
(***************************************************************************)
(* The sending half of a TCP endpoint (libsponge/tcp_sender.cc): segments  *)
(* the outgoing stream, keeps what is outstanding, retransmits the oldest  *)
(* segment on timeout, and runs Reno congestion control when enabled.      *)
(* One operator per method, over a record of the object's fields.          *)
(***************************************************************************)
EXTENDS TCPSegment

CONSTANTS MaxPayloadSize,        \* TCPConfig::MAX_PAYLOAD_SIZE
          RetxTimeout,           \* TCPConfig::rt_timeout
          CongestionControl      \* TCPConfig::congestion_control

ASSUME SenderAssumption ==
  /\ MaxPayloadSize \in Nat \ {0} /\ 2 * MaxPayloadSize <= SizeMax
  /\ RetxTimeout \in Nat \ {0}
  /\ CongestionControl \in BOOLEAN

Timer == [count: Nat, timeOut: Nat, running: BOOLEAN]

SenderState ==
  [isn: Seqno, stream: ByteStreamState, segmentsOut: Seq(Segment),
   nextSeqno: Nat, timer: Timer, outstanding: Seq([seq: Nat, seg: Segment]),
   retx: Nat, inFlight: Int, window: Nat, syn: BOOLEAN, fin: BOOLEAN,
   cwnd: Nat, ssthresh: Nat, dupAcks: Nat, lastAckno: Nat, recovery: BOOLEAN]

NewSender(capacity, isn) ==
  [isn |-> isn, stream |-> NewStream(capacity), segmentsOut |-> <<>>,
   nextSeqno |-> 0, timer |-> [count |-> 0, timeOut |-> RetxTimeout, running |-> FALSE],
   outstanding |-> <<>>, retx |-> 0, inFlight |-> 0, window |-> 1,
   syn |-> FALSE, fin |-> FALSE,
   cwnd |-> MaxPayloadSize, ssthresh |-> SizeMax, dupAcks |-> 0, lastAckno |-> 0,
   recovery |-> FALSE]

-----------------------------------------------------------------------------
Restart(t) == [t EXCEPT !.running = TRUE, !.count = 0]
Stop(t) == [t EXCEPT !.running = FALSE]
TimerTick(t, ms) == IF t.running THEN [t EXCEPT !.count = @ + ms] ELSE t
TimedOut(t) == t.running /\ t.count >= t.timeOut

\* Faulty variant of EffectiveWindow: takes the window for room beyond what is in flight.
WindowPastFlight(s) == Larger(s.window, 1) + s.inFlight

EffectiveWindow(s) ==
  LET adv == Larger(s.window, 1)
  IN  IF CongestionControl THEN Lesser(adv, s.cwnd) ELSE adv

-----------------------------------------------------------------------------
(* fill_window: one round of its loop, with the window read before the loop *)

NextSegment(s, window) ==
  LET syn     == ~s.syn
      size    == Lesser(MaxPayloadSize,
                        Lesser(window - s.inFlight - BoolToNat(syn), BufferSize(s.stream)))
      payload == PeekOutput(s.stream, size)
      fin     == /\ ~s.fin
                 /\ Eof(PopOutput(s.stream, size))
                 /\ s.inFlight + Len(payload) + BoolToNat(syn) < window
  IN  [EmptySegment(Wrap(s.nextSeqno, s.isn))
         EXCEPT !.syn = syn, !.fin = fin, !.payload = payload]

SendSegment(s, seg) ==
  LET length == LengthInSequenceSpace(seg)
  IN  [s EXCEPT !.syn = TRUE, !.fin = @ \/ seg.fin,
                !.stream = PopOutput(@, Len(seg.payload)),
                !.segmentsOut = Append(@, seg),
                !.timer = IF @.running THEN @ ELSE Restart(@),
                !.outstanding = Append(@, [seq |-> s.nextSeqno, seg |-> seg]),
                !.nextSeqno = @ + length, !.inFlight = @ + length]

FillRound(window) ==
  [s \in SenderState |->
     LET seg == NextSegment(s, window)
     IN  IF s.inFlight < window /\ LengthInSequenceSpace(seg) > 0
         THEN SendSegment(s, seg) ELSE s]

\* Every round but the last sends at least one sequence number.
FillWindow(s) ==
  LET window == EffectiveWindow(s)
  IN  Orbit(FillRound(window), s)[Larger(window - s.inFlight, 0)]

-----------------------------------------------------------------------------
(* Reno congestion control *)

OnNewAck(s, newly) ==
  LET cwnd == IF s.recovery THEN s.ssthresh ELSE s.cwnd
  IN  [s EXCEPT !.recovery = FALSE, !.dupAcks = 0,
                !.cwnd = IF cwnd < s.ssthresh THEN cwnd + newly
                         ELSE cwnd + ((MaxPayloadSize * newly) \div cwnd)]

HalvedThreshold(s) == Larger(s.cwnd \div 2, 2 * MaxPayloadSize)

OnDupAck(s) ==
  LET t == [s EXCEPT !.dupAcks = @ + 1]
  IN  IF s.outstanding = <<>> THEN s
      ELSE IF t.dupAcks = 3 /\ ~s.recovery
      THEN [t EXCEPT !.ssthresh = HalvedThreshold(s),
                     !.cwnd = HalvedThreshold(s) + 3 * MaxPayloadSize,
                     !.recovery = TRUE,
                     !.segmentsOut = Append(@, Head(s.outstanding).seg)]
      ELSE IF s.recovery /\ t.dupAcks > 3
      THEN [t EXCEPT !.cwnd = @ + MaxPayloadSize]
      ELSE t

\* Faulty variant of OnCongestionTimeout: stays in fast recovery.
TimeoutInRecovery(s) ==
  [s EXCEPT !.ssthresh = HalvedThreshold(s), !.cwnd = MaxPayloadSize, !.dupAcks = 0]

OnCongestionTimeout(s) ==
  [s EXCEPT !.ssthresh = HalvedThreshold(s), !.cwnd = MaxPayloadSize,
            !.dupAcks = 0, !.recovery = FALSE]

-----------------------------------------------------------------------------
(* ack_received *)

\* Faulty variant of AckRound: leaves the dropped bytes counted as in flight.
AckRoundKeepsCount(ackno) ==
  [s \in SenderState |->
     IF s.outstanding # <<>> /\ Head(s.outstanding).seq < ackno
     THEN [s EXCEPT !.outstanding = Tail(@)] ELSE s]

\* Faulty variant of AckRound: drops a segment whose last number is the ackno.
AckRoundOffByOne(ackno) ==
  [s \in SenderState |->
     IF /\ s.outstanding # <<>>
        /\ Head(s.outstanding).seq + LengthInSequenceSpace(Head(s.outstanding).seg) - 1 <= ackno
     THEN [s EXCEPT !.outstanding = Tail(@),
                    !.inFlight = @ - LengthInSequenceSpace(Head(s.outstanding).seg)]
     ELSE s]

\* The loop over fully acknowledged segments at the front of the queue.
AckRound(ackno) ==
  [s \in SenderState |->
     IF /\ s.outstanding # <<>>
        /\ Head(s.outstanding).seq + LengthInSequenceSpace(Head(s.outstanding).seg) - 1 < ackno
     THEN [s EXCEPT !.outstanding = Tail(@),
                    !.inFlight = @ - LengthInSequenceSpace(Head(s.outstanding).seg)]
     ELSE s]

PopAcked(s, ackno) == Orbit(AckRound(ackno), s)[Len(s.outstanding)]

AckCongestion(s, ackno, newly) ==
  LET t == IF newly > 0 THEN OnNewAck(s, newly)
           ELSE IF ackno = s.lastAckno THEN OnDupAck(s) ELSE s
  IN  IF CongestionControl THEN [t EXCEPT !.lastAckno = ackno] ELSE s

\* Faulty variant of AckTimer: leaves the timer running when all is acknowledged.
AckTimerNeverStops(s, newly) ==
  IF newly > 0 THEN [s EXCEPT !.retx = 0, !.timer = Restart([@ EXCEPT !.timeOut = RetxTimeout])]
  ELSE s

\* Faulty variant of AckTimer: keeps the backed-off timeout.
AckTimerKeepsTimeOut(s, newly) ==
  LET t == IF newly > 0 THEN [s EXCEPT !.retx = 0, !.timer = Restart(@)] ELSE s
  IN  IF s.inFlight = 0 THEN [t EXCEPT !.timer = Stop(@)] ELSE t

\* Faulty variant of AckTimer: restarts the timer on duplicate ACKs too.
AckTimerAlwaysRestarts(s, newly) ==
  LET t == IF newly > 0 THEN [s EXCEPT !.retx = 0, !.timer.timeOut = RetxTimeout] ELSE s
  IN  [t EXCEPT !.timer = IF s.inFlight = 0 THEN Stop(@) ELSE Restart(@)]

AckTimer(s, newly) ==
  LET t == IF newly > 0
           THEN [s EXCEPT !.retx = 0, !.timer = Restart([@ EXCEPT !.timeOut = RetxTimeout])]
           ELSE s
  IN  IF s.inFlight = 0 THEN [t EXCEPT !.timer = Stop(@)] ELSE t

AbsAckno(s, ackno) == Unwrap(ackno, s.isn, s.nextSeqno)

\* Faulty variant of AckReceived: fills the old window before it takes the new one.
AckFillsFirst(s, ackno, win) ==
  LET abs    == AbsAckno(s, ackno)
      popped == PopAcked(s, abs)
      newly  == s.inFlight - popped.inFlight
      timed  == AckTimer(AckCongestion(popped, abs, newly), newly)
  IN  IF abs > s.nextSeqno THEN s
      ELSE [FillWindow(timed) EXCEPT !.window = win]

AckReceived(s, ackno, win) ==
  LET abs    == AbsAckno(s, ackno)
      popped == PopAcked(s, abs)
      newly  == s.inFlight - popped.inFlight
      timed  == AckTimer(AckCongestion(popped, abs, newly), newly)
  IN  IF abs > s.nextSeqno THEN s
      ELSE FillWindow([timed EXCEPT !.window = win])

-----------------------------------------------------------------------------
\* Faulty variant of RetransmitOldest: resends the newest segment.
RetransmitNewest(s) ==
  [s EXCEPT !.segmentsOut = Append(@, s.outstanding[Len(s.outstanding)].seg),
            !.retx = @ + 1, !.timer = Restart([@ EXCEPT !.timeOut = @ * 2])]

RetransmitOldest(s) ==
  LET t == IF CongestionControl THEN OnCongestionTimeout(s) ELSE s
      backedOff == IF s.window > 0
                   THEN [t EXCEPT !.retx = @ + 1, !.timer.timeOut = @ * 2] ELSE t
  IN  [backedOff EXCEPT !.segmentsOut = Append(@, Head(s.outstanding).seg),
                        !.timer = Restart(@)]

SenderTick(s, ms) ==
  LET t == [s EXCEPT !.timer = TimerTick(@, ms)]
  IN  IF TimedOut(t.timer) /\ t.outstanding # <<>> THEN RetransmitOldest(t) ELSE t

\* Faulty variant of SendEmptySegment: adds without wrapping.
SendEmptyUnwrapped(s) ==
  [s EXCEPT !.segmentsOut = Append(@, EmptySegment(s.nextSeqno + s.isn))]

SendEmptySegment(s) ==
  [s EXCEPT !.segmentsOut = Append(@, EmptySegment(Wrap(s.nextSeqno, s.isn)))]
=============================================================================
