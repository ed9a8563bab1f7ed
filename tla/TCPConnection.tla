--------------------------- MODULE TCPConnection ----------------------------
(***************************************************************************)
(* One endpoint of a TCP connection (libsponge/tcp_connection.cc): a       *)
(* TCPSender and a TCPReceiver, the queue of segments for the network, and *)
(* the closing and reset logic.  One operator per method.                  *)
(***************************************************************************)
EXTENDS TCPSender, TCPReceiver

CONSTANTS MaxRetxAttempts,   \* TCPConfig::MAX_RETX_ATTEMPTS
          LingerFactor,      \* how many rt_timeouts to linger: 10 in the code
          UInt16Max          \* numeric_limits<uint16_t>::max()

ASSUME ConnectionAssumption ==
  MaxRetxAttempts \in Nat /\ LingerFactor \in Nat /\ UInt16Max \in Nat

LingerTime == LingerFactor * RetxTimeout

NewConnection(sendCapacity, recvCapacity, isn) ==
  [sender |-> NewSender(sendCapacity, isn), receiver |-> NewReceiver(recvCapacity),
   segmentsOut |-> <<>>, linger |-> TRUE, sinceLast |-> 0, active |-> TRUE]

-----------------------------------------------------------------------------
(* TCPState::state_summary *)

ReceiverSummary(r) ==
  CASE StreamOut(r).error -> "ERROR"
    [] ~StreamOut(r).error /\ ~r.hasIsn -> "LISTEN"
    [] ~StreamOut(r).error /\ r.hasIsn /\ StreamOut(r).ended -> "FIN_RECV"
    [] OTHER -> "SYN_RECV"

\* Faulty variant of SenderSummary: takes a FIN in flight for acknowledged.
SummaryIgnoresFlight(s) ==
  IF s.stream.error THEN "ERROR"
  ELSE IF s.nextSeqno = 0 THEN "CLOSED"
  ELSE IF s.nextSeqno = s.inFlight THEN "SYN_SENT"
  ELSE IF ~Eof(s.stream) \/ s.nextSeqno < s.stream.written + 2 THEN "SYN_ACKED" ELSE "FIN_ACKED"

\* Faulty variant of SenderSummary: a FIN counts only once it is acknowledged.
SummaryForgetsFin(s) ==
  IF s.stream.error THEN "ERROR"
  ELSE IF s.nextSeqno = 0 THEN "CLOSED"
  ELSE IF s.nextSeqno = s.inFlight THEN "SYN_SENT"
  ELSE IF ~Eof(s.stream) \/ s.nextSeqno < s.stream.written + 2 \/ s.inFlight > 0
  THEN "SYN_ACKED" ELSE "FIN_ACKED"

SenderSummary(s) ==
  IF s.stream.error THEN "ERROR"
  ELSE IF s.nextSeqno = 0 THEN "CLOSED"
  ELSE IF s.nextSeqno = s.inFlight THEN "SYN_SENT"
  ELSE IF ~Eof(s.stream) \/ s.nextSeqno < s.stream.written + 2 THEN "SYN_ACKED"
  ELSE IF s.inFlight > 0 THEN "FIN_SENT" ELSE "FIN_ACKED"

Summary(c) == <<ReceiverSummary(c.receiver), SenderSummary(c.sender)>>

-----------------------------------------------------------------------------
\* _add_ackno_and_window_to_send: stamp what the sender queued and queue it for the network.
Stamp(r, seg) ==
  [seg EXCEPT !.ack = r.hasIsn, !.ackno = IF r.hasIsn THEN Ackno(r) ELSE @,
              !.win = Lesser(UInt16Max, WindowSize(r))]

AddAcknoAndWindow(c) ==
  [c EXCEPT !.sender.segmentsOut = <<>>,
            !.segmentsOut = @ \o [i \in 1..Len(c.sender.segmentsOut) |->
                                    Stamp(c.receiver, c.sender.segmentsOut[i])]]

SetRstState(c, sendRst) ==
  LET rst == [EmptySegment(Wrap(c.sender.nextSeqno, c.sender.isn)) EXCEPT !.rst = TRUE]
  IN  [c EXCEPT !.segmentsOut = IF sendRst THEN Append(@, rst) ELSE @,
                !.sender.stream = SetError(@),
                !.receiver.reassembler.output = SetError(@),
                !.linger = FALSE, !.active = FALSE]

ConnConnect(c) == AddAcknoAndWindow([c EXCEPT !.sender = FillWindow(@)])

ConnWrite(c, data) ==
  ConnConnect([c EXCEPT !.sender.stream = StreamWrite(@, data)])

EndInputStream(c) ==
  ConnConnect([c EXCEPT !.sender.stream = EndInput(@)])

-----------------------------------------------------------------------------
(* segment_received *)

\* An empty segment one below the ackno asks for an answer.
IsKeepAlive(c, seg) ==
  /\ c.receiver.hasIsn
  /\ LengthInSequenceSpace(seg) = 0
  /\ seg.seqno = (Ackno(c.receiver) - 1) % Mod32

\* After both halves have seen the segment.  The test of the connection's own queue
\* (not the sender's) is the code's.
AfterHalves(c, seg) ==
  LET needAck == LengthInSequenceSpace(seg) > 0 /\ ~(seg.ack /\ c.segmentsOut # <<>>)
      passive == [c EXCEPT !.linger = @ /\ Summary(c) # <<"FIN_RECV", "SYN_ACKED">>]
      answer  == IF needAck \/ IsKeepAlive(c, seg)
                 THEN [passive EXCEPT !.sender = SendEmptySegment(@)] ELSE passive
  IN  IF Summary(c) = <<"SYN_RECV", "CLOSED">> THEN ConnConnect(c)
      ELSE IF ~passive.linger /\ Summary(c) = <<"FIN_RECV", "FIN_ACKED">>
      THEN [passive EXCEPT !.active = FALSE]
      ELSE AddAcknoAndWindow(answer)

SegmentReceived(c, seg) ==
  LET heard == [c EXCEPT !.sinceLast = 0]
  IN  IF seg.rst THEN SetRstState(heard, FALSE)
      ELSE AfterHalves(
             [heard EXCEPT
                !.receiver = ReceiveSegment(@, seg),
                !.sender = IF seg.ack THEN AckReceived(@, seg.ackno, seg.win) ELSE @],
             seg)

-----------------------------------------------------------------------------
\* _time_since_last_segment_received is only compared with the linger time, and
\* saturates there.
ConnTick(c, ms) ==
  LET ticked == [c EXCEPT !.sinceLast = Lesser(@ + ms, LingerTime),
                          !.sender = SenderTick(@, ms)]
      sent   == AddAcknoAndWindow(ticked)
      done   == /\ sent.linger
                /\ Summary(sent) = <<"FIN_RECV", "FIN_ACKED">>
                /\ sent.sinceLast >= LingerTime
  IN  IF ticked.sender.retx > MaxRetxAttempts
      THEN SetRstState([ticked EXCEPT !.sender.segmentsOut = <<>>], TRUE)
      ELSE [sent EXCEPT !.active = @ /\ ~done, !.linger = @ /\ ~done]
=============================================================================
