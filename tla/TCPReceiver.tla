---------------------------- MODULE TCPReceiver -----------------------------
(***************************************************************************)
(* The receiving half of a TCP endpoint (libsponge/tcp_receiver.cc): finds *)
(* the stream index of a segment, feeds the reassembler, and computes the  *)
(* ackno and the window to advertise.                                      *)
(***************************************************************************)
EXTENDS TCPSegment, StreamReassembler

\* _isn is an optional: hasIsn tells whether it holds a value.
NewReceiver(capacity) ==
  [hasIsn |-> FALSE, isn |-> 0, reassembler |-> NewReassembler(capacity)]

StreamOut(r) == r.reassembler.output

\* Segments before the SYN are dropped.  stream_index is a uint64_t.
ReceiveSegment(r, seg) ==
  LET isn    == IF r.hasIsn THEN r.isn ELSE seg.seqno
      absSeq == Unwrap(seg.seqno, isn, StreamOut(r).written)
      index  == (absSeq - 1 + BoolToNat(seg.syn)) % Mod64
  IN  IF ~r.hasIsn /\ ~seg.syn THEN r
      ELSE [r EXCEPT !.hasIsn = TRUE, !.isn = isn,
                     !.reassembler = PushSubstring(@, seg.payload, index, seg.fin)]

AbsoluteAckno(r) == StreamOut(r).written + 1 + BoolToNat(StreamOut(r).ended)

\* ackno().value(), meaningful when hasIsn.
Ackno(r) == Wrap(AbsoluteAckno(r), r.isn)

\* Faulty variant of WindowSize: also subtracts what waits to be assembled.
WindowWithoutUnassembled(r) == RemainingCapacity(StreamOut(r)) - r.reassembler.unassembled

WindowSize(r) == RemainingCapacity(StreamOut(r))
=============================================================================
