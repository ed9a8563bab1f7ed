----------------------------- MODULE TCPSegment -----------------------------
(***************************************************************************)
(* A TCP segment (libsponge/tcp_helpers/tcp_segment.cc, tcp_header.hh):    *)
(* the header fields the stack reads or writes, and the payload bytes.     *)
(***************************************************************************)
EXTENDS WrappingIntegers, ByteStream

Segment ==
  [seqno: Seqno, syn: BOOLEAN, fin: BOOLEAN, rst: BOOLEAN,
   ack: BOOLEAN, ackno: Seqno, win: Nat, payload: Seq(Byte)]

BoolToNat(b) == IF b THEN 1 ELSE 0

\* A default-constructed segment that carries a sequence number.
EmptySegment(seqno) ==
  [seqno |-> seqno, syn |-> FALSE, fin |-> FALSE, rst |-> FALSE,
   ack |-> FALSE, ackno |-> 0, win |-> 0, payload |-> <<>>]

LengthInSequenceSpace(seg) ==
  Len(seg.payload) + BoolToNat(seg.syn) + BoolToNat(seg.fin)
=============================================================================
