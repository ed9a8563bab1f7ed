----------------------------- MODULE ByteStream -----------------------------
(***************************************************************************)
(* The bounded byte stream (libsponge/byte_stream.cc) as the rest of the   *)
(* stack sees it: one operator per method, over a record that holds the    *)
(* unread bytes as one sequence.  ByteStreamBuffers keeps the deque of     *)
(* Buffers the code stores them in and is shown to implement this one.     *)
(***************************************************************************)
EXTENDS Basics, Sequences

Byte == Nat

\* The unread bytes are the ones written and not yet read, within the capacity.
ByteStreamState ==
  {b \in [data: Seq(Byte), capacity: Nat, written: Nat, read: Nat,
          ended: BOOLEAN, error: BOOLEAN] :
     /\ b.read <= b.written /\ b.written - b.read <= b.capacity
     /\ Len(b.data) = b.written - b.read}

NewStream(capacity) ==
  [data |-> <<>>, capacity |-> capacity, written |-> 0, read |-> 0,
   ended |-> FALSE, error |-> FALSE]

BufferSize(b) == b.written - b.read

RemainingCapacity(b) == b.capacity - BufferSize(b)

\* Faulty variant of Eof: at the end although bytes are still buffered.
EofWhileBuffered(b) == b.ended
Eof(b) == b.ended /\ BufferSize(b) = 0

\* What of data fits; the rest is dropped silently.
StreamWrite(b, data) ==
  LET n == Lesser(Len(data), RemainingCapacity(b))
  IN  [b EXCEPT !.data = @ \o SubSeq(data, 1, n), !.written = @ + n]

PeekOutput(b, len) == SubSeq(b.data, 1, Lesser(len, BufferSize(b)))

PopOutput(b, len) ==
  LET n == Lesser(len, BufferSize(b))
  IN  [b EXCEPT !.data = SubSeq(@, n + 1, Len(@)), !.read = @ + n]

EndInput(b) == [b EXCEPT !.ended = TRUE]
SetError(b) == [b EXCEPT !.error = TRUE]
=============================================================================
