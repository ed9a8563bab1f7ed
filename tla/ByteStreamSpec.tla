--------------------------- MODULE ByteStreamSpec ---------------------------
(***************************************************************************)
(* What a ByteStream promises its writer and its reader: a bounded queue   *)
(* of bytes, to which nothing is added once its input has ended.  The      *)
(* writer writes byte number written + 1, written + 2, ...                 *)
(***************************************************************************)
EXTENDS ByteStream

CONSTANTS Capacity,    \* the constructor's argument
          MaxWritten   \* bound: bytes ever written

VARIABLE b

Numbered(first, n) == [i \in 1..n |-> first + i - 1]

Init == b = NewStream(Capacity)

Accept(n) ==
  /\ b.written + n <= MaxWritten
  /\ b' = StreamWrite(b, Numbered(b.written + 1, n))

\* "The writer can end the input, and then no more bytes can be written" (byte_stream.hh).
Write(n) == ~b.ended /\ Accept(n)

Pop(n) == b' = PopOutput(b, n)
End == b' = EndInput(b)
Fail == b' = SetError(b)

Next ==
  \/ \E n \in 0..MaxWritten : Write(n)
  \/ \E n \in 0..(Capacity + 1) : Pop(n)
  \/ End
  \/ Fail

\* The one call on which write() falls short of this: it does not look at the end of the
\* input, and takes what fits as before.
LateWrite(n) == b.ended /\ Accept(n)

Spec == Init /\ [][Next \/ \E n \in 0..MaxWritten : LateWrite(n)]_b
=============================================================================
