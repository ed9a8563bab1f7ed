------------------------- MODULE ByteStreamBuffers --------------------------
(***************************************************************************)
(* The ByteStream as byte_stream.cc stores it: a deque of Buffers, one per *)
(* write, from which peek_output and pop_output take bytes across Buffer   *)
(* boundaries.  A Buffer (util/buffer.cc) is the bytes it still holds.     *)
(***************************************************************************)
EXTENDS ByteStream, SequencesExt

CONSTANTS Capacity,    \* the constructor's argument
          MaxWritten,  \* bound: bytes ever written
          MaxBuffers   \* bound: Buffers in the deque when a write is made

ASSUME BuffersAssumption ==
  Capacity \in Nat /\ MaxWritten \in Nat /\ MaxBuffers \in Nat

VARIABLE stream

Numbered(first, n) == [i \in 1..n |-> first + i - 1]

Init ==
  stream = [buffers |-> <<>>, capacity |-> Capacity, written |-> 0, read |-> 0,
            ended |-> FALSE, error |-> FALSE]

\* write: a Buffer is pushed even when nothing fits in it.
Write(n) ==
  LET ret == Lesser(n, RemainingCapacity(stream))
  IN  /\ stream.written + n <= MaxWritten
      /\ Len(stream.buffers) < MaxBuffers
      /\ stream' = [stream EXCEPT !.buffers = Append(@, Numbered(stream.written + 1, ret)),
                                  !.written = @ + ret]

Buffers == Seq(Seq(Byte))

\* Faulty variant of PeekRound: does not count down what it has copied.
PeekWithoutCount ==
  [x \in [n: Nat, q: Buffers, ret: Seq(Byte)] |->
     IF x.q = <<>> THEN x
     ELSE IF x.n >= Len(Head(x.q))
     THEN [n |-> x.n, q |-> Tail(x.q), ret |-> x.ret \o Head(x.q)]
     ELSE [n |-> x.n, q |-> <<>>, ret |-> x.ret \o SubSeq(Head(x.q), 1, x.n)]]

\* peek_output's loop: whole Buffers while they fit in what is left of len, then a prefix
\* of one and the break, after which none is left to visit.
PeekRound ==
  [x \in [n: Nat, q: Buffers, ret: Seq(Byte)] |->
     IF x.q = <<>> THEN x
     ELSE IF x.n >= Len(Head(x.q))
     THEN [n |-> x.n - Len(Head(x.q)), q |-> Tail(x.q), ret |-> x.ret \o Head(x.q)]
     ELSE [n |-> x.n, q |-> <<>>, ret |-> x.ret \o SubSeq(Head(x.q), 1, x.n)]]

Peek(len) ==
  Orbit(PeekRound, [n |-> Lesser(len, BufferSize(stream)), q |-> stream.buffers,
                    ret |-> <<>>])[Len(stream.buffers)].ret

\* Faulty variant of PopRound: drops a Buffer it should only cut.
PopWholeBuffer ==
  [x \in [n: Nat, q: Buffers] |->
     IF x.n = 0 THEN x
     ELSE [n |-> Larger(x.n - Len(Head(x.q)), 0), q |-> Tail(x.q)]]

\* pop_output's loop: drop whole Buffers, then the prefix of one.
PopRound ==
  [x \in [n: Nat, q: Buffers] |->
     IF x.n = 0 THEN x
     ELSE IF x.n >= Len(Head(x.q))
     THEN [n |-> x.n - Len(Head(x.q)), q |-> Tail(x.q)]
     ELSE [n |-> 0, q |-> <<SubSeq(Head(x.q), x.n + 1, Len(Head(x.q)))>> \o Tail(x.q)]]

Pop(len) ==
  LET n == Lesser(len, BufferSize(stream))
  IN  stream' = [stream EXCEPT !.read = @ + n,
                               !.buffers = Orbit(PopRound, [n |-> n, q |-> @])[Len(@)].q]

End == stream' = [stream EXCEPT !.ended = TRUE]
Fail == stream' = [stream EXCEPT !.error = TRUE]

Next ==
  \/ \E n \in 0..MaxWritten : Write(n)
  \/ \E n \in 0..(Capacity + 1) : Pop(n)
  \/ End
  \/ Fail

Spec == Init /\ [][Next]_stream

-----------------------------------------------------------------------------
\* The stream with the contents of its Buffers run together.
Flat ==
  [data |-> FlattenSeq(stream.buffers), capacity |-> stream.capacity,
   written |-> stream.written, read |-> stream.read,
   ended |-> stream.ended, error |-> stream.error]

Abstract == INSTANCE ByteStreamSpec WITH b <- Flat

\* The deque implements the bounded byte queue: each call on it is the same call on the
\* flat stream, however writes and reads cut the bytes into Buffers.  The queue is the one
\* byte_stream.hh describes but for LateWrite: a write after end_input() is not refused.
ImplementsQueue == Abstract!Spec

\* peek_output returns the next bytes of the stream, across empty and cut Buffers.
PeekAgrees == \A len \in 0..(Capacity + 1) : Peek(len) = PeekOutput(Flat, len)
=============================================================================
