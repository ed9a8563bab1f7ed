------------------------- MODULE StreamReassembler --------------------------
(***************************************************************************)
(* The stream reassembler (libsponge/stream_reassembler.cc): substrings in *)
(* any order go into a ring of capacity slots, and the contiguous run at   *)
(* _cur_index is moved to the output ByteStream.                           *)
(***************************************************************************)
EXTENDS WrappingIntegers, ByteStream

Slot == [byte: Byte, full: BOOLEAN]
EmptySlot == [byte |-> 0, full |-> FALSE]

ReassemblerState(capacity) ==
  [output: ByteStreamState, slots: [0..(capacity - 1) -> Slot],
   cur: Nat, eofIndex: Nat, unassembled: Int, thrown: BOOLEAN]

NewReassembler(capacity) ==
  [output |-> NewStream(capacity), slots |-> [k \in 0..(capacity - 1) |-> EmptySlot],
   cur |-> 0, eofIndex |-> SizeMax, unassembled |-> 0, thrown |-> FALSE]

-----------------------------------------------------------------------------
\* The loop that stores data, which starts at stream index `index`, in the slots of
\* i..ed-1; a byte that differs from the one already held throws.
StoreRound(capacity, data, index, ed) ==
  [x \in [r: ReassemblerState(capacity), i: Nat] |->
     LET k    == x.i % capacity
         byte == data[x.i - index + 1]
     IN  IF x.i >= ed \/ x.r.thrown THEN x
         ELSE IF ~x.r.slots[k].full
         THEN [r |-> [x.r EXCEPT !.slots[k] = [byte |-> byte, full |-> TRUE],
                                 !.unassembled = @ + 1],
               i |-> x.i + 1]
         ELSE [r |-> [x.r EXCEPT !.thrown = (x.r.slots[k].byte # byte)], i |-> x.i + 1]]

Store(r, data, index, st, ed) ==
  Orbit(StoreRound(r.output.capacity, data, index, ed), [r |-> r, i |-> st])[Len(data)].r

\* Faulty variant of TakeRound: leaves the slot marked full.
TakeLeavesSlot(capacity) ==
  [x \in [r: ReassemblerState(capacity), str: Seq(Byte)] |->
     LET k == x.r.cur % capacity
     IN  IF x.r.cur < x.r.eofIndex /\ x.r.slots[k].full
         THEN [r |-> [x.r EXCEPT !.unassembled = @ - 1, !.cur = @ + 1],
               str |-> Append(x.str, x.r.slots[k].byte)]
         ELSE x]

\* The loop that takes the contiguous run at _cur_index out of the ring.
TakeRound(capacity) ==
  [x \in [r: ReassemblerState(capacity), str: Seq(Byte)] |->
     LET k == x.r.cur % capacity
     IN  IF x.r.cur < x.r.eofIndex /\ x.r.slots[k].full
         THEN [r |-> [x.r EXCEPT !.slots[k] = EmptySlot, !.unassembled = @ - 1, !.cur = @ + 1],
               str |-> Append(x.str, x.r.slots[k].byte)]
         ELSE x]

\* A round empties a slot, so there are at most capacity of them.
Take(r) == Orbit(TakeRound(r.output.capacity), [r |-> r, str |-> <<>>])[r.output.capacity]

\* Faulty variant of WriteOut: ends the stream as soon as its end is known.
WriteOutEndsAtOnce(capacity) ==
  [x \in [r: ReassemblerState(capacity), str: Seq(Byte)] |->
     LET out == StreamWrite(x.r.output, x.str)
     IN  [x.r EXCEPT !.output = IF x.r.eofIndex # SizeMax THEN EndInput(out) ELSE out]]

\* Faulty variant of WriteOut: ends the stream only together with data.
WriteOutEndsWithData(capacity) ==
  [x \in [r: ReassemblerState(capacity), str: Seq(Byte)] |->
     LET out == StreamWrite(x.r.output, x.str)
     IN  [x.r EXCEPT !.output =
            IF x.str # <<>> /\ x.r.cur = x.r.eofIndex THEN EndInput(out) ELSE out]]

\* What was taken goes to the output, which ends when the whole stream is there.
WriteOut(capacity) ==
  [x \in [r: ReassemblerState(capacity), str: Seq(Byte)] |->
     LET out == StreamWrite(x.r.output, x.str)
     IN  [x.r EXCEPT !.output = IF x.r.cur = x.r.eofIndex THEN EndInput(out) ELSE out]]

\* An exception leaves segment_received and ends the TCP thread: thrown marks the
\* object that nobody uses any more.
PushSubstring(r, data, index, eof) ==
  LET past   == (index + Len(data)) % Mod64
      st     == Larger(index, r.cur)
      ed     == Lesser(past, Lesser(r.cur + RemainingCapacity(r.output), r.eofIndex))
      badEof == eof /\ r.eofIndex # SizeMax /\ r.eofIndex # past
      marked == [r EXCEPT !.eofIndex = IF eof THEN past ELSE @]
      stored == Store(marked, data, index, st, ed)
  IN  IF badEof THEN [r EXCEPT !.thrown = TRUE]
      ELSE IF stored.thrown THEN stored
      ELSE WriteOut(r.output.capacity)[Take(stored)]
=============================================================================
