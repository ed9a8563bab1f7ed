------------------------ MODULE ReassemblerProofs ---------------------------
(***************************************************************************)
(* What push_substring of the StreamReassembler does for every capacity    *)
(* and stream: the substrings are cut from the stream the peer sends, in   *)
(* any order, any number of times.                                         *)
(*                                                                         *)
(* RingOK is the inductive invariant of the reassembler.  It ties a slot   *)
(* of the ring to the one index of [_cur_index, _cur_index + capacity) it  *)
(* stands for, and bounds the full slots by the window.  The two loops of  *)
(* push_substring keep RingCore, its part that holds between the rounds.   *)
(***************************************************************************)
EXTENDS TCPReceiverSpec, WrappingIntegersProofs, BasicsTheorems, SequenceTheorems,
        FiniteSetTheorems

-----------------------------------------------------------------------------
(* The ring *)

SlotOf(r, i) == r.slots[i % RecvCapacity]
FullSlots(r) == {k \in 0..(RecvCapacity - 1) : r.slots[k].full}
InWindow(r, i) == i < r.output.read + RecvCapacity

RingCore(r) ==
  /\ r \in ReassemblerState(RecvCapacity) /\ r.output.capacity = RecvCapacity /\ ~r.thrown
  /\ r.eofIndex \in {Total, SizeMax}
  /\ r.output.written <= r.cur /\ r.cur <= Total /\ r.cur <= r.output.read + RecvCapacity
  /\ \A i \in r.cur..(r.cur + RecvCapacity - 1) :
       SlotOf(r, i).full => SlotOf(r, i).byte = i + 1 /\ i < Total /\ InWindow(r, i)
  /\ r.unassembled = Cardinality(FullSlots(r))

\* Two indexes less than the capacity apart have different slots.
LEMMA SlotsDistinct ==
  ASSUME NEW i \in Nat, NEW j \in Nat, i % RecvCapacity = j % RecvCapacity,
         i < j + RecvCapacity, j < i + RecvCapacity
  PROVE  i = j
<1>1. RecvCapacity \in Nat /\ RecvCapacity > 0 /\ i \in Int /\ j \in Int
  BY ReceiverAssumption
<1>2. i = j \/ i + RecvCapacity <= j \/ j + RecvCapacity <= i
  BY <1>1, SameRemainder, Zenon
<1> QED BY <1>1, <1>2

\* Every slot stands for an index of the window.
LEMMA SlotExists ==
  ASSUME NEW base \in Nat, NEW k \in 0..(RecvCapacity - 1)
  PROVE  \E i \in base..(base + RecvCapacity - 1) : i % RecvCapacity = k
<1> DEFINE C == RecvCapacity
           d == (k - base) % C
           e == (k - base) \div C
           i == base + d
<1>1. C \in Nat /\ C > 0
  BY ReceiverAssumption
<1> HIDE DEF C
<1>2. k - base \in Int /\ k \in 0..(C - 1)
  BY <1>1 DEF C
<1>3. d \in 0..(C - 1) /\ e \in Int /\ k - base = (C * e) + d
  BY <1>1, <1>2, DivMod
<1> HIDE DEF d, e
<1> DEFINE f == 0 - e
<1>4. C * f = 0 - C * e /\ C * e \in Int /\ f \in Int
  BY <1>1, <1>3
<1> HIDE DEF f
<1>5. i \in Int /\ i = C * f + k
  BY <1>1, <1>2, <1>3, <1>4
<1>6. i \in base..(base + C - 1)
  BY <1>1, <1>3
<1> HIDE DEF i
<1>7. i % C = k /\ i \div C = f
  BY <1>1, <1>2, <1>4, <1>5, ModUnique
<1> QED BY <1>6, <1>7 DEF C

\* The slot of an index is a slot of the ring.
LEMMA SlotInRing ==
  ASSUME NEW i \in Nat
  PROVE  i % RecvCapacity \in 0..(RecvCapacity - 1)
BY DivMod, ReceiverAssumption

\* The full slots are finitely many.
LEMMA FullSlotsFinite ==
  ASSUME NEW r
  PROVE  IsFiniteSet(FullSlots(r)) /\ Cardinality(FullSlots(r)) \in Nat
<1>1. IsFiniteSet(0..(RecvCapacity - 1))
  BY FS_Interval, ReceiverAssumption
<1>2. FullSlots(r) \subseteq 0..(RecvCapacity - 1)
  BY DEF FullSlots
<1> QED BY <1>1, <1>2, FS_Subset, FS_CardinalityType, Zenon

\* Filling an empty slot of the window with the byte of its index keeps the ring.
LEMMA FillStep ==
  ASSUME NEW r, RingCore(r), NEW i \in r.cur..(r.cur + RecvCapacity - 1),
         i < Total, InWindow(r, i), ~SlotOf(r, i).full
  PROVE  LET n == [r EXCEPT !.slots[i % RecvCapacity] = [byte |-> i + 1, full |-> TRUE],
                            !.unassembled = @ + 1]
         IN  /\ RingCore(n) /\ n.output = r.output /\ n.cur = r.cur /\ n.eofIndex = r.eofIndex
             /\ \A j \in r.cur..(r.cur + RecvCapacity - 1) :
                  SlotOf(n, j).full <=> SlotOf(r, j).full \/ j = i
<1> DEFINE C == RecvCapacity
           k == i % C
           s == [byte |-> i + 1, full |-> TRUE]
           n == [r EXCEPT !.slots[k] = s, !.unassembled = @ + 1]
<1>0. /\ C \in Nat /\ C > 0 /\ r.cur \in Nat /\ i \in Nat /\ r \in ReassemblerState(C)
      /\ r.unassembled \in Int
  BY ReceiverAssumption DEF RingCore, ReassemblerState
<1>1. k \in 0..(C - 1)
  BY <1>0, SlotInRing
<1>2. s \in Slot /\ s.full /\ s.byte = i + 1
  BY <1>0 DEF Slot, Byte
<1> HIDE DEF s, k
<1>3. /\ n \in ReassemblerState(C) /\ n.output = r.output /\ n.cur = r.cur
      /\ n.eofIndex = r.eofIndex /\ n.thrown = r.thrown
      /\ n.unassembled = r.unassembled + 1
      /\ n.slots = [r.slots EXCEPT ![k] = s]
  <2> DEFINE f == [r.slots EXCEPT ![k] = s]
             u == r.unassembled + 1
             m == [r EXCEPT !.slots = f, !.unassembled = u]
  <2>1. f \in [0..(C - 1) -> Slot]
    BY <1>0, <1>1, <1>2 DEF ReassemblerState
  <2>2. n = m
    BY Zenon
  <2>3. u \in Int
    BY <1>0
  <2> HIDE DEF f, n, u
  <2>4. /\ m \in ReassemblerState(C) /\ m.output = r.output /\ m.cur = r.cur
        /\ m.eofIndex = r.eofIndex /\ m.thrown = r.thrown
        /\ m.unassembled = u /\ m.slots = f
    BY <1>0, <2>1, <2>3, Zenon DEF ReassemblerState
  <2> QED BY <2>2, <2>4 DEF f, u
<1> HIDE DEF n
<1>4. n.slots[k] = s /\ \A m \in 0..(C - 1) : m # k => n.slots[m] = r.slots[m]
  BY <1>0, <1>1, <1>3 DEF ReassemblerState
<1>5. SlotOf(n, i) = s
  BY <1>4 DEF SlotOf, k
<1>6. ASSUME NEW j \in r.cur..(r.cur + C - 1), j # i PROVE SlotOf(n, j) = SlotOf(r, j)
  <2>1. j \in Nat /\ i < j + C /\ j < i + C
    BY <1>0, <1>6
  <2>2. j % C # k
    BY <2>1, <1>0, <1>6, SlotsDistinct DEF k
  <2>3. j % C \in 0..(C - 1)
    BY <2>1, SlotInRing
  <2> QED BY <2>2, <2>3, <1>4 DEF SlotOf
<1>7. n.unassembled = Cardinality(FullSlots(n))
  <2>1. FullSlots(n) = FullSlots(r) \cup {k} /\ k \notin FullSlots(r)
    BY <1>1, <1>2, <1>4 DEF FullSlots, SlotOf, k
  <2>2. Cardinality(FullSlots(r) \cup {k}) = Cardinality(FullSlots(r)) + 1
    BY <2>1, FullSlotsFinite, FS_AddElement, Zenon
  <2> QED BY <2>1, <2>2, <1>3 DEF RingCore
<1>8. RingCore(n)
  BY <1>2, <1>3, <1>5, <1>6, <1>7 DEF RingCore, InWindow
<1>9. \A j \in r.cur..(r.cur + C - 1) : SlotOf(n, j).full <=> SlotOf(r, j).full \/ j = i
  BY <1>2, <1>5, <1>6
<1> QED BY <1>3, <1>8, <1>9 DEF n, s, k

\* Emptying the slot at _cur_index and moving on keeps the ring: the slot now stands for
\* the index one capacity further, which is not there yet.
LEMMA EmptyStep ==
  ASSUME NEW r, RingCore(r), SlotOf(r, r.cur).full
  PROVE  LET n == [r EXCEPT !.slots[r.cur % RecvCapacity] = EmptySlot,
                            !.unassembled = @ - 1, !.cur = @ + 1]
         IN  /\ RingCore(n) /\ n.output = r.output /\ n.cur = r.cur + 1
             /\ n.eofIndex = r.eofIndex
             /\ ~SlotOf(n, r.cur + RecvCapacity).full
             /\ \A j \in (r.cur + 1)..(r.cur + RecvCapacity - 1) : SlotOf(n, j) = SlotOf(r, j)
<1> DEFINE C == RecvCapacity
           k == r.cur % C
           s == EmptySlot
           n == [r EXCEPT !.slots[k] = s, !.unassembled = @ - 1, !.cur = @ + 1]
<1>0. C \in Nat /\ C > 0 /\ r.cur \in Nat /\ r \in ReassemblerState(C) /\ r.unassembled \in Int
  BY ReceiverAssumption DEF RingCore, ReassemblerState
<1>1. k \in 0..(C - 1)
  BY <1>0, SlotInRing
<1>2. s \in Slot /\ ~s.full
  BY <1>0 DEF Slot, Byte, EmptySlot
<1> HIDE DEF s, k
<1>3. /\ n \in ReassemblerState(C) /\ n.output = r.output /\ n.cur = r.cur + 1
      /\ n.eofIndex = r.eofIndex /\ n.thrown = r.thrown
      /\ n.unassembled = r.unassembled - 1
      /\ n.slots = [r.slots EXCEPT ![k] = s]
  <2> DEFINE f == [r.slots EXCEPT ![k] = s]
             u == r.unassembled - 1
             c == r.cur + 1
             m == [r EXCEPT !.slots = f, !.unassembled = u, !.cur = c]
  <2>1. f \in [0..(C - 1) -> Slot]
    BY <1>0, <1>1, <1>2 DEF ReassemblerState
  <2>2. n = m
    BY Zenon
  <2>3. u \in Int /\ c \in Nat
    BY <1>0
  <2> HIDE DEF f, n, u, c
  <2>4. /\ m \in ReassemblerState(C) /\ m.output = r.output /\ m.cur = c
        /\ m.eofIndex = r.eofIndex /\ m.thrown = r.thrown
        /\ m.unassembled = u /\ m.slots = f
    BY <1>0, <2>1, <2>3, Zenon DEF ReassemblerState
  <2> QED BY <2>2, <2>4 DEF f, u, c
<1> HIDE DEF n
<1>4. n.slots[k] = s /\ \A m \in 0..(C - 1) : m # k => n.slots[m] = r.slots[m]
  BY <1>0, <1>1, <1>3 DEF ReassemblerState
<1>5. SlotOf(n, r.cur + C) = s
  <2>1. (r.cur + C) % C = k
    <3>1. r.cur \in Int
      BY <1>0
    <3> QED BY <1>0, <3>1, ModShift, Zenon DEF k
  <2> QED BY <1>4, <2>1 DEF SlotOf
<1>6. ASSUME NEW j \in (r.cur + 1)..(r.cur + C - 1) PROVE SlotOf(n, j) = SlotOf(r, j)
  <2>1. j \in Nat /\ r.cur < j + C /\ j < r.cur + C /\ j # r.cur
    BY <1>0, <1>6
  <2>2. j % C # k
    BY <2>1, <1>0, SlotsDistinct DEF k
  <2>3. j % C \in 0..(C - 1)
    BY <2>1, SlotInRing
  <2> QED BY <2>2, <2>3, <1>4 DEF SlotOf
<1>7. n.unassembled = Cardinality(FullSlots(n))
  <2>1. FullSlots(n) = FullSlots(r) \ {k} /\ k \in FullSlots(r)
    BY <1>1, <1>2, <1>4 DEF FullSlots, SlotOf, k
  <2>2. Cardinality(FullSlots(r) \ {k}) = Cardinality(FullSlots(r)) - 1
    BY <2>1, FullSlotsFinite, FS_RemoveElement, Zenon
  <2> QED BY <2>1, <2>2, <1>3 DEF RingCore
<1>8. r.cur < Total /\ r.cur < r.output.read + C
  <2>1. r.cur \in r.cur..(r.cur + C - 1)
    BY <1>0
  <2> QED BY <2>1 DEF RingCore, InWindow
<1>9. \A i \in n.cur..(n.cur + C - 1) :
        SlotOf(n, i).full => SlotOf(n, i).byte = i + 1 /\ i < Total /\ InWindow(n, i)
  <2> SUFFICES ASSUME NEW i \in n.cur..(n.cur + C - 1), SlotOf(n, i).full
               PROVE  SlotOf(n, i).byte = i + 1 /\ i < Total /\ InWindow(n, i)
    OBVIOUS
  <2>1. i \in (r.cur + 1)..(r.cur + C - 1) \/ i = r.cur + C
    BY <1>0, <1>3
  <2>2. i # r.cur + C
    BY <1>2, <1>5
  <2>3. SlotOf(n, i) = SlotOf(r, i) /\ i \in r.cur..(r.cur + C - 1)
    BY <2>1, <2>2, <1>0, <1>6
  <2> QED BY <2>3, <1>3 DEF RingCore, InWindow
<1>10. r.output \in ByteStreamState
  BY <1>0 DEF ReassemblerState
<1>11. RingCore(n)
  <2>1. r.output.read \in Nat /\ r.output.written \in Nat
    BY <1>10 DEF ByteStreamState
  <2>2. n.cur <= Total /\ n.cur <= r.output.read + C
    BY <1>0, <1>3, <1>8, <2>1, ReceiverAssumption
  <2>3. r.output.written <= n.cur
    BY <1>0, <1>3, <2>1 DEF RingCore
  <2> QED BY <2>2, <2>3, <1>3, <1>7, <1>9 DEF RingCore
<1> QED BY <1>2, <1>3, <1>5, <1>6, <1>11 DEF n, s, k

\* The full slots stand for different indexes of the window, so they fit in it.
LEMMA WindowBound ==
  ASSUME NEW r, RingCore(r)
  PROVE  Cardinality(FullSlots(r)) <= (r.output.read + RecvCapacity) - r.cur
<1> DEFINE C == RecvCapacity
           S == FullSlots(r)
           q == r.output.read
           T == (r.cur)..(q + C - 1)
           W == r.cur..(r.cur + C - 1)
           f == [k \in S |-> CHOOSE i \in W : i % C = k]
<1>0. C \in Nat /\ C > 0 /\ r.cur \in Nat /\ q \in Nat /\ r.cur <= q + C
  BY ReceiverAssumption DEF RingCore, ReassemblerState, ByteStreamState
<1>1. \A k \in S : f[k] \in W /\ f[k] % C = k
  <2> SUFFICES ASSUME NEW k \in S PROVE f[k] \in W /\ f[k] % C = k
    OBVIOUS
  <2>1. k \in 0..(C - 1)
    BY DEF FullSlots
  <2>2. \E i \in W : i % C = k
    BY <1>0, <2>1, SlotExists, Zenon
  <2>3. f[k] = CHOOSE i \in W : i % C = k
    OBVIOUS
  <2> HIDE DEF f, W
  <2> QED BY <2>2, <2>3, Zenon
<1> HIDE DEF f
<1>2. \A k \in S : f[k] \in T
  <2> SUFFICES ASSUME NEW k \in S PROVE f[k] \in T
    OBVIOUS
  <2>1. SlotOf(r, f[k]).full
    BY <1>1 DEF SlotOf, FullSlots
  <2>2. InWindow(r, f[k])
    BY <1>1, <2>1 DEF RingCore
  <2>3. f[k] \in W
    BY <1>1
  <2> QED BY <1>0, <2>2, <2>3 DEF InWindow
<1>3. f \in [S -> T]
  <2>1. f = [k \in S |-> f[k]]
    BY DEF f
  <2> HIDE DEF S, T
  <2> QED BY <1>2, <2>1
<1>4. IsFiniteSet(T) /\ Cardinality(T) = (q + C) - r.cur
  <2> DEFINE a == r.cur
             b == q + C - 1
  <2>1. a \in Int /\ b \in Int
    BY <1>0
  <2>2. IsFiniteSet(a..b) /\ Cardinality(a..b) = IF a > b THEN 0 ELSE b - a + 1
    <3> HIDE DEF a, b
    <3> QED BY <2>1, FS_Interval
  <2>3. (IF a > b THEN 0 ELSE b - a + 1) = (q + C) - r.cur
    BY <1>0
  <2> QED BY <2>2, <2>3
<1>5. IsFiniteSet(S) /\ Cardinality(S) \in Nat
  BY FullSlotsFinite
<1>6. ~(Cardinality(T) < Cardinality(S))
  <2> SUFFICES ASSUME Cardinality(T) < Cardinality(S) PROVE FALSE
    OBVIOUS
  <2> HIDE DEF S, T
  <2>1. \E x, y \in S : x # y /\ f[x] = f[y]
    BY <1>3, <1>4, <1>5, FS_PigeonHole
  <2> QED BY <1>1, <2>1, Zenon
<1> HIDE DEF S, T
<1>7. Cardinality(S) <= (q + C) - r.cur
  BY <1>0, <1>4, <1>5, <1>6
<1> QED BY <1>7 DEF S

-----------------------------------------------------------------------------
(* The loop that stores *)

\* What the data of a substring must be: the bytes of the peer's stream at its place.
StreamData(data, index) ==
  /\ data \in Seq(Nat) /\ index \in Nat
  /\ \A j \in 1..Len(data) : data[j] = index + j

\* The states of the loop over i, which started from r0 at st.
Storing(r0, st, ed) ==
  {x \in [r: ReassemblerState(RecvCapacity), i: Nat] :
     /\ RingCore(x.r) /\ x.r.output = r0.output /\ x.r.cur = r0.cur
     /\ x.r.eofIndex = r0.eofIndex
     /\ x.i >= st /\ (x.i > st => x.i <= ed)
     /\ \A j \in r0.cur..(r0.cur + RecvCapacity - 1) :
          SlotOf(x.r, j).full <=> SlotOf(r0, j).full \/ j \in st..(x.i - 1)}

\* A round stores the byte at i, or finds it there already: it never throws.
LEMMA StoreRoundEffect ==
  ASSUME NEW r0, RingCore(r0), NEW data, NEW index, StreamData(data, index),
         NEW st \in Nat, NEW ed \in Int, index <= st, r0.cur <= st,
         ed <= index + Len(data), ed <= Total, ed <= r0.output.read + RecvCapacity,
         ed <= r0.cur + RecvCapacity,
         NEW x \in Storing(r0, st, ed)
  PROVE  LET y == StoreRound(RecvCapacity, data, index, ed)[x]
         IN  y \in Storing(r0, st, ed) /\ (x.i >= ed => y = x) /\ (x.i < ed => y.i = x.i + 1)
<1> DEFINE C == RecvCapacity
           D == [r: ReassemblerState(C), i: Nat]
           k == x.i % C
           byte == data[x.i - index + 1]
           y == StoreRound(C, data, index, ed)[x]
           filled == [x.r EXCEPT !.slots[k] = [byte |-> byte, full |-> TRUE],
                                 !.unassembled = @ + 1]
           kept == [x.r EXCEPT !.thrown = (x.r.slots[k].byte # byte)]
<1>0. /\ C \in Nat /\ C > 0 /\ r0.cur \in Nat /\ index \in Nat /\ Len(data) \in Nat
      /\ r0.output.read \in Nat
  BY ReceiverAssumption DEF RingCore, ReassemblerState, ByteStreamState, StreamData
<1> DEFINE G == /\ y \in Storing(r0, st, ed)
               /\ (x.i >= ed => y = x) /\ (x.i < ed => y.i = x.i + 1)
<1>1. /\ x \in D /\ x.i \in Nat /\ RingCore(x.r) /\ ~x.r.thrown /\ x.r \in ReassemblerState(C)
      /\ x.r.output = r0.output /\ x.r.cur = r0.cur /\ x.r.eofIndex = r0.eofIndex
      /\ x.i >= st
  BY DEF Storing, RingCore
<1>2. \A j \in r0.cur..(r0.cur + C - 1) :
        SlotOf(x.r, j).full <=> SlotOf(r0, j).full \/ j \in st..(x.i - 1)
  BY DEF Storing
<1>3. y = IF x.i >= ed \/ x.r.thrown THEN x
          ELSE IF ~x.r.slots[k].full THEN [r |-> filled, i |-> x.i + 1]
          ELSE [r |-> kept, i |-> x.i + 1]
  BY <1>1, Zenon DEF StoreRound
<1> HIDE DEF y, filled, kept
<1>4. ASSUME x.i >= ed PROVE G
  <2>1. y = x /\ ~(x.i < ed)
    BY <1>1, <1>3, <1>4
  <2> QED BY <2>1
<1>5. ASSUME x.i < ed PROVE G
  <2>1. ~(x.i >= ed) /\ x.i < r0.cur + C /\ r0.cur <= x.i /\ x.i < Total
        /\ x.i < r0.output.read + C /\ x.i - index + 1 \in 1..Len(data)
    <3> DEFINE i == x.i
               c == r0.cur
               rd == r0.output.read
               n == Len(data)
    <3>1. /\ i \in Nat /\ c \in Nat /\ rd \in Nat /\ n \in Nat /\ index \in Nat
          /\ st <= i /\ c <= st /\ index <= st /\ i < ed
          /\ ed <= index + n /\ ed <= Total /\ ed <= rd + C /\ ed <= c + C
          /\ C \in Nat /\ Total \in Nat
      BY <1>0, <1>1, <1>5, ReceiverAssumption
    <3> HIDE DEF i, c, rd, n, C
    <3>2. ~(i >= ed) /\ i < c + C /\ c <= i /\ i < Total /\ i < rd + C /\ i - index + 1 \in 1..n
      BY <3>1
    <3> QED BY <3>2 DEF i, c, rd, n, C
  <2>2. x.i \in r0.cur..(r0.cur + C - 1) /\ InWindow(x.r, x.i)
    BY <1>0, <1>1, <2>1 DEF InWindow
  <2>3. byte = x.i + 1
    <3>1. byte = index + (x.i - index + 1)
      BY <2>1, Zenon DEF StreamData
    <3> QED BY <1>0, <1>1, <3>1
  <2> HIDE DEF byte
  <2>4. CASE ~SlotOf(x.r, x.i).full
    <3>1. y = [r |-> filled, i |-> x.i + 1]
      BY <1>1, <1>3, <2>1, <2>4 DEF SlotOf
    <3>2. filled = [x.r EXCEPT !.slots[x.i % RecvCapacity] = [byte |-> x.i + 1, full |-> TRUE],
                               !.unassembled = @ + 1]
      BY <2>3, Zenon DEF filled
    <3>3. x.i \in x.r.cur..(x.r.cur + RecvCapacity - 1)
      BY <1>1, <2>2, Zenon
    <3>4. /\ RingCore(filled) /\ filled.output = x.r.output /\ filled.cur = x.r.cur
          /\ filled.eofIndex = x.r.eofIndex
          /\ \A j \in x.r.cur..(x.r.cur + RecvCapacity - 1) :
               SlotOf(filled, j).full <=> SlotOf(x.r, j).full \/ j = x.i
      BY <1>1, <2>1, <2>2, <2>4, <3>2, <3>3, FillStep, Zenon
    <3>5. \A j \in r0.cur..(r0.cur + C - 1) :
            SlotOf(filled, j).full <=> SlotOf(x.r, j).full \/ j = x.i
      BY <1>1, <3>4, Zenon
    <3>6. \A j \in r0.cur..(r0.cur + C - 1) :
            SlotOf(filled, j).full <=> SlotOf(r0, j).full \/ j \in st..x.i
      <4> SUFFICES ASSUME NEW j \in r0.cur..(r0.cur + C - 1)
                   PROVE  SlotOf(filled, j).full <=> SlotOf(r0, j).full \/ j \in st..x.i
        OBVIOUS
      <4>1. j \in st..x.i <=> j \in st..(x.i - 1) \/ j = x.i
        BY <1>0, <1>1
      <4> QED BY <1>2, <3>5, <4>1, Zenon
    <3>7. filled \in ReassemblerState(C) /\ y.r = filled /\ y.i = x.i + 1
      BY <3>1, <3>4 DEF RingCore
    <3>8. y \in D /\ y.i >= st /\ y.i <= ed /\ y.i - 1 = x.i
      BY <1>1, <1>5, <3>1, <3>7
    <3>9. y \in Storing(r0, st, ed)
      BY <1>1, <3>4, <3>6, <3>7, <3>8 DEF Storing
    <3> QED BY <2>1, <3>7, <3>9
  <2>5. CASE SlotOf(x.r, x.i).full
    <3>1. y = [r |-> kept, i |-> x.i + 1]
      BY <1>1, <1>3, <2>1, <2>5 DEF SlotOf
    <3>2. x.r.slots[k].byte = x.i + 1
      BY <1>1, <2>2, <2>5, Zenon DEF RingCore, SlotOf
    <3>3. kept = [x.r EXCEPT !.thrown = FALSE]
      BY <2>3, <3>2, Zenon DEF kept
    <3>4. kept = x.r
      BY <1>1, <3>3 DEF ReassemblerState
    <3>5. \A j \in r0.cur..(r0.cur + C - 1) :
            SlotOf(x.r, j).full <=> SlotOf(r0, j).full \/ j \in st..x.i
      BY <1>0, <1>1, <1>2, <2>5
    <3>6. y.r = x.r /\ y.i = x.i + 1
      BY <3>1, <3>4
    <3>7. y \in D /\ y.i >= st /\ y.i <= ed /\ y.i - 1 = x.i
      BY <1>1, <1>5, <3>1, <3>4, <3>6
    <3>8. y \in Storing(r0, st, ed)
      BY <1>1, <3>5, <3>6, <3>7 DEF Storing
    <3> QED BY <2>1, <3>6, <3>8
  <2> QED BY <2>4, <2>5
<1>6. G
  BY <1>0, <1>1, <1>4, <1>5
<1> QED BY <1>6 DEF y

\* The loop fills the slots of st..ed-1 and leaves the others alone.
LEMMA StoreEffect ==
  ASSUME NEW r, RingCore(r), NEW data, NEW index, StreamData(data, index),
         NEW st \in Nat, NEW ed \in Int, index <= st, r.cur <= st,
         ed <= index + Len(data), ed <= Total, ed <= r.output.read + RecvCapacity,
         ed <= r.cur + RecvCapacity
  PROVE  LET n == Store(r, data, index, st, ed)
         IN  /\ RingCore(n) /\ n.output = r.output /\ n.cur = r.cur /\ n.eofIndex = r.eofIndex
             /\ \A j \in r.cur..(r.cur + RecvCapacity - 1) :
                  SlotOf(n, j).full <=> SlotOf(r, j).full \/ j \in st..(ed - 1)
<1> DEFINE F == StoreRound(RecvCapacity, data, index, ed)
           I == Storing(r, st, ed)
           x0 == [r |-> r, i |-> st]
           o == Orbit(F, x0)
           N == Len(data)
           z == o[N]
<1>1. N \in Nat /\ index \in Nat /\ r.cur \in Nat
  BY DEF StreamData, RingCore, ReassemblerState
<1>2. x0 \in I
  BY DEF RingCore, Storing
<1>3. \A y \in I : /\ F[y] \in I /\ (y.i >= ed => F[y] = y)
                   /\ (y.i < ed => F[y].i = y.i + 1)
  BY StoreRoundEffect
<1> HIDE DEF F, I, x0
<1>4. o[0] = x0 /\ \A n \in Nat : o[n] \in I /\ o[n + 1] = F[o[n]]
  <2>1. \A y \in I : F[y] \in I
    BY <1>3
  <2>2. /\ Orbit(F, x0)[0] = x0
        /\ \A n \in Nat : /\ Orbit(F, x0)[n] \in I
                          /\ Orbit(F, x0)[n + 1] = F[Orbit(F, x0)[n]]
    BY <1>2, <2>1, OrbitWithin
  <2> QED BY <2>2, Zenon
<1> HIDE DEF o
<1>5. \A y \in I : y.i \in Nat
  BY DEF I, Storing
<1> DEFINE P == {n \in Nat : o[n].i >= ed \/ o[n].i = st + n}
<1>6. Nat \subseteq P
  <2>1. 0 \in P
    <3>1. o[0].i = st
      BY <1>4 DEF x0
    <3> QED BY <3>1
  <2>2. ASSUME NEW n \in Nat, n \in P PROVE n + 1 \in P
    <3>1. o[n] \in I /\ o[n].i \in Nat /\ o[n + 1] = F[o[n]]
      BY <1>4, <1>5, Zenon
    <3>2. CASE o[n].i >= ed
      BY <1>3, <3>1, <3>2
    <3>3. CASE o[n].i < ed
      BY <1>3, <2>2, <3>1, <3>3
    <3> QED BY <3>1, <3>2, <3>3
  <2> HIDE DEF P
  <2> QED BY <2>1, <2>2, Induct
<1>7. z \in I /\ z.i \in Nat /\ z.i >= ed
  <2>1. N \in P
    BY <1>1, <1>6
  <2>2. st + N >= ed
    BY <1>1
  <2> QED BY <1>1, <1>4, <1>5, <2>1, <2>2, Zenon
<1> HIDE DEF z
<1>8. /\ RingCore(z.r) /\ z.r.output = r.output /\ z.r.cur = r.cur /\ z.r.eofIndex = r.eofIndex
      /\ z.i >= st /\ (z.i > st => z.i <= ed)
      /\ \A j \in r.cur..(r.cur + RecvCapacity - 1) :
           SlotOf(z.r, j).full <=> SlotOf(r, j).full \/ j \in st..(z.i - 1)
  BY <1>7 DEF I, Storing
<1>9. \A j \in Nat : j \in st..(z.i - 1) <=> j \in st..(ed - 1)
  BY <1>7, <1>8
<1>10. \A j \in r.cur..(r.cur + RecvCapacity - 1) :
         SlotOf(z.r, j).full <=> SlotOf(r, j).full \/ j \in st..(ed - 1)
  BY <1>1, <1>8, <1>9
<1>11. Store(r, data, index, st, ed) = z.r
  BY DEF Store, RingCore, z, o, F, x0, N
<1> QED BY <1>8, <1>10, <1>11

\* The loop does nothing when its range is empty.
LEMMA StoreNothing ==
  ASSUME NEW r, RingCore(r), NEW data \in Seq(Nat), NEW index, NEW st \in Nat, NEW ed \in Int,
         ed <= st
  PROVE  Store(r, data, index, st, ed) = r
<1> DEFINE F == StoreRound(RecvCapacity, data, index, ed)
           x0 == [r |-> r, i |-> st]
           I == {x0}
           N == Len(data)
<1>1. r \in ReassemblerState(RecvCapacity) /\ r.output.capacity = RecvCapacity /\ N \in Nat
  BY DEF RingCore
<1>2. F[x0] = x0
  <2>1. x0 \in [r: ReassemblerState(RecvCapacity), i: Nat] /\ x0.i >= ed
    BY <1>1
  <2> HIDE DEF x0
  <2> QED BY <2>1, Zenon DEF StoreRound
<1> HIDE DEF F, x0
<1>3. x0 \in I /\ \A y \in I : F[y] \in I
  BY <1>2
<1>4. \A n \in Nat : Orbit(F, x0)[n] \in I
  <2> HIDE DEF I
  <2> QED BY <1>3, OrbitWithin, Zenon
<1>5. Orbit(F, x0)[N] = x0
  BY <1>1, <1>4
<1>6. Store(r, data, index, st, ed) = Orbit(F, x0)[N].r
  BY <1>1 DEF Store, F, x0
<1> QED BY <1>5, <1>6 DEF x0

-----------------------------------------------------------------------------
(* The loop that takes *)

\* Index i has arrived: it is assembled, or in its slot.
Present(r, i) ==
  i < r.cur \/ (i \in r.cur..(r.cur + RecvCapacity - 1) /\ SlotOf(r, i).full)

\* The states of the loop that moves the run at _cur_index from the ring r0 to str.
Taking(r0) ==
  {x \in [r: ReassemblerState(RecvCapacity), str: Seq(Byte)] :
     /\ RingCore(x.r) /\ x.r.output = r0.output /\ x.r.eofIndex = r0.eofIndex
     /\ Len(x.str) = x.r.cur - r0.cur
     /\ \A k \in 1..Len(x.str) : x.str[k] = r0.cur + k
     /\ \A j \in Nat : Present(x.r, j) <=> Present(r0, j)}

\* The bytes of a stream are never at or past the largest index.
LEMMA BelowSizeMax == Total < SizeMax /\ SizeMax \in Nat
BY ReceiverAssumption, ModAssumption DEF SizeMax

\* A round takes the byte at _cur_index if it is there.
LEMMA TakeRoundEffect ==
  ASSUME NEW r0, r0.cur \in Nat, NEW x \in Taking(r0)
  PROVE  LET y == TakeRound(RecvCapacity)[x]
         IN  /\ y \in Taking(r0)
             /\ (~SlotOf(x.r, x.r.cur).full => y = x)
             /\ (SlotOf(x.r, x.r.cur).full => y.r.cur = x.r.cur + 1)
<1> DEFINE C == RecvCapacity
           k == x.r.cur % C
           c == x.r.cur
           n == [x.r EXCEPT !.slots[k] = EmptySlot, !.unassembled = @ - 1, !.cur = @ + 1]
           y == TakeRound(C)[x]
           s == Append(x.str, x.r.slots[k].byte)
           G == /\ y \in Taking(r0)
                /\ (~SlotOf(x.r, x.r.cur).full => y = x)
                /\ (SlotOf(x.r, x.r.cur).full => y.r.cur = x.r.cur + 1)
<1>0. C \in Nat /\ C > 0 /\ Total \in Nat
  BY ReceiverAssumption
<1>1. /\ x \in [r: ReassemblerState(C), str: Seq(Byte)] /\ x.str \in Seq(Byte)
      /\ RingCore(x.r) /\ x.r.output = r0.output /\ x.r.eofIndex = r0.eofIndex
      /\ Len(x.str) = c - r0.cur
      /\ \A m \in 1..Len(x.str) : x.str[m] = r0.cur + m
      /\ \A j \in Nat : Present(x.r, j) <=> Present(r0, j)
  BY DEF Taking
<1>2. c \in Nat /\ x.r \in ReassemblerState(C)
  BY <1>1 DEF RingCore, ReassemblerState
<1>3. y = IF c < x.r.eofIndex /\ x.r.slots[k].full THEN [r |-> n, str |-> s] ELSE x
  BY <1>1, Zenon DEF TakeRound
<1> HIDE DEF y, n, s
<1>4. ASSUME ~SlotOf(x.r, c).full PROVE G
  <2>1. y = x
    BY <1>3, <1>4 DEF SlotOf
  <2> QED BY <1>4, <2>1
<1>5. ASSUME SlotOf(x.r, c).full PROVE G
  <2>1. c \in c..(c + C - 1)
    BY <1>0, <1>2
  <2>2. SlotOf(x.r, c).byte = c + 1 /\ c < Total
    BY <1>1, <1>5, <2>1, Zenon DEF RingCore
  <2>3. c < x.r.eofIndex
    BY <1>0, <1>1, <1>2, <2>2, BelowSizeMax DEF RingCore
  <2>4. y = [r |-> n, str |-> s]
    BY <1>3, <1>5, <2>3 DEF SlotOf
  <2>5. /\ RingCore(n) /\ n.output = x.r.output /\ n.cur = x.r.cur + 1
        /\ n.eofIndex = x.r.eofIndex
        /\ ~SlotOf(n, x.r.cur + RecvCapacity).full
        /\ \A j \in (x.r.cur + 1)..(x.r.cur + RecvCapacity - 1) : SlotOf(n, j) = SlotOf(x.r, j)
    BY <1>1, <1>5, EmptyStep, Zenon DEF n
  <2>6. s = Append(x.str, c + 1) /\ s \in Seq(Byte) /\ Len(s) = (c + 1) - r0.cur
    BY <1>1, <1>2, <2>2 DEF s, SlotOf, Byte
  <2>7. \A m \in 1..Len(s) : s[m] = r0.cur + m
    <3> SUFFICES ASSUME NEW m \in 1..Len(s) PROVE s[m] = r0.cur + m
      OBVIOUS
    <3>1. m \in 1..Len(x.str) \/ m = Len(x.str) + 1
      BY <1>1, <1>2, <2>6
    <3>2. CASE m \in 1..Len(x.str)
      <4>1. s[m] = x.str[m]
        BY <1>1, <2>6, <3>2, AppendProperties
      <4> QED BY <1>1, <3>2, <4>1
    <3>3. CASE m = Len(x.str) + 1
      <4>1. s[m] = c + 1 /\ m = (c - r0.cur) + 1
        BY <1>1, <1>2, <2>6, <3>3, AppendProperties DEF Byte
      <4> QED BY <1>2, <4>1
    <3> QED BY <3>1, <3>2, <3>3
  <2>8. \A j \in Nat : Present(n, j) <=> Present(x.r, j)
    <3> SUFFICES ASSUME NEW j \in Nat PROVE Present(n, j) <=> Present(x.r, j)
      OBVIOUS
    <3>1. CASE j <= c
      <4>1. Present(x.r, j)
        BY <1>0, <1>2, <1>5, <3>1, <2>1 DEF Present
      <4>2. j < n.cur
        BY <1>2, <2>5, <3>1
      <4> QED BY <4>1, <4>2 DEF Present
    <3>2. CASE j \in (c + 1)..(c + C - 1)
      <4>1. ~(j < c) /\ ~(j < c + 1) /\ j \in c..(c + C - 1) /\ j \in (c + 1)..((c + 1) + C - 1)
        BY <1>0, <1>2, <3>2
      <4> QED BY <2>5, <3>2, <4>1 DEF Present
    <3>3. CASE j = c + C
      <4>1. ~(j < c) /\ ~(j < c + 1) /\ j \notin c..(c + C - 1)
        BY <1>0, <1>2, <3>3
      <4> QED BY <2>5, <3>3, <4>1 DEF Present
    <3>4. CASE j > c + C
      <4>1. ~(j < c) /\ ~(j < c + 1) /\ j \notin c..(c + C - 1) /\ j \notin (c + 1)..((c + 1) + C - 1)
        BY <1>0, <1>2, <3>4
      <4> QED BY <2>5, <4>1 DEF Present
    <3> QED BY <1>0, <1>2, <3>1, <3>2, <3>3, <3>4
  <2>9. y.r = n /\ y.str = s /\ n \in ReassemblerState(C)
    BY <2>4, <2>5 DEF RingCore
  <2>10. y \in [r: ReassemblerState(C), str: Seq(Byte)]
    BY <2>4, <2>6, <2>9
  <2>11. y \in Taking(r0)
    BY <1>1, <2>5, <2>6, <2>7, <2>8, <2>9, <2>10, Zenon DEF Taking
  <2> QED BY <1>5, <2>5, <2>9, <2>11
<1> QED BY <1>4, <1>5 DEF y

\* The loop takes the whole run at _cur_index: it makes at most capacity rounds, because
\* what it takes was in the window.
LEMMA TakeEffect ==
  ASSUME NEW r, RingCore(r), r.cur = r.output.written
  PROVE  LET z == Take(r)
         IN  z \in Taking(r) /\ ~SlotOf(z.r, z.r.cur).full
<1> DEFINE F == TakeRound(RecvCapacity)
           I == Taking(r)
           x0 == [r |-> r, str |-> <<>>]
           o == Orbit(F, x0)
           z == o[RecvCapacity]
           Empty(x) == ~SlotOf(x.r, x.r.cur).full
<1>0. RecvCapacity \in Nat /\ RecvCapacity > 0
  BY ReceiverAssumption
<1>1. /\ r.cur \in Nat /\ r \in ReassemblerState(RecvCapacity)
      /\ r.output \in ByteStreamState /\ r.output.capacity = RecvCapacity
  BY DEF RingCore, ReassemblerState
<1>2. x0 \in I
  <2>1. x0.r = r /\ x0.str = <<>> /\ Len(x0.str) = 0 /\ x0.str \in Seq(Byte)
    OBVIOUS
  <2>2. x0 \in [r: ReassemblerState(RecvCapacity), str: Seq(Byte)]
    BY <1>1, <2>1
  <2> HIDE DEF x0
  <2> QED BY <1>1, <2>1, <2>2 DEF Taking
<1>3. \A y \in I : /\ F[y] \in I /\ (Empty(y) => F[y] = y)
                   /\ (~Empty(y) => F[y].r.cur = y.r.cur + 1)
  BY <1>1, TakeRoundEffect
<1> HIDE DEF F, I, x0
<1>4. o[0] = x0 /\ \A n \in Nat : o[n] \in I /\ o[n + 1] = F[o[n]]
  <2>1. \A y \in I : F[y] \in I
    BY <1>3, Zenon
  <2>2. /\ Orbit(F, x0)[0] = x0
        /\ \A n \in Nat : /\ Orbit(F, x0)[n] \in I
                          /\ Orbit(F, x0)[n + 1] = F[Orbit(F, x0)[n]]
    BY <1>2, <2>1, OrbitWithin
  <2> QED BY <2>2
<1> HIDE DEF o
<1>5. \A y \in I : y.r.cur \in Nat /\ RingCore(y.r) /\ y.r.output = r.output
  BY DEF I, Taking, RingCore, ReassemblerState
<1> HIDE DEF Empty
<1> DEFINE P == {n \in Nat : Empty(o[n]) \/ o[n].r.cur = r.cur + n}
<1>6. Nat \subseteq P
  <2>1. 0 \in P
    <3>1. o[0].r = r
      BY <1>4 DEF x0
    <3> QED BY <1>1, <3>1
  <2>2. ASSUME NEW n \in Nat, n \in P PROVE n + 1 \in P
    <3>1. o[n] \in I /\ o[n].r.cur \in Nat /\ o[n + 1] = F[o[n]]
      BY <1>4, <1>5, Zenon
    <3>2. CASE Empty(o[n])
      BY <1>3, <3>1, <3>2
    <3>3. CASE ~Empty(o[n])
      <4>1. o[n + 1].r.cur = o[n].r.cur + 1 /\ o[n].r.cur = r.cur + n
        BY <1>3, <2>2, <3>1, <3>3, Zenon
      <4> QED BY <1>1, <4>1
    <3> QED BY <3>2, <3>3
  <2> HIDE DEF P
  <2> QED BY <2>1, <2>2, Induct
<1>7. z \in I /\ z.r.cur \in Nat /\ RingCore(z.r) /\ z.r.output = r.output
  BY <1>0, <1>4, <1>5, Zenon
<1>8. Empty(z)
  <2> SUFFICES ASSUME ~Empty(z) PROVE FALSE
    OBVIOUS
  <2>1. z.r.cur = r.cur + RecvCapacity
    BY <1>0, <1>6
  <2> HIDE DEF z
  <2>2. z.r.cur \in z.r.cur..(z.r.cur + RecvCapacity - 1)
    BY <1>0, <1>7
  <2>3. z.r.cur < z.r.output.read + RecvCapacity
    BY <1>7, <2>2, Zenon DEF RingCore, InWindow, Empty
  <2>4. r.output.read <= r.output.written /\ r.output.read \in Nat /\ r.output.written \in Nat
    BY <1>1 DEF ByteStreamState
  <2> QED BY <1>0, <1>7, <2>1, <2>3, <2>4
<1>9. Take(r) = z
  BY <1>1 DEF Take, z, o, F, x0
<1> QED BY <1>7, <1>8, <1>9 DEF I, Empty

-----------------------------------------------------------------------------
(* push_substring *)

RingOK(r) ==
  /\ RingCore(r)
  /\ r.cur = r.output.written
  /\ r.output.data = [i \in 1..BufferSize(r.output) |-> r.output.read + i]
  /\ ~SlotOf(r, r.cur).full
  /\ r.output.ended <=> r.eofIndex = Total /\ r.output.written = Total

\* Two adjacent runs of the stream, one after the other.
LEMMA RunConcat ==
  ASSUME NEW s \in Seq(Nat), NEW u \in Seq(Nat), NEW a \in Nat,
         \A k \in 1..Len(s) : s[k] = a + k,
         \A k \in 1..Len(u) : u[k] = (a + Len(s)) + k
  PROVE  /\ s \o u \in Seq(Nat) /\ Len(s \o u) = Len(s) + Len(u)
         /\ s \o u = [i \in 1..(Len(s) + Len(u)) |-> a + i]
<1> DEFINE d == s \o u
           f == [i \in 1..(Len(s) + Len(u)) |-> a + i]
           m == Len(s)
           n == Len(u)
<1>1. m \in Nat /\ n \in Nat
  OBVIOUS
<1>2. d \in Seq(Nat) /\ Len(d) = m + n
  OBVIOUS
<1>3. f \in Seq(Nat) /\ Len(f) = m + n
  <2> HIDE DEF m, n
  <2>1. m + n \in Nat
    BY <1>1
  <2>2. f = [i \in 1..(m + n) |-> a + i]
    BY Zenon DEF m, n
  <2> QED BY <1>1, <2>1, <2>2
<1>4. ASSUME NEW i \in 1..(m + n) PROVE d[i] = a + i
  <2>1. d[i] = IF i <= m THEN s[i] ELSE u[i - m]
    OBVIOUS
  <2>2. CASE i <= m
    <3>1. i \in 1..m
      BY <2>2, <1>1
    <3>2. s[i] = a + i
      BY <3>1
    <3> QED BY <2>1, <2>2, <3>2
  <2>3. CASE ~(i <= m)
    <3>1. i - m \in 1..n
      BY <2>3, <1>1
    <3>2. u[i - m] = (a + m) + (i - m)
      BY <3>1, Zenon
    <3>3. (a + m) + (i - m) = a + i
      BY <1>1
    <3> QED BY <2>1, <2>3, <3>2, <3>3
  <2> QED BY <2>2, <2>3
<1>5. \A i \in 1..Len(d) : d[i] = f[i]
  BY <1>2, <1>4
<1> HIDE DEF d, f
<1>6. d = f
  BY <1>2, <1>3, <1>5, SeqEqual
<1> QED BY <1>2, <1>6 DEF d, f

\* A ByteStream with other unread bytes.
WithBytes(b, d, v, q) == [b EXCEPT !.data = d, !.written = v, !.read = q]

\* It is a ByteStream when they fit.
LEMMA StreamPut ==
  ASSUME NEW b \in ByteStreamState, NEW d \in Seq(Nat), NEW v \in Nat, NEW q \in Nat,
         q <= v, v - q <= b.capacity, Len(d) = v - q
  PROVE  LET g == WithBytes(b, d, v, q)
         IN  /\ g \in ByteStreamState /\ g.data = d /\ g.written = v /\ g.read = q
             /\ g.capacity = b.capacity /\ g.ended = b.ended
<1> DEFINE B == [data: Seq(Nat), capacity: Nat, written: Nat, read: Nat,
                 ended: BOOLEAN, error: BOOLEAN]
           g == WithBytes(b, d, v, q)
<1>1. b \in B
  BY DEF ByteStreamState, Byte
<1>2. /\ g \in B /\ g.data = d /\ g.written = v /\ g.read = q
      /\ g.capacity = b.capacity /\ g.ended = b.ended
  BY <1>1, Zenon DEF WithBytes
<1> HIDE DEF g
<1>3. g \in ByteStreamState
  BY <1>2 DEF ByteStreamState, Byte
<1> QED BY <1>2, <1>3 DEF g

\* ByteStream::write of what fits appends all of it.
LEMMA WriteAll ==
  ASSUME NEW b \in ByteStreamState, NEW s \in Seq(Nat), Len(s) <= RemainingCapacity(b)
  PROVE  LET w == StreamWrite(b, s)
         IN  /\ w \in ByteStreamState /\ w.data = b.data \o s
             /\ w.written = b.written + Len(s) /\ w.read = b.read
             /\ w.capacity = b.capacity /\ w.ended = b.ended
<1> DEFINE d == b.data \o s
           v == b.written + Len(s)
           q == b.read
           w == StreamWrite(b, s)
<1>1. /\ b.data \in Seq(Nat) /\ b.written \in Nat /\ b.read \in Nat /\ b.capacity \in Nat
      /\ b.read <= b.written /\ Len(b.data) = b.written - b.read /\ Len(s) \in Nat
  BY DEF ByteStreamState, Byte
<1>2. Lesser(Len(s), RemainingCapacity(b)) = Len(s)
  BY <1>1 DEF Lesser, RemainingCapacity, BufferSize
<1>3. SubSeq(s, 1, Len(s)) = s
  OBVIOUS
<1>4. w = [b EXCEPT !.data = d, !.written = v]
  BY <1>2, <1>3, Zenon DEF StreamWrite
<1>5. w = WithBytes(b, d, v, q)
  BY <1>4, Zenon DEF ByteStreamState, WithBytes
<1>6. d \in Seq(Nat) /\ Len(d) = Len(b.data) + Len(s)
  BY <1>1, ConcatProperties
<1>7. v \in Nat /\ q \in Nat /\ q <= v /\ v - q <= b.capacity /\ Len(d) = v - q
  BY <1>1, <1>6 DEF RemainingCapacity, BufferSize
<1> HIDE DEF d, v, w, q
<1>8. /\ w \in ByteStreamState /\ w.data = d /\ w.written = v /\ w.read = q
      /\ w.capacity = b.capacity /\ w.ended = b.ended
  <2> DEFINE g == WithBytes(b, d, v, q)
  <2>1. /\ g \in ByteStreamState /\ g.data = d /\ g.written = v /\ g.read = q
        /\ g.capacity = b.capacity /\ g.ended = b.ended
    <3>1. b \in ByteStreamState /\ d \in Seq(Nat) /\ v \in Nat /\ q \in Nat
      BY <1>6, <1>7
    <3>2. q <= v
      BY <1>7
    <3>3. v - q <= b.capacity
      BY <1>7
    <3>4. Len(d) = v - q
      BY <1>7
    <3> QED BY <3>1, <3>2, <3>3, <3>4, StreamPut
  <2> QED BY <1>5, <2>1
<1> QED BY <1>8 DEF d, v, w, q

\* pop_output of buffered bytes removes the first n.
LEMMA PopSome ==
  ASSUME NEW b \in ByteStreamState, NEW n \in Nat, n <= BufferSize(b)
  PROVE  LET w == PopOutput(b, n)
         IN  /\ w \in ByteStreamState /\ w.data = SubSeq(b.data, n + 1, Len(b.data))
             /\ w.written = b.written /\ w.read = b.read + n
             /\ w.capacity = b.capacity /\ w.ended = b.ended
<1> DEFINE d == SubSeq(b.data, n + 1, Len(b.data))
           v == b.written
           q == b.read + n
           w == PopOutput(b, n)
<1>1. /\ b.data \in Seq(Nat) /\ b.written \in Nat /\ b.read \in Nat /\ b.capacity \in Nat
      /\ b.read <= b.written /\ Len(b.data) = b.written - b.read
      /\ b.written - b.read <= b.capacity
  BY DEF ByteStreamState, Byte
<1>2. Lesser(n, BufferSize(b)) = n
  BY <1>1 DEF Lesser, BufferSize
<1>3. w = [b EXCEPT !.data = d, !.read = q]
  BY <1>2 DEF PopOutput
<1>4. w = WithBytes(b, d, v, q)
  BY <1>3, Zenon DEF ByteStreamState, WithBytes
<1>5. d \in Seq(Nat) /\ Len(d) = Len(b.data) - n
  <2> DEFINE e == b.data
             m == n + 1
             z == Len(b.data)
  <2>1. /\ \A i \in m..z : e[i] \in Nat
        /\ m \in Int /\ z \in Int /\ n <= z /\ z \in Nat
    BY <1>1 DEF BufferSize
  <2> HIDE DEF e, m, z
  <2>2. SubSeq(e, m, z) \in Seq(Nat) /\ Len(SubSeq(e, m, z)) = IF m <= z THEN z - m + 1 ELSE 0
    BY <2>1, SubSeqProperties
  <2> HIDE DEF d
  <2>3. d \in Seq(Nat) /\ Len(d) = IF m <= z THEN z - m + 1 ELSE 0
    BY <2>2 DEF d, e, m, z
  <2>4. Len(d) = z - n
    BY <2>1, <2>3 DEF m
  <2> QED BY <2>3, <2>4 DEF z
<1>6. v \in Nat /\ q \in Nat /\ q <= v /\ v - q <= b.capacity /\ Len(d) = v - q
  <2> DEFINE z == Len(b.data)
             y == Len(d)
             r == b.read
  <2>1. v \in Nat /\ r \in Nat /\ r <= v /\ z = v - r /\ n <= z /\ y = z - n /\ z <= b.capacity
        /\ b.capacity \in Nat
    BY <1>1, <1>5 DEF BufferSize
  <2> HIDE DEF z, y, v, r, d
  <2>2. q \in Nat /\ q <= v /\ v - q <= b.capacity /\ y = v - q
    BY <2>1 DEF r
  <2> QED BY <2>1, <2>2 DEF y
<1> HIDE DEF d, q, w, v
<1>7. /\ w \in ByteStreamState /\ w.data = d /\ w.written = v /\ w.read = q
      /\ w.capacity = b.capacity /\ w.ended = b.ended
  <2> DEFINE g == WithBytes(b, d, v, q)
  <2>1. /\ g \in ByteStreamState /\ g.data = d /\ g.written = v /\ g.read = q
        /\ g.capacity = b.capacity /\ g.ended = b.ended
    <3>1. b \in ByteStreamState /\ d \in Seq(Nat) /\ v \in Nat /\ q \in Nat
      BY <1>5, <1>6
    <3>2. q <= v
      BY <1>6
    <3>3. v - q <= b.capacity
      BY <1>6
    <3>4. Len(d) = v - q
      BY <1>6
    <3> QED BY <3>1, <3>2, <3>3, <3>4, StreamPut
  <2> QED BY <1>4, <2>1
<1> QED BY <1>7 DEF d, q, w, v

\* What the loop took fits into the output, which then holds the stream up to _cur_index
\* and ends if that is all of it.
LEMMA WriteOutEffect ==
  ASSUME NEW r, RingCore(r), r.cur = r.output.written,
         r.output.data = [i \in 1..BufferSize(r.output) |-> r.output.read + i],
         r.output.ended => r.eofIndex = Total /\ r.output.written = Total,
         NEW x \in Taking(r), ~SlotOf(x.r, x.r.cur).full
  PROVE  LET n == WriteOut(RecvCapacity)[x]
         IN  /\ RingOK(n) /\ n.output.read = r.output.read
             /\ n.cur >= r.cur /\ (r.output.ended => n.output.ended)
             /\ \A j \in Nat : Present(n, j) <=> Present(r, j)
<1> DEFINE C == RecvCapacity
           b == r.output
           w == StreamWrite(b, x.str)
           e == IF x.r.cur = x.r.eofIndex THEN EndInput(w) ELSE w
           n == [x.r EXCEPT !.output = e]
           L == Len(x.str)
<1>0. C \in Nat /\ C > 0 /\ Total \in Nat
  BY ReceiverAssumption
<1>1. /\ x \in [r: ReassemblerState(C), str: Seq(Byte)] /\ x.str \in Seq(Byte)
      /\ RingCore(x.r) /\ x.r.output = b /\ x.r.eofIndex = r.eofIndex
      /\ L = x.r.cur - r.cur /\ L \in Nat
      /\ \A k \in 1..L : x.str[k] = r.cur + k
      /\ \A j \in Nat : Present(x.r, j) <=> Present(r, j)
  BY DEF Taking
<1>2. /\ b \in ByteStreamState /\ b.capacity = C /\ b.read \in Nat /\ b.written \in Nat
      /\ b.read <= b.written /\ b.data \in Seq(Nat) /\ Len(b.data) = b.written - b.read
      /\ b.ended \in BOOLEAN
  BY Zenon DEF RingCore, ReassemblerState, ByteStreamState, Byte
<1>3. /\ x.r.cur \in Nat /\ x.r.cur <= b.read + C /\ b.written <= x.r.cur /\ x.r.cur <= Total
      /\ x.r \in ReassemblerState(C) /\ r.cur = b.written /\ x.r.eofIndex \in {Total, SizeMax}
  BY <1>1 DEF RingCore, ReassemblerState
<1>4. WriteOut(C)[x] = n
  BY <1>1, Zenon DEF WriteOut
<1> DEFINE d == b.data \o x.str
<1>5. /\ w \in ByteStreamState /\ w.read = b.read /\ w.written = b.written + L /\ w.data = d
      /\ w.capacity = b.capacity /\ w.ended = b.ended
  <2>1. L <= RemainingCapacity(b)
    BY <1>0, <1>1, <1>2, <1>3 DEF RemainingCapacity, BufferSize
  <2>2. x.str \in Seq(Nat)
    BY <1>1 DEF Byte
  <2> QED BY <1>2, <2>1, <2>2, WriteAll, Zenon
<1>6. d \in Seq(Nat) /\ Len(d) = x.r.cur - b.read
      /\ d = [i \in 1..(x.r.cur - b.read) |-> b.read + i]
  <2> DEFINE s == b.data
             u == x.str
             m == b.read
  <2>1. s \in Seq(Nat) /\ u \in Seq(Nat) /\ m \in Nat
    BY <1>1, <1>2 DEF Byte
  <2>2. \A k \in 1..Len(s) : s[k] = m + k
    <3>1. Len(s) = BufferSize(b)
      BY <1>2 DEF BufferSize
    <3> QED BY <3>1, Zenon
  <2>3. m + Len(s) = r.cur /\ Len(s) + Len(u) = x.r.cur - b.read
    <3> DEFINE p == Len(s)
               q == Len(u)
               v == b.written
               c == x.r.cur
    <3>1. /\ p = v - m /\ v \in Nat /\ m \in Nat /\ r.cur = v /\ c \in Nat /\ q = c - v
          /\ q \in Nat
      BY <1>1, <1>2, <1>3, Zenon
    <3> HIDE DEF p, q, v, c, m
    <3>2. m + p = v /\ p + q = c - m
      BY <3>1
    <3> QED BY <3>1, <3>2, Zenon DEF p, q, v, c, m
  <2>4. \A k \in 1..Len(u) : u[k] = (m + Len(s)) + k
    BY <1>1, <2>3, Zenon
  <2>5. Len(s) + Len(u) = x.r.cur - b.read
    BY <2>3, Zenon
  <2> HIDE DEF s, u, m
  <2>6. /\ s \o u \in Seq(Nat) /\ Len(s \o u) = Len(s) + Len(u)
        /\ s \o u = [i \in 1..(Len(s) + Len(u)) |-> m + i]
    BY <2>1, <2>2, <2>4, RunConcat, Zenon
  <2> QED BY <2>5, <2>6, Zenon DEF s, u, m
<1> HIDE DEF d
<1>8. /\ w \in ByteStreamState /\ w.read = b.read /\ w.written = x.r.cur /\ w.data = d
      /\ w.capacity = C /\ w.ended = b.ended
  BY <1>1, <1>2, <1>3, <1>5
<1> HIDE DEF w
<1>9. /\ e \in ByteStreamState /\ e.read = b.read /\ e.written = x.r.cur /\ e.data = d
      /\ e.capacity = C
      /\ e.ended <=> b.ended \/ x.r.cur = x.r.eofIndex
  BY <1>2, <1>8, Zenon DEF EndInput, ByteStreamState
<1> HIDE DEF e
<1>10. /\ n \in ReassemblerState(C) /\ n.output = e /\ n.slots = x.r.slots /\ n.cur = x.r.cur
       /\ n.eofIndex = x.r.eofIndex /\ n.unassembled = x.r.unassembled
       /\ n.thrown = x.r.thrown
  BY <1>3, <1>9 DEF ReassemblerState
<1> HIDE DEF n
<1>11. e.ended <=> n.eofIndex = Total /\ e.written = Total
  BY <1>0, <1>1, <1>2, <1>3, <1>9, <1>10, BelowSizeMax
<1>12. \A j \in Nat : SlotOf(n, j) = SlotOf(x.r, j) /\ (Present(n, j) <=> Present(x.r, j))
  BY <1>10 DEF SlotOf, Present
<1>13. FullSlots(n) = FullSlots(x.r)
  BY <1>10, Zenon DEF FullSlots
<1>14. RingCore(n)
  <2>1. \A i \in n.cur..(n.cur + C - 1) :
          SlotOf(n, i).full => SlotOf(n, i).byte = i + 1 /\ i < Total /\ InWindow(n, i)
    BY <1>1, <1>9, <1>10, Zenon DEF RingCore, InWindow, SlotOf
  <2> QED BY <1>1, <1>3, <1>9, <1>10, <1>13, <2>1 DEF RingCore
<1>15. RingOK(n)
  <2>1. ~SlotOf(n, n.cur).full
    BY <1>10 DEF SlotOf
  <2>2. e.data = [i \in 1..BufferSize(e) |-> e.read + i]
    BY <1>6, <1>9 DEF BufferSize
  <2> QED BY <1>9, <1>10, <1>11, <1>14, <2>1, <2>2, Zenon DEF RingOK
<1> QED BY <1>1, <1>2, <1>3, <1>4, <1>9, <1>10, <1>12, <1>15

\* What push_substring is called with by the receiver: a piece of the peer's stream, and
\* eof only with the end of the stream.
PeerPush(data, index, eof) ==
  /\ StreamData(data, index) /\ eof \in BOOLEAN /\ index \in UInt64
  /\ Len(data) > 0 => index + Len(data) <= Total
  /\ eof => index + Len(data) = Total

\* push_substring keeps the ring, never throws, and takes exactly what lies in the window.
LEMMA PushEffect ==
  ASSUME NEW r, RingOK(r), NEW data, NEW index, NEW eof, PeerPush(data, index, eof)
  PROVE  LET n == PushSubstring(r, data, index, eof)
         IN  /\ RingOK(n) /\ n.output.read = r.output.read
             /\ n.cur >= r.cur /\ (r.output.ended => n.output.ended)
             /\ \A j \in Nat : Present(n, j) <=>
                  \/ Present(r, j)
                  \/ j \in index..(index + Len(data) - 1) /\ InWindow(r, j)
<1> DEFINE C == RecvCapacity
           L == Len(data)
           past == (index + L) % Mod64
           st == Larger(index, r.cur)
           ed == Lesser(past, Lesser(r.cur + RemainingCapacity(r.output), r.eofIndex))
           badEof == eof /\ r.eofIndex # SizeMax /\ r.eofIndex # past
           mark == IF eof THEN past ELSE r.eofIndex
           marked == [r EXCEPT !.eofIndex = mark]
           stored == Store(marked, data, index, st, ed)
           taken == Take(stored)
           n == WriteOut(C)[taken]
<1>0. /\ C \in Nat /\ C > 0 /\ Total \in Nat /\ Total < SizeMax /\ SizeMax \in Nat
      /\ Mod64 = SizeMax + 1
  BY ReceiverAssumption, ModAssumption, BelowSizeMax DEF SizeMax
<1>1. /\ L \in Nat /\ index \in Nat /\ index < Mod64 /\ data \in Seq(Nat)
      /\ (L > 0 => index + L <= Total) /\ (eof => index + L = Total) /\ eof \in BOOLEAN
  BY <1>0 DEF PeerPush, StreamData, UInt64, SizeMax
<1> HIDE DEF L
<1>2. /\ r \in ReassemblerState(C) /\ r.output \in ByteStreamState /\ r.cur \in Nat
      /\ r.output.capacity = C /\ r.cur = r.output.written /\ r.cur <= Total
      /\ r.eofIndex \in {Total, SizeMax} /\ RingCore(r) /\ ~r.thrown
      /\ (r.output.ended => r.eofIndex = Total /\ r.output.written = Total)
      /\ r.output.data = [i \in 1..BufferSize(r.output) |-> r.output.read + i]
      /\ ~SlotOf(r, r.cur).full
  BY DEF RingOK, RingCore, ReassemblerState
<1>3. /\ r.output.read \in Nat /\ r.output.read <= r.cur
      /\ r.cur + RemainingCapacity(r.output) = r.output.read + C
  BY <1>0, <1>2 DEF ByteStreamState, RemainingCapacity, BufferSize
<1>4. past = index + L
  <2>1. index + L \in 0..(Mod64 - 1)
    BY <1>0, <1>1
  <2>2. Mod64 \in Nat /\ Mod64 > 0 /\ index + L \in Int
    BY <1>0, <1>1
  <2> QED BY <2>1, <2>2
<1> HIDE DEF past
<1>5. ~badEof /\ mark \in {Total, SizeMax} /\ (r.eofIndex = Total => mark = Total)
  BY <1>0, <1>1, <1>2, <1>4
<1> HIDE DEF badEof, mark
<1>6. /\ marked.eofIndex = mark /\ marked.output = r.output /\ marked.slots = r.slots
      /\ marked.cur = r.cur /\ marked.unassembled = r.unassembled /\ marked.thrown = r.thrown
      /\ marked \in ReassemblerState(C)
  <2>1. mark \in Nat
    BY <1>0, <1>5
  <2> QED BY <1>2, <2>1 DEF ReassemblerState
<1> HIDE DEF marked
<1>7. \A j : SlotOf(marked, j) = SlotOf(r, j)
  BY <1>6 DEF SlotOf
<1>8. RingCore(marked)
  <2>1. FullSlots(marked) = FullSlots(r)
    BY <1>6, Zenon DEF FullSlots
  <2>2. \A i \in marked.cur..(marked.cur + C - 1) :
          SlotOf(marked, i).full => SlotOf(marked, i).byte = i + 1 /\ i < Total /\ InWindow(marked, i)
    BY <1>2, <1>6, <1>7, Zenon DEF RingCore, InWindow
  <2> QED BY <1>2, <1>5, <1>6, <2>1, <2>2 DEF RingCore
<1>9. st \in Nat /\ index <= st /\ r.cur <= st /\ (st = index \/ st = r.cur)
  BY <1>1, <1>2 DEF Larger
<1>10. /\ ed \in Int /\ ed <= past /\ ed <= r.output.read + C /\ ed <= r.eofIndex
       /\ (ed = past \/ ed = r.output.read + C \/ ed = r.eofIndex)
  <2> DEFINE q == r.output.read
             f == r.eofIndex
  <2>1. ed = Lesser(past, Lesser(q + C, f))
    BY <1>3
  <2>2. q \in Nat /\ f \in Nat /\ past \in Nat
    BY <1>0, <1>1, <1>2, <1>3, <1>4
  <2> HIDE DEF q, f, ed
  <2>3. /\ ed \in Int /\ ed <= past /\ ed <= q + C /\ ed <= f
        /\ (ed = past \/ ed = q + C \/ ed = f)
    BY <1>0, <2>1, <2>2 DEF Lesser
  <2> QED BY <2>3 DEF q, f
<1> HIDE DEF st, ed
<1>11. /\ RingCore(stored) /\ stored.output = r.output /\ stored.cur = r.cur
       /\ stored.eofIndex = mark
       /\ \A j \in r.cur..(r.cur + C - 1) :
            SlotOf(stored, j).full <=> SlotOf(r, j).full \/ j \in st..(ed - 1)
  <2>0. st \in Nat /\ ed \in Int /\ data \in Seq(Nat) /\ index <= st
    BY <1>1, <1>9, <1>10
  <2>1. CASE L = 0
    <3>1. ed <= st
      BY <1>1, <1>4, <1>9, <1>10, <2>1
    <3>2. stored = marked
      BY <1>8, <2>0, <3>1, StoreNothing, Zenon
    <3>3. \A j : j \notin st..(ed - 1)
      BY <1>9, <1>10, <3>1
    <3> HIDE DEF stored
    <3> QED BY <1>6, <1>7, <1>8, <3>2, <3>3, Zenon
  <2>2. CASE L > 0
    <3>1. /\ ed <= index + Len(data) /\ ed <= Total
          /\ ed <= marked.output.read + RecvCapacity /\ ed <= marked.cur + RecvCapacity
          /\ marked.cur <= st
      <4> DEFINE q == r.output.read
                 c == r.cur
      <4>1. /\ q \in Nat /\ c \in Nat /\ q <= c /\ C \in Nat /\ ed <= q + C /\ ed <= past
            /\ past = index + L /\ index + L <= Total /\ c <= st
            /\ index \in Nat /\ L \in Nat /\ Total \in Nat
        BY <1>0, <1>1, <1>2, <1>3, <1>4, <1>9, <1>10, <2>2
      <4>2. marked.output.read = q /\ marked.cur = c
        BY <1>6
      <4> HIDE DEF q, c, C
      <4>3. ed <= index + L /\ ed <= Total /\ ed <= q + C /\ ed <= c + C
        BY <2>0, <4>1
      <4> QED BY <4>1, <4>2, <4>3 DEF L, C
    <3>2. StreamData(data, index)
      BY DEF PeerPush
    <3>3. /\ RingCore(stored) /\ stored.output = marked.output /\ stored.cur = marked.cur
          /\ stored.eofIndex = marked.eofIndex
          /\ \A j \in marked.cur..(marked.cur + RecvCapacity - 1) :
               SlotOf(stored, j).full <=> SlotOf(marked, j).full \/ j \in st..(ed - 1)
      BY <1>8, <2>0, <3>1, <3>2, StoreEffect
    <3> HIDE DEF stored
    <3> QED BY <1>6, <1>7, <3>3, Zenon
  <2> QED BY <1>1, <2>1, <2>2
<1> HIDE DEF stored
<1>12. taken \in Taking(stored) /\ ~SlotOf(taken.r, taken.r.cur).full
  BY <1>2, <1>11, TakeEffect
<1> HIDE DEF taken
<1>13. /\ RingOK(n) /\ n.output.read = stored.output.read
       /\ n.cur >= stored.cur /\ (stored.output.ended => n.output.ended)
       /\ \A j \in Nat : Present(n, j) <=> Present(stored, j)
  <2>1. stored.output.data = [i \in 1..BufferSize(stored.output) |-> stored.output.read + i]
    BY <1>2, <1>11
  <2>2. stored.output.ended => stored.eofIndex = Total /\ stored.output.written = Total
    BY <1>2, <1>5, <1>11
  <2>3. stored.cur = stored.output.written
    BY <1>2, <1>11
  <2> QED BY <1>11, <1>12, <2>1, <2>2, <2>3, WriteOutEffect, Zenon
<1> HIDE DEF n
<1>14. ASSUME NEW j \in Nat
       PROVE  Present(stored, j) <=> \/ Present(r, j)
                                     \/ j \in index..(index + L - 1) /\ InWindow(r, j)
  <2>1. CASE j < r.cur
    BY <1>11, <2>1 DEF Present
  <2>2. CASE j >= r.cur
    <3>1. j \in index..(index + L - 1) /\ InWindow(r, j)
            <=> j \in r.cur..(r.cur + C - 1) /\ j \in st..(ed - 1)
      <4> DEFINE q == r.output.read
                 c == r.cur
                 f == r.eofIndex
      <4>1. /\ q \in Nat /\ c \in Nat /\ f \in Nat /\ q <= c /\ f >= Total /\ c <= j
            /\ index <= st /\ c <= st /\ (st = index \/ st = c) /\ st \in Nat
            /\ ed \in Int /\ ed <= index + L /\ ed <= q + C /\ ed <= f
            /\ (ed = index + L \/ ed = q + C \/ ed = f)
            /\ index \in Nat /\ L \in Nat /\ (L > 0 => index + L <= Total)
        BY <1>0, <1>1, <1>2, <1>3, <1>4, <1>9, <1>10, <2>2
      <4> HIDE DEF q, c, f
      <4>2. j \in index..(index + L - 1) /\ j < q + C <=> j \in c..(c + C - 1) /\ j \in st..(ed - 1)
        BY <1>0, <4>1
      <4> QED BY <4>2 DEF q, c, f, InWindow
    <3>2. ~(j < r.cur)
      BY <1>2, <2>2
    <3> QED BY <1>11, <3>1, <3>2, Zenon DEF Present
  <2> QED BY <1>2, <2>1, <2>2
<1>15. PushSubstring(r, data, index, eof) = n
  <2>1. ~stored.thrown
    BY <1>11 DEF RingCore
  <2>2. PushSubstring(r, data, index, eof) =
          IF badEof THEN [r EXCEPT !.thrown = TRUE]
          ELSE IF stored.thrown THEN stored ELSE WriteOut(r.output.capacity)[Take(stored)]
    BY Zenon DEF PushSubstring, badEof, stored, marked, mark, st, ed, past, L
  <2> QED BY <1>2, <1>5, <2>1, <2>2 DEF n, taken
<1> QED BY <1>11, <1>13, <1>14, <1>15 DEF L
=============================================================================
