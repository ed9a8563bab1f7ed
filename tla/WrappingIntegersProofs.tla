----------------------- MODULE WrappingIntegersProofs -----------------------
(***************************************************************************)
(* Proofs about wrap() and unwrap() for sequence numbers of any width: of  *)
(* all numbers that wrap to the given one, unwrap finds the one closest to *)
(* the checkpoint, and so undoes wrap for every number less than half the  *)
(* sequence space away.  The checkpoint has to be a whole wrap below the   *)
(* top of the 64-bit numbers.                                              *)
(***************************************************************************)
EXTENDS WrappingIntegers, TLAPS

-----------------------------------------------------------------------------
(* Quotient and remainder *)

\* Division with remainder.
LEMMA DivMod ==
  ASSUME NEW a \in Int, NEW m \in Nat, m > 0
  PROVE  a % m \in 0..(m - 1) /\ a \div m \in Int /\ a = (m * (a \div m)) + (a % m)
OBVIOUS

\* Multiples of m are m apart.
LEMMA MulBound ==
  ASSUME NEW m \in Nat, NEW p \in Int, NEW q \in Int, p < q
  PROVE  m * p + m <= m * q
<1>1. m * (q - p) >= m
  BY q - p >= 1
<1>2. m * (q - p) = m * q - m * p /\ m * q \in Int /\ m * p \in Int
  OBVIOUS
<1> QED BY <1>1, <1>2

\* A number has one quotient and one remainder.
LEMMA ModUnique ==
  ASSUME NEW m \in Nat, m > 0, NEW a \in Int, NEW q \in Int, NEW r \in 0..(m - 1),
         a = m * q + r
  PROVE  a % m = r /\ a \div m = q
<1> DEFINE d == a \div m
           s == a % m
<1>1. s \in 0..(m - 1) /\ d \in Int /\ a = m * d + s
  BY DivMod
<1> HIDE DEF d, s
<1>2. m * d \in Int /\ m * q \in Int
  BY <1>1
<1>3. ~(d < q)
  BY <1>1, <1>2, MulBound
<1>4. ~(q < d)
  BY <1>1, <1>2, MulBound
<1>5. d = q
  BY <1>1, <1>3, <1>4
<1> QED BY <1>1, <1>2, <1>5 DEF d, s

\* Two numbers with the same remainder are equal or m or more apart.
LEMMA SameRemainder ==
  ASSUME NEW m \in Nat, m > 0, NEW a \in Int, NEW b \in Int, a % m = b % m
  PROVE  a = b \/ a + m <= b \/ b + m <= a
<1> DEFINE p == a \div m
           q == b \div m
           r == a % m
<1>1. r \in 0..(m - 1) /\ p \in Int /\ q \in Int /\ a = m * p + r /\ b = m * q + r
  BY DivMod
<1> HIDE DEF p, q, r
<1>2. m * p \in Int /\ m * q \in Int
  BY <1>1
<1>3. CASE p = q
  BY <1>1, <1>3
<1>4. CASE p < q
  <2>1. m * p + m <= m * q BY <1>1, <1>4, MulBound
  <2> QED BY <1>1, <1>2, <2>1
<1>5. CASE q < p
  <2>1. m * q + m <= m * p BY <1>1, <1>5, MulBound
  <2> QED BY <1>1, <1>2, <2>1
<1> QED BY <1>1, <1>3, <1>4, <1>5

\* Adding m does not change the remainder.
LEMMA ModShift ==
  ASSUME NEW m \in Nat, m > 0, NEW a \in Int
  PROVE  (a + m) % m = a % m
<1> DEFINE q == a \div m
           r == a % m
<1>1. r \in 0..(m - 1) /\ q \in Int /\ a = m * q + r
  BY DivMod
<1> HIDE DEF q, r
<1>2. m * (q + 1) = m * q + m /\ m * q \in Int
  BY <1>1
<1>3. a + m = m * (q + 1) + r
  BY <1>1, <1>2
<1>4. (a + m) % m = r
  BY <1>1, <1>3, ModUnique
<1> QED BY <1>4 DEF r

-----------------------------------------------------------------------------
(* wrap *)

\* A number wraps to q exactly when its offset from the initial sequence number does.
LEMMA WrapResidue ==
  ASSUME NEW n \in Nat, NEW isn \in Seqno, NEW q \in Seqno
  PROVE  Wrap(n, isn) = q <=> n % Mod32 = (q - isn) % Mod32
<1> DEFINE M == Mod32
           r == n % M
           t == r + isn
           d == t \div M
           low == (q - isn) % M
           e == (q - isn) \div M
<1>1. M \in Nat /\ M > 1 /\ isn \in 0..(M - 1) /\ q \in 0..(M - 1)
  BY ModAssumption DEF Seqno
<1> HIDE DEF M
<1>2. r \in 0..(M - 1)
  BY <1>1, DivMod
<1> HIDE DEF r
<1>3. t % M \in 0..(M - 1) /\ d \in Int /\ t = (M * d) + (t % M) /\ t \in Int
  BY <1>1, <1>2, DivMod
<1>4. low \in 0..(M - 1) /\ e \in Int /\ q - isn = (M * e) + low
  BY <1>1, DivMod
<1>5. Wrap(n, isn) = t % M
  BY DEF Wrap, M, r
<1> HIDE DEF d, e, t, low
<1>6. ASSUME t % M = q PROVE r = low
  <2>1. q - isn = M * (0 - d) + r
    <3>1. M * (0 - d) = 0 - M * d /\ M * d \in Int BY <1>1, <1>3
    <3> QED BY <1>1, <1>2, <1>3, <1>6, <3>1 DEF t
  <2> QED BY <1>1, <1>2, <1>3, <2>1, ModUnique DEF low
<1>7. ASSUME r = low PROVE t % M = q
  <2>1. t = M * (0 - e) + q
    <3>1. M * (0 - e) = 0 - M * e /\ M * e \in Int BY <1>1, <1>4
    <3> QED BY <1>1, <1>2, <1>4, <1>7, <3>1 DEF t
  <2> QED BY <1>1, <1>3, <1>4, <2>1, ModUnique
<1> QED BY <1>5, <1>6, <1>7 DEF r, low, M
-----------------------------------------------------------------------------
(* unwrap *)

\* The high bits of a number are the multiple of Mod32 at or below it.
LEMMA HighBitsValue ==
  ASSUME NEW q \in Int, NEW r \in 0..(Mod32 - 1)
  PROVE  HighBits(Mod32 * q + r) = Mod32 * q
<1>1. Mod32 \in Nat /\ Mod32 > 0 /\ Mod32 * q \in Int
  BY ModAssumption
<1>2. (Mod32 * q + r) % Mod32 = r
  BY <1>1, ModUnique
<1> QED BY <1>1, <1>2 DEF HighBits

\* Half a wrap.
LEMMA Half == Mod32 \div 2 \in Nat /\ Mod32 = 2 * (Mod32 \div 2) /\ Mod32 \div 2 > 0
BY ModAssumption

\* The two candidates of unwrap, for a checkpoint of half a wrap or more: they are next
\* to each other, around the checkpoint.
LEMMA CandidatesAround ==
  ASSUME NEW c \in Nat, c + Mod32 <= Mod64, c >= Mod32 \div 2
  PROVE  \E q \in Int : /\ HighBits((c - (Mod32 \div 2)) % Mod64) = Mod32 * q
                        /\ HighBits((c + (Mod32 \div 2)) % Mod64) = Mod32 * q + Mod32
                        /\ Mod32 * q <= c - (Mod32 \div 2)
                        /\ c - (Mod32 \div 2) < Mod32 * q + Mod32
                        /\ Mod32 * q >= 0
<1> DEFINE M == Mod32
           h == Mod32 \div 2
           q == (c - h) \div M
           r == (c - h) % M
<1>1. M \in Nat /\ M > 1 /\ h \in Nat /\ M = 2 * h /\ h > 0 /\ Mod64 \in Nat /\ Mod64 > M
  BY ModAssumption, Half
<1> HIDE DEF M, h
<1>2. c - h \in Int /\ r \in 0..(M - 1) /\ q \in Int /\ c - h = M * q + r
  BY <1>1, DivMod
<1> HIDE DEF q, r
<1>3. M * q \in Int /\ M * (q + 1) = M * q + M
  BY <1>1, <1>2
<1>4. (c - h) % Mod64 = c - h
  <2>1. c - h \in 0..(Mod64 - 1) BY <1>1 DEF M, h
  <2>2. c - h = Mod64 * 0 + (c - h) BY <1>1
  <2> QED BY <1>1, <2>1, <2>2, ModUnique
<1>5. (c + h) % Mod64 = c + h
  <2>1. c + h \in 0..(Mod64 - 1) BY <1>1 DEF M
  <2>2. c + h = Mod64 * 0 + (c + h) BY <1>1
  <2> QED BY <1>1, <2>1, <2>2, ModUnique
<1>6. HighBits(c - h) = M * q
  BY <1>2, HighBitsValue DEF M
<1>7. HighBits(c + h) = M * q + M
  <2>1. c + h = M * (q + 1) + r BY <1>1, <1>2, <1>3
  <2> QED BY <1>2, <1>3, <2>1, HighBitsValue DEF M
<1>8. M * q >= 0
  <2>1. ASSUME q < 0 PROVE FALSE
    <3>1. M * q + M <= M * 0 BY <1>1, <1>2, <2>1, MulBound
    <3> QED BY <1>1, <1>2, <1>3, <3>1 DEF h
  <2> QED BY <1>1, <1>2, <2>1
<1> QED BY <1>1, <1>2, <1>3, <1>4, <1>5, <1>6, <1>7, <1>8 DEF M, h

\* The candidates for a checkpoint below half a wrap: the first has wrapped below zero,
\* to the top of the 64-bit numbers.
LEMMA CandidatesAtStart ==
  ASSUME NEW c \in Nat, c < Mod32 \div 2
  PROVE  /\ HighBits((c - (Mod32 \div 2)) % Mod64) = Mod64 - Mod32
         /\ HighBits((c + (Mod32 \div 2)) % Mod64) = 0
         /\ Mod64 >= 2 * Mod32
<1> DEFINE M == Mod32
           h == Mod32 \div 2
           w == Mod64 \div M
<1>1. M \in Nat /\ M > 1 /\ h \in Nat /\ M = 2 * h /\ h > 0 /\ Mod64 \in Nat /\ Mod64 > M
  BY ModAssumption, Half
<1>2. Mod64 % M = 0
  BY ModAssumption
<1> HIDE DEF M, h
<1>3. w \in Int /\ Mod64 = M * w
  BY <1>1, <1>2, DivMod
<1> HIDE DEF w
<1>4. M * w \in Int /\ M * (w - 1) = M * w - M
  BY <1>1, <1>3
<1>5. c + h \in 0..(M - 1)
  BY <1>1 DEF h
<1>6. (c - h) % Mod64 = c - h + Mod64
  <2>1. c - h + Mod64 \in 0..(Mod64 - 1) BY <1>1 DEF h
  <2>2. c - h = Mod64 * (-1) + (c - h + Mod64) BY <1>1
  <2> QED BY <1>1, <2>1, <2>2, ModUnique
<1>7. (c + h) % Mod64 = c + h
  <2>1. c + h \in 0..(Mod64 - 1) BY <1>1, <1>5
  <2>2. c + h = Mod64 * 0 + (c + h) BY <1>1
  <2> QED BY <1>1, <2>1, <2>2, ModUnique
<1>8. HighBits(c - h + Mod64) = Mod64 - M
  <2>1. c - h + Mod64 = M * (w - 1) + (c + h) BY <1>1, <1>3, <1>4
  <2> QED BY <1>3, <1>4, <1>5, <2>1, HighBitsValue DEF M
<1>9. HighBits(c + h) = 0
  <2>1. c + h = M * 0 + (c + h) BY <1>1
  <2>2. M * 0 = 0 BY <1>1
  <2> QED BY <1>5, <2>1, <2>2, HighBitsValue DEF M
<1>10. Mod64 >= 2 * M
  <2>1. M % M = 0
    <3>1. M = M * 1 + 0 BY <1>1
    <3> QED BY <1>1, <3>1, ModUnique
  <2>2. M % M = Mod64 % M /\ M \in Int /\ Mod64 \in Int /\ M > 0 BY <1>1, <1>2, <2>1
  <2>3. M = Mod64 \/ M + M <= Mod64 \/ Mod64 + M <= M BY <1>1, <2>2, SameRemainder, Zenon
  <2> QED BY <1>1, <2>3
<1> QED BY <1>6, <1>7, <1>8, <1>9, <1>10 DEF M, h
\* unwrap gives a number with the right remainder, and every other number with that
\* remainder is at least as far away; one less than half a wrap away is the result itself.
LEMMA UnwrapNearest ==
  ASSUME NEW q \in Seqno, NEW isn \in Seqno, NEW c \in Nat, c + Mod32 <= Mod64
  PROVE  LET u == Unwrap(q, isn, c)
         IN  /\ u \in Nat /\ u % Mod32 = (q - isn) % Mod32
             /\ \A n \in Nat : n % Mod32 = (q - isn) % Mod32 =>
                  /\ Distance(u, c) <= Distance(n, c)
                  /\ Distance(n, c) < Mod32 \div 2 => n = u
<1> DEFINE M == Mod32
           h == Mod32 \div 2
           low == (q - isn) % M
           A == HighBits((c - h) % Mod64)
           B == HighBits((c + h) % Mod64)
           u == Unwrap(q, isn, c)
<1>1. M \in Nat /\ M > 1 /\ h \in Nat /\ M = 2 * h /\ h > 0 /\ Mod64 \in Nat /\ Mod64 > M
  BY ModAssumption, Half
<1>2. low \in 0..(M - 1)
  <2>1. q - isn \in Int BY <1>1 DEF Seqno
  <2> HIDE DEF M
  <2> QED BY <1>1, <2>1, DivMod
<1>3. u = IF Distance(low + A, c) < Distance(low + B, c) THEN low + A ELSE low + B
  BY DEF Unwrap
<1>4. \A k \in Int, r \in 0..(M - 1) : (M * k + r) % M = r /\ M * k \in Int
  <2> HIDE DEF M
  <2> SUFFICES ASSUME NEW k \in Int, NEW r \in 0..(M - 1)
               PROVE  (M * k + r) % M = r /\ M * k \in Int
    OBVIOUS
  <2>1. M * k \in Int BY <1>1
  <2> DEFINE a == M * k + r
  <2>2. a \in Int /\ a = M * k + r BY <1>1, <2>1
  <2> HIDE DEF a
  <2>3. M > 0 BY <1>1
  <2>4. a % M = r BY <1>1, <2>2, <2>3, ModUnique, Zenon
  <2> QED BY <2>1, <2>2, <2>4
<1> HIDE DEF u, low, A, B
<1>5. CASE c >= h
  <2>1. PICK k \in Int : A = M * k /\ B = M * k + M /\ M * k <= c - h /\ c - h < M * k + M
                         /\ M * k >= 0
    BY <1>5, CandidatesAround DEF A, B
  <2>2. M * (k + 1) = M * k + M /\ M * k \in Int
    BY <1>1, <2>1
  <2> HIDE DEF M, h
  <2>3. u \in Nat /\ (u = low + A \/ u = low + B)
    BY <1>1, <1>2, <1>3, <2>1, <2>2
  <2>4. (low + A) % M = low /\ (low + B) % M = low
    <3>1. low + A = M * k + low /\ low + B = M * (k + 1) + low BY <1>1, <1>2, <2>1, <2>2
    <3> QED BY <1>2, <1>4, <2>1, <3>1
  <2>5. ASSUME NEW n \in Nat, n % M = low
        PROVE  n <= low + A - M \/ n = low + A \/ n = low + B \/ n >= low + B + M
    <3>1. low + A \in Int /\ low + B \in Int BY <1>1, <1>2, <2>1, <2>2
    <3>2. n = low + A \/ n + M <= low + A \/ low + A + M <= n
      BY <1>1, <2>4, <2>5, <3>1, SameRemainder
    <3>3. n = low + B \/ n + M <= low + B \/ low + B + M <= n
      BY <1>1, <2>4, <2>5, <3>1, SameRemainder
    <3>4. low + B = low + A + M BY <1>1, <1>2, <2>1, <2>2
    <3>5. low \in Int /\ A \in Int /\ B \in Int BY <1>1, <1>2, <2>1, <2>2
    <3> QED BY <1>1, <3>2, <3>3, <3>4, <3>5
  <2>6. ASSUME NEW n \in Nat, n % M = low
        PROVE  Distance(u, c) <= Distance(n, c) /\ (Distance(n, c) < h => n = u)
    BY <1>1, <1>2, <1>3, <2>1, <2>2, <2>5, <2>6 DEF Distance, Larger, Lesser
  <2> QED BY <2>3, <2>4, <2>6 DEF u, low, M, h
<1>6. CASE c < h
  <2>1. A = Mod64 - M /\ B = 0 /\ Mod64 >= 2 * M
    BY <1>6, CandidatesAtStart DEF A, B
  <2> HIDE DEF M, h
  <2>2. u = low
    BY <1>1, <1>2, <1>3, <1>6, <2>1 DEF Distance, Larger, Lesser
  <2>3. low % M = low
    <3>1. low = M * 0 + low BY <1>1, <1>2
    <3> QED BY <1>2, <1>4, <3>1
  <2>4. ASSUME NEW n \in Nat, n % M = low
        PROVE  Distance(u, c) <= Distance(n, c) /\ (Distance(n, c) < h => n = u)
    <3>0. n \in Int /\ low \in Int /\ M > 0 /\ n % M = low % M
      BY <1>1, <1>2, <2>3, <2>4
    <3>1. n = low \/ n + M <= low \/ low + M <= n
      BY <1>1, <3>0, SameRemainder, Zenon
    <3> QED BY <1>1, <1>2, <1>6, <2>2, <3>1 DEF Distance, Larger, Lesser
  <2> QED BY <1>2, <2>2, <2>3, <2>4 DEF u, low, M, h
<1> QED BY <1>1, <1>5, <1>6

-----------------------------------------------------------------------------
(* The theorems *)

\* WrappingInt32's unwrap() (wrapping_integers.cc:30-43): the result wraps to the given
\* number, and no other number that does is closer to the checkpoint.
THEOREM UnwrapIsClosest ==
  ASSUME NEW q \in Seqno, NEW isn \in Seqno, NEW c \in Nat, c + Mod32 <= Mod64
  PROVE  /\ Wrap(Unwrap(q, isn, c), isn) = q
         /\ \A n \in Nat : Wrap(n, isn) = q =>
              Distance(Unwrap(q, isn, c), c) <= Distance(n, c)
BY UnwrapNearest, WrapResidue

\* unwrap() undoes wrap() for every number less than half the sequence space from the
\* checkpoint: what a TCP receiver and sender rely on for each other's segments.
THEOREM UnwrapUndoesWrap ==
  ASSUME NEW n \in Nat, NEW isn \in Seqno, NEW c \in Nat, c + Mod32 <= Mod64,
         Distance(n, c) < Mod32 \div 2
  PROVE  Unwrap(Wrap(n, isn), isn, c) = n
<1>1. Wrap(n, isn) \in Seqno
  BY ModAssumption DEF Wrap, Seqno
<1>2. n % Mod32 = (Wrap(n, isn) - isn) % Mod32
  BY <1>1, WrapResidue
<1> QED BY <1>1, <1>2, UnwrapNearest
=============================================================================
