--------------------------- MODULE BasicsTheorems ---------------------------
(***************************************************************************)
(* Induction over the rounds of a loop.  What every round of a loop        *)
(* preserves holds after any number of rounds (OrbitInvariant), which is   *)
(* how the proofs treat the while loops of the code.                       *)
(***************************************************************************)
EXTENDS Basics, WellFoundedInduction, TLAPS

\* A nonempty set of naturals has a least element; the rounds of a loop are counted
\* by naturals.
LEMMA LeastNat ==
  ASSUME NEW T, T \subseteq Nat, T # {}
  PROVE  \E x \in T : \A y \in T : x <= y
<1>1. \E x \in T : \A y \in T : ~ (<<y, x>> \in OpToRel(<, Nat))
  BY NatLessThanWellFounded, WFMin, Zenon
<1>2. PICK x \in T : \A y \in T : ~ (<<y, x>> \in OpToRel(<, Nat))
  BY <1>1, Zenon
<1>3. \A y \in T : ~(y < x)
  BY <1>2, Zenon DEF OpToRel
<1> QED BY <1>3

\* Induction on the number of rounds, stated for a set so that it can be applied.
LEMMA Induct ==
  ASSUME NEW P, 0 \in P, \A n \in Nat : n \in P => n + 1 \in P
  PROVE  Nat \subseteq P
<1> DEFINE T == Nat \ P
<1> SUFFICES ASSUME T # {} PROVE FALSE
  OBVIOUS
<1>1. PICK m \in T : \A y \in T : m <= y
  BY LeastNat, Zenon
<1>2. m - 1 \in Nat /\ m - 1 \notin T
  BY <1>1
<1>3. (m - 1) + 1 \in P
  BY <1>2
<1> QED BY <1>1, <1>3

\* The executions of the first n rounds from x.
Approx(F, x, S, n) ==
  {g \in [0..n -> S] : g[0] = x /\ \A i \in 0..n : i > 0 => g[i] = F[g[i-1]]}

\* The first n rounds of a loop can be carried out.
LEMMA ApproxExists ==
  ASSUME NEW S, NEW F \in [S -> S], NEW x \in S
  PROVE  \A n \in Nat : Approx(F, x, S, n) # {}
<1> DEFINE P == {n \in Nat : Approx(F, x, S, n) # {}}
<1>1. 0 \in P
  <2>1. [i \in 0..0 |-> x] \in Approx(F, x, S, 0) BY DEF Approx
  <2> QED BY <2>1
<1>2. \A n \in Nat : n \in P => n + 1 \in P
  <2> SUFFICES ASSUME NEW n \in Nat, n \in P PROVE n + 1 \in P OBVIOUS
  <2>1. PICK g : g \in Approx(F, x, S, n) OBVIOUS
  <2> DEFINE h == [i \in 0..(n+1) |-> IF i = n + 1 THEN F[g[n]] ELSE g[i]]
  <2>2. g \in [0..n -> S] /\ g[0] = x /\ \A i \in 0..n : i > 0 => g[i] = F[g[i-1]]
    BY <2>1 DEF Approx
  <2>3. h \in [0..(n+1) -> S] BY <2>2
  <2>4. h[0] = x BY <2>2
  <2>5. \A i \in 0..(n+1) : i > 0 => h[i] = F[h[i-1]] BY <2>2
  <2>6. h \in Approx(F, x, S, n + 1)
    <3> HIDE DEF h
    <3> QED BY <2>3, <2>4, <2>5 DEF Approx
  <2> QED BY <2>6
<1> QED BY <1>1, <1>2, Induct, Zenon

\* Two partial executions of the same loop agree as far as both go.
LEMMA ApproxUnique ==
  ASSUME NEW S, NEW F \in [S -> S], NEW x \in S, NEW m \in Nat, NEW n \in Nat,
         NEW g \in Approx(F, x, S, m), NEW h \in Approx(F, x, S, n)
  PROVE  \A i \in Nat : i <= m /\ i <= n => g[i] = h[i]
<1> DEFINE P == {i \in Nat : i <= m /\ i <= n => g[i] = h[i]}
<1>1. 0 \in P BY DEF Approx
<1>2. \A i \in Nat : i \in P => i + 1 \in P
  BY DEF Approx
<1> QED BY <1>1, <1>2, Induct, Zenon

\* Orbit(F, x) is the execution of the loop with body F from x: it starts at x, and each
\* round applies F once.
LEMMA OrbitStep ==
  ASSUME NEW S, NEW F \in [S -> S], NEW x \in S
  PROVE  /\ Orbit(F, x) \in [Nat -> S]
         /\ Orbit(F, x)[0] = x
         /\ \A n \in Nat : Orbit(F, x)[n + 1] = F[Orbit(F, x)[n]]
<1> DEFINE A(n) == CHOOSE g \in Approx(F, x, S, n) : TRUE
           o == [n \in Nat |-> A(n)[n]]
           Rec(f) == f = [n \in Nat |-> IF n = 0 THEN x ELSE F[f[n - 1]]]
<1>1. \A n \in Nat : A(n) \in Approx(F, x, S, n)
  BY ApproxExists
<1> HIDE DEF A
<1>2. o \in [Nat -> S] /\ o[0] = x
  BY <1>1 DEF Approx
<1>3. \A n \in Nat : n > 0 => o[n] = F[o[n-1]]
  <2> SUFFICES ASSUME NEW n \in Nat, n > 0 PROVE A(n)[n] = F[A(n-1)[n-1]] OBVIOUS
  <2>1. A(n)[n] = F[A(n)[n-1]] BY <1>1 DEF Approx
  <2>2. A(n)[n-1] = A(n-1)[n-1]
    <3>1. n-1 \in Nat OBVIOUS
    <3>2. A(n) \in Approx(F, x, S, n) /\ A(n-1) \in Approx(F, x, S, n-1) BY <1>1, <3>1
    <3> QED BY <3>1, <3>2, ApproxUnique
  <2> QED BY <2>1, <2>2
<1>4. Rec(o) BY <1>2, <1>3
<1> HIDE DEF o
<1>5. Orbit(F, x) = CHOOSE f : Rec(f) BY DEF Orbit
<1>6. Rec(Orbit(F, x)) 
  <2> HIDE DEF Rec
  <2> QED BY <1>4, <1>5
<1> DEFINE q == Orbit(F, x)
<1>7. q = [n \in Nat |-> IF n = 0 THEN x ELSE F[q[n - 1]]]
  BY <1>6
<1> HIDE DEF q
<1>8. q[0] = x /\ \A n \in Nat : q[n+1] = F[q[n]]
  BY <1>7
<1>9. \A n \in Nat : q[n] \in S
  <2> DEFINE P == {n \in Nat : q[n] \in S}
  <2>1. 0 \in P /\ \A n \in Nat : n \in P => n + 1 \in P BY <1>8
  <2> QED BY <2>1, Induct, Zenon
<1>10. q \in [Nat -> S] BY <1>7, <1>9
<1> QED BY <1>8, <1>10 DEF q

\* Loop invariant rule: what the body F preserves holds after any number of rounds.
LEMMA OrbitInvariant ==
  ASSUME NEW S, NEW F \in [S -> S], NEW I, I \subseteq S, NEW x \in I,
         \A y \in I : F[y] \in I
  PROVE  \A n \in Nat : Orbit(F, x)[n] \in I
<1> DEFINE q == Orbit(F, x)
           P == {n \in Nat : q[n] \in I}
<1>1. q[0] = x /\ \A n \in Nat : q[n + 1] = F[q[n]]
  <2>1. x \in S OBVIOUS
  <2> QED BY <2>1, OrbitStep
<1> HIDE DEF q
<1>2. 0 \in P /\ \A n \in Nat : n \in P => n + 1 \in P
  BY <1>1
<1>3. Nat \subseteq P
  <2> HIDE DEF P
  <2> QED BY <1>2, Induct
<1> QED BY <1>3 DEF q

\* The same for a body that is only known to stay within I: the rounds are those of the
\* loop, and all its states are in I.
LEMMA OrbitWithin ==
  ASSUME NEW F, NEW I, NEW x \in I, \A y \in I : F[y] \in I
  PROVE  /\ Orbit(F, x)[0] = x
         /\ \A n \in Nat : /\ Orbit(F, x)[n] \in I
                           /\ Orbit(F, x)[n + 1] = F[Orbit(F, x)[n]]
<1> DEFINE G == [y \in I |-> F[y]]
           o == Orbit(G, x)
           Rec(f) == f = [n \in Nat |-> IF n = 0 THEN x ELSE F[f[n - 1]]]
           q == Orbit(F, x)
<1>1. G \in [I -> I]
  OBVIOUS
<1>2. o \in [Nat -> I] /\ o[0] = x /\ \A n \in Nat : o[n + 1] = G[o[n]]
  <2> HIDE DEF G
  <2> QED BY <1>1, OrbitStep
<1>3. \A n \in Nat : n # 0 => o[n] = F[o[n - 1]]
  <2> SUFFICES ASSUME NEW n \in Nat, n # 0 PROVE o[n] = F[o[n - 1]]
    OBVIOUS
  <2>1. n - 1 \in Nat /\ (n - 1) + 1 = n
    OBVIOUS
  <2> HIDE DEF o
  <2>2. o[n] = G[o[n - 1]] /\ o[n - 1] \in I
    BY <1>2, <2>1, Zenon
  <2> QED BY <2>2
<1> HIDE DEF o
<1>4. Rec(o)
  BY <1>2, <1>3, Zenon
<1>5. q = CHOOSE f : Rec(f)
  BY DEF Orbit
<1>6. Rec(q)
  <2> HIDE DEF Rec, q
  <2> QED BY <1>4, <1>5
<1> HIDE DEF q
<1>7. q[0] = x /\ \A n \in Nat : q[n + 1] = F[q[n]]
  BY <1>6
<1>8. \A n \in Nat : q[n] \in I
  <2> DEFINE P == {n \in Nat : q[n] \in I}
  <2>1. 0 \in P /\ \A n \in Nat : n \in P => n + 1 \in P BY <1>7
  <2> QED BY <2>1, Induct, Zenon
<1> QED BY <1>7, <1>8 DEF q
=============================================================================
