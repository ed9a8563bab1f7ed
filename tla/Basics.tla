------------------------------- MODULE Basics -------------------------------
(***************************************************************************)
(* Helpers shared by the component modules: std::min and std::max of two   *)
(* numbers, an entry put into or dropped from a map, and the unrolling of  *)
(* a while loop, and of a loop over a sequence.                            *)
(***************************************************************************)
EXTENDS Integers, Sequences

Lesser(a, b) == IF a < b THEN a ELSE b
Larger(a, b) == IF a < b THEN b ELSE a

\* A std::map as a function on the keys that have an entry.
Put(m, key, value) == [k \in DOMAIN m \cup {key} |-> IF k = key THEN value ELSE m[k]]
Drop(m, keys) == [k \in DOMAIN m \ keys |-> m[k]]

\* The states x, F[x], F[F[x]], ... of a loop whose body is F.  A loop that
\* leaves the state alone once its guard is false has settled at index n for
\* every n not below the number of rounds it makes.
Orbit(F, x) ==
  LET orb[n \in Nat] == IF n = 0 THEN x ELSE F[orb[n - 1]]
  IN  orb

\* A loop over the elements of a sequence: op(result so far, next element).  The set of
\* one element names the result so far, which op may use more than once.
FoldOver(op(_, _), base, seq) ==
  LET res[n \in 0..Len(seq)] ==
        IF n = 0 THEN base ELSE CHOOSE r \in {op(acc, seq[n]) : acc \in {res[n - 1]}} : TRUE
  IN  res[Len(seq)]
=============================================================================
