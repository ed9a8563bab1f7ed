-------------------------- MODULE WrappingIntegers --------------------------
(***************************************************************************)
(* 32-bit sequence numbers (libsponge/wrapping_integers.cc): wrap an       *)
(* absolute 64-bit number, and unwrap a 32-bit one near a checkpoint.      *)
(***************************************************************************)
EXTENDS Basics

CONSTANTS Mod32,   \* number of values of a uint32_t: 2^32 in the code
          Mod64    \* number of values of a uint64_t: 2^64 in the code

ASSUME ModAssumption ==
  /\ Mod32 \in Nat /\ Mod32 > 1 /\ Mod32 % 2 = 0
  /\ Mod64 \in Nat /\ Mod64 > Mod32 /\ Mod64 % Mod32 = 0

Seqno == 0..(Mod32 - 1)
UInt64 == 0..(Mod64 - 1)
SizeMax == Mod64 - 1         \* numeric_limits<uint64_t>::max()

Wrap(n, isn) == ((n % Mod32) + isn) % Mod32

\* n & 0xFFFFFFFF00000000
HighBits(n) == n - (n % Mod32)

Distance(a, b) == Larger(a, b) - Lesser(a, b)

\* Faulty variant of Unwrap: takes the high bits of the checkpoint as they are.
UnwrapSameWrap(n, isn, checkpoint) == ((n - isn) % Mod32) + HighBits(checkpoint)

\* 1 << 31 is an int, so it is sign extended to -2^31 when it meets the 64-bit
\* checkpoint: the first candidate lies half a wrap below, the second above.
Unwrap(n, isn, checkpoint) ==
  LET half == Mod32 \div 2
      low  == (n - isn) % Mod32
      res1 == low + HighBits((checkpoint - half) % Mod64)
      res2 == low + HighBits((checkpoint + half) % Mod64)
  IN  IF Distance(res1, checkpoint) < Distance(res2, checkpoint) THEN res1 ELSE res2
=============================================================================
