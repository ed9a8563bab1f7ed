------------------------------- MODULE Parser -------------------------------
(***************************************************************************)
(* Reading and writing network byte order (libsponge/util/parser.cc), and  *)
(* the Internet checksum (libsponge/util/util.cc).  A buffer is a sequence *)
(* of bytes.  A token is kept as its bytes, most significant first; the    *)
(* 8-bit and 16-bit ones are turned into the number they stand for where   *)
(* the code computes with them.                                            *)
(***************************************************************************)
EXTENDS Basics, Sequences

Byte == 0..255

U8(token) == token[1]
U16(token) == 256 * token[1] + token[2]
Bytes16(n) == <<n \div 256, n % 256>>
Zeros(n) == [i \in 1..n |-> 0]

Bit(n, i) == (n \div 2^i) % 2 = 1
BitIf(condition, i) == IF condition THEN 2^i ELSE 0

\* A NetParser with the tokens it has read.
NewParser(buffer) == [buffer |-> buffer, error |-> "NoError", tokens |-> <<>>]

CheckSize(p, size) == IF size > Len(p.buffer) THEN [p EXCEPT !.error = "PacketTooShort"] ELSE p

RemovePrefix(p, n) ==
  LET q == CheckSize(p, n)
  IN  IF q.error # "NoError" THEN q ELSE [q EXCEPT !.buffer = SubSeq(@, n + 1, Len(@))]

\* After an error every token reads as zero.
ParseInt(p, len) ==
  LET q == CheckSize(p, len)
  IN  IF q.error # "NoError" THEN [q EXCEPT !.tokens = Append(@, Zeros(len))]
      ELSE [q EXCEPT !.tokens = Append(@, SubSeq(q.buffer, 1, len)),
                     !.buffer = SubSeq(@, len + 1, Len(@))]

ParseInts(p, lens) == FoldOver(ParseInt, p, lens)

\* std::string::resize(): cut off or filled up with zeros.
Resize(bytes, n) == SubSeq(bytes \o Zeros(n), 1, n)

-----------------------------------------------------------------------------
\* InternetChecksum: every other byte counts 256-fold.
AddBytes(sum, bytes) ==
  LET add[i \in 0..Len(bytes)] ==
        IF i = 0 THEN sum ELSE add[i - 1] + bytes[i] * (IF i % 2 = 1 THEN 256 ELSE 1)
  IN  add[Len(bytes)]

CheckValue(sum) ==
  LET fold[s \in Nat] == IF s > 65535 THEN fold[(s \div 65536) + (s % 65536)] ELSE s
  IN  65535 - fold[sum]
=============================================================================
