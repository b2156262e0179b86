------------------------------- MODULE Words --------------------------------
(***************************************************************************)
(* Bytes, machine words and the tables of interesting values of config.h.  *)
(* A buffer is a sequence of bytes; offsets are those of C, from 0.  A     *)
(* word of 8, 16 or 32 bits is the sequence of its bytes in memory, so on  *)
(* the little-endian machine the code is written for the first byte is the *)
(* least significant one and SWAP16 and SWAP32 are Reverse.                *)
(***************************************************************************)
EXTENDS Integers, Sequences, FiniteSets, SequencesExt

CONSTANT MAX_FILE   \* longest buffer

ASSUME WordsAssumption == MAX_FILE \in Nat

Byte == 0..255

\* the word of n bytes at offset i, and the buffer with word w written there
At(buf, i, n) == SubSeq(buf, i + 1, i + n)
Put(buf, i, w) == [k \in DOMAIN buf |-> IF k - i \in DOMAIN w THEN w[k - i] ELSE buf[k]]

Bit(w, k) == (w[(k \div 8) + 1] \div 2^(k % 8)) % 2

\* the bits in which two words differ: the set bits of old ^ new
Differing(v, w) == {k \in 0 .. 8 * Len(v) - 1 : Bit(v, k) # Bit(w, k)}

\* FLIP_BIT counts the bits of a byte from its most significant one
FLIP_BIT(buf, b) ==
  LET byte == buf[(b \div 8) + 1]
      m == 2^(7 - (b % 8))
  IN [buf EXCEPT ![(b \div 8) + 1] = IF (byte \div m) % 2 = 1 THEN byte - m ELSE byte + m]

Inverted(w) == [k \in DOMAIN w |-> 255 - w[k]]

\* what is carried out of the k lowest bytes of the word when d is added to it
Carry(w, d) ==
  LET c[k \in 0 .. Len(w)] == IF k = 0 THEN d ELSE (w[k] + c[k - 1]) \div 256
  IN c

\* word + d, modulo the size of the word; d may be negative
Plus(w, d) == [k \in DOMAIN w |-> (w[k] + Carry(w, d)[k - 1]) % 256]

interesting_8 == {<<v>> : v \in {128, 255, 0, 1, 16, 32, 64, 100, 127}}

\* the word of n bytes with the same signed value
Widened(w, n) ==
  [k \in 1 .. n |-> IF k <= Len(w) THEN w[k] ELSE IF w[Len(w)] >= 128 THEN 255 ELSE 0]

interesting_16 ==
  {Widened(w, 2) : w \in interesting_8} \cup
  {<<0, 128>>, <<127, 255>>, <<128, 0>>, <<255, 0>>, <<0, 1>>, <<0, 2>>,
   <<232, 3>>, <<0, 4>>, <<0, 16>>, <<255, 127>>}

interesting_32 ==
  {Widened(w, 4) : w \in interesting_16} \cup
  {<<0, 0, 0, 128>>, <<250, 0, 0, 250>>, <<255, 127, 255, 255>>, <<0, 128, 0, 0>>,
   <<255, 255, 0, 0>>, <<0, 0, 1, 0>>, <<5, 255, 255, 5>>, <<255, 255, 255, 127>>}

interesting(n) == CASE n = 1 -> interesting_8 [] n = 2 -> interesting_16 [] n = 4 -> interesting_32
=============================================================================
