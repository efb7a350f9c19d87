--------------------------------- MODULE Crc ---------------------------------
(***************************************************************************)
(* The checksum of lib/crc.c: CRC-16 with the CCITT polynomial.  A word is *)
(* the set of the numbers of those of its bits that are 1, which is also   *)
(* the set of the exponents of a polynomial over the bits; ^ adds two.     *)
(***************************************************************************)
EXTENDS Integers, Sequences

Xor(S, T) == (S \ T) \cup (T \ S)

\* A byte's bits, and the byte that has these bits.
Weight == <<1, 2, 4, 8, 16, 32, 64, 128>>
BitsOf(byte) == {k \in 0..7 : (byte \div Weight[k + 1]) % 2 = 1}
ByteOf(S) ==
    LET bit(k) == IF k \in S THEN 1 ELSE 0
    IN  bit(0) + 2 * bit(1) + 4 * bit(2) + 8 * bit(3)
          + 16 * bit(4) + 32 * bit(5) + 64 * bit(6) + 128 * bit(7)

\* An lf_crc_t in memory, the least significant byte first.
CrcBytes(crc) == <<ByteOf(crc \cap 0..7), ByteOf({e - 8 : e \in crc \cap 8..15})>>

\* x^16 + x^12 + x^5 + 1, without x^16, which does not fit in a word.
POLY == {12, 5, 0}
Shifted(crc) == {e + 1 : e \in crc \ {15}}

\* Mutant: the polynomial is added before the shift.
Shift_After(crc) == IF 15 \in crc THEN Shifted(Xor(crc, POLY)) ELSE Shifted(crc)

\* One round of the inner loop.
Shift(crc) == IF 15 \in crc THEN Xor(Shifted(crc), POLY) ELSE Shifted(crc)

\* (uint16_t)*ptr: a char of the processors this runs on may have a sign, which
\* then fills the upper byte.
Widened(byte) == BitsOf(byte) \cup (IF byte >= 128 THEN 8..15 ELSE {})

\* What a byte does to the register, for every content of it: it is shifted to
\* the upper half, and what leaves the 16 bits is lost.
Register == SUBSET (0..15)
AddByte(byte) ==
    [crc \in Register |->
        LET upper == {k + 8 : k \in Widened(byte)} \cap 0..15
            round[i \in 0..8] == IF i = 0 THEN Xor(crc, upper) ELSE Shift(round[i - 1])
        IN  round[8]]

\* The bytes behind the first i, up to the j-th, one after the other.
Through(bytes, i, j) ==
    [crc \in Register |->
        LET upto[k \in i..j] == IF k = i THEN crc ELSE AddByte(bytes[k])[upto[k - 1]] IN upto[j]]

\* Half of the bytes and then the others, which TLC evaluates with half as many
\* calls inside each other.
calcrc(bytes) ==
    LET half == Len(bytes) \div 2
    IN  Through(bytes, half, Len(bytes))[Through(bytes, 0, half)[{}]]

\* Bytes that were cleared.
Zeros(n) == [i \in 1..n |-> 0]
-----------------------------------------------------------------------------
\* What the checksum should be: the remainder of a division of polynomials,
\* bringing down one coefficient of the dividend after the other, from the
\* highest of the first byte to the lowest of the last.
TimesX(S) == {e + 1 : e \in S}
Reduced(S) == IF 16 \in S THEN Xor(S, {16, 12, 5, 0}) ELSE S
BringDown(byte) ==
    [S \in Register |->
        LET upto[i \in 0..8] ==
              IF i = 0 THEN S
              ELSE Xor(Reduced(TimesX(upto[i - 1])), IF 8 - i \in BitsOf(byte) THEN {0} ELSE {})
        IN  upto[8]]
Remainder(bytes) ==
    LET upto[i \in 0..Len(bytes)] == IF i = 0 THEN {} ELSE BringDown(bytes[i])[upto[i - 1]]
    IN  upto[Len(bytes)]
==============================================================================
