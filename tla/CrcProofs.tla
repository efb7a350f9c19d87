------------------------------ MODULE CrcProofs ------------------------------
(***************************************************************************)
(* Proofs about the checksum, for messages of every length: it is the      *)
(* remainder of a division of polynomials, and two messages that differ in *)
(* one byte have different ones.  The loops are recursive functions; what  *)
(* they compute is proved by induction over their rounds.                  *)
(***************************************************************************)
EXTENDS FmrTest, Crc, SequenceTheorems, WellFoundedInduction, TLAPS

\* Induction from i up to j: a set of numbers with the first and, after each
\* but the last, the next one has them all.  It serves the loops of calcrc,
\* lf_invoke_by_index and fmr_rpc.
LEMMA Upward ==
    ASSUME NEW i \in Nat, NEW j \in Nat, NEW P, i \in P,
           \A k \in i+1..j : k - 1 \in P => k \in P
    PROVE  \A k \in i..j : k \in P
<1> DEFINE S == {k \in i..j : k \notin P}
           R == OpToRel(<, Nat)
<1>1. IsWellFoundedOn(R, Nat)
  BY NatLessThanWellFounded, Zenon
<1>2. \A x, y \in Nat : x < y => <<x, y>> \in R
  BY Zenon DEF OpToRel
<1> HIDE DEF R
<1> SUFFICES ASSUME S # {} PROVE FALSE
  BY Zenon
<1>3. S \in SUBSET Nat
  OBVIOUS
<1>4. PICK x \in S : \A y \in S : ~ (<<y, x>> \in R)
  BY <1>1, <1>3, WFMin, Zenon
<1>5. x \in i+1..j /\ x - 1 \in Nat /\ x - 1 < x
  BY <1>4
<1>6. x - 1 \in S /\ x \in Nat
  BY <1>4, <1>5
<1>7. <<x - 1, x>> \in R
  BY <1>2, <1>5, <1>6, Zenon
<1> HIDE DEF S
<1> QED
  BY <1>4, <1>6, <1>7, ZenonT(60)

\* A loop that replaces a value of D by another one in each of the rounds i+1 to
\* j, and its runs from a.
IsLoop(i, j, D, step) ==
    i \in Nat /\ j \in Nat /\ i <= j /\ \A k \in i+1..j : step[k] \in [D -> D]
HasRun(i, j, D, a, step) ==
    \E f \in [i..j -> D] : f[i] = a /\ \A k \in i+1..j : f[k] = step[k][f[k - 1]]

\* A loop has a run.
LEMMA LoopRuns ==
    ASSUME NEW i, NEW j, NEW D, NEW a \in D, NEW step, IsLoop(i, j, D, step)
    PROVE  HasRun(i, j, D, a, step)
<1> USE DEF IsLoop
<1> DEFINE Run(n, f) == f[i] = a /\ \A k \in i+1..n : f[k] = step[k][f[k - 1]]
           P == {n \in i..j : \E f \in [i..n -> D] : Run(n, f)}
<1>1. i \in P
  <2> DEFINE f == [k \in i..i |-> a]
  <2>1. f \in [i..i -> D] /\ Run(i, f)
    OBVIOUS
  <2>2. i \in i..j
    OBVIOUS
  <2> HIDE DEF f
  <2> QED
    BY <2>1, <2>2, Zenon
<1>2. ASSUME NEW n \in i+1..j, n - 1 \in P PROVE n \in P
  <2>1. PICK f \in [i..n-1 -> D] : Run(n - 1, f)
    BY <1>2, Zenon
  <2> DEFINE g == [k \in i..n |-> IF k = n THEN step[n][f[n - 1]] ELSE f[k]]
  <2>2. step[n][f[n - 1]] \in D
    <3>1. f[n - 1] \in D /\ step[n] \in [D -> D]
      BY <2>1
    <3> QED
      BY <3>1, Zenon
  <2>3. g \in [i..n -> D]
    BY <2>1, <2>2
  <2>4. Run(n, g)
    <3>1. g[i] = a
      BY <2>1
    <3>2. ASSUME NEW k \in i+1..n PROVE g[k] = step[k][g[k - 1]]
      <4>1. CASE k = n
        <5>1. g[k - 1] = f[n - 1]
          BY <4>1
        <5> QED
          BY <4>1, <5>1
      <4>2. CASE k # n
        <5>1. k \in i+1..n-1 /\ g[k] = f[k] /\ g[k - 1] = f[k - 1]
          BY <4>2, SMTT(60)
        <5> QED
          BY <5>1, <2>1, Zenon
      <4> QED
        BY <4>1, <4>2, Zenon
    <3> QED
      BY <3>1, <3>2, Zenon
  <2>5. \E h \in [i..n -> D] : Run(n, h)
    BY <2>3, <2>4, Zenon
  <2> QED
    BY <2>5
<1>3. j \in P
  <2>1. i \in Nat /\ j \in Nat /\ j \in i..j
    OBVIOUS
  <2> HIDE DEF P
  <2>2. \A k \in i..j : k \in P
    BY <1>1, <1>2, <2>1, Upward, Zenon
  <2> QED
    BY <2>1, <2>2, Zenon
<1> QED
  BY <1>3, Zenon DEF HasRun
-----------------------------------------------------------------------------
(***************************************************************************)
(* The register of calcrc.                                                 *)
(***************************************************************************)
\* Exclusive or of two registers, and with the same register twice.
LEMMA XorRegister ==
    ASSUME NEW a \in Register, NEW b \in Register
    PROVE  /\ Xor(a, b) \in Register
           /\ \A e : e \in Xor(a, b) <=> (e \in a /\ e \notin b) \/ (e \notin a /\ e \in b)
           /\ Xor(a, Xor(a, b)) = b
           /\ Xor(a, b) = Xor(b, a)
BY Zenon DEF Xor, Register

\* Exclusive or is associative.
LEMMA XorAssociative ==
    ASSUME NEW a, NEW b, NEW c
    PROVE  Xor(Xor(a, b), c) = Xor(a, Xor(b, c))
BY Zenon DEF Xor

\* One round, bit by bit: a bit is the one below it before, or its opposite if
\* the highest bit was set and the polynomial has it.
LEMMA ShiftBits ==
    ASSUME NEW a \in Register
    PROVE  /\ Shift(a) \in Register
           /\ \A e \in 1..15 : e \in Shift(a) <=>
                (e - 1 \in a /\ ~(15 \in a /\ e \in {12, 5})) \/ (e - 1 \notin a /\ 15 \in a /\ e \in {12, 5})
           /\ 0 \in Shift(a) <=> 15 \in a
<1>1. Shifted(a) \in Register /\ 0 \notin Shifted(a)
  BY DEF Shifted, Register
<1>2. \A e \in 1..15 : e \in Shifted(a) <=> e - 1 \in a
  BY DEF Shifted, Register
<1>3. CASE 15 \in a
  <2>1. Shift(a) = Xor(Shifted(a), POLY) /\ POLY \in Register
    BY <1>3, SMTT(60) DEF Shift, POLY, Register
  <2>2. /\ Shift(a) \in Register
        /\ \A e : e \in Shift(a) <=>
                (e \in Shifted(a) /\ e \notin POLY) \/ (e \notin Shifted(a) /\ e \in POLY)
    BY <1>1, <2>1, XorRegister
  <2>3. 0 \in POLY /\ \A e \in 1..15 : e \in POLY <=> e \in {12, 5}
    BY DEF POLY
  <2> QED
    BY <1>1, <1>2, <1>3, <2>2, <2>3, Zenon
<1>4. CASE 15 \notin a
  <2>1. Shift(a) = Shifted(a)
    BY <1>4, Zenon DEF Shift
  <2> QED
    BY <1>1, <1>2, <1>4, <2>1, Zenon
<1> QED
  BY <1>3, <1>4, Zenon

\* Two registers are equal if they agree on every bit.
LEMMA SameRegister ==
    ASSUME NEW a \in Register, NEW b \in Register,
           \A e \in 0..15 : e \in a <=> e \in b
    PROVE  a = b
BY Zenon DEF Register

\* A round distributes over exclusive or.
LEMMA ShiftLinear ==
    ASSUME NEW a \in Register, NEW b \in Register
    PROVE  Shift(Xor(a, b)) = Xor(Shift(a), Shift(b))
<1> DEFINE x == Xor(a, b)
<1>1. x \in Register /\ \A e : e \in x <=> (e \in a /\ e \notin b) \/ (e \notin a /\ e \in b)
  BY XorRegister, Zenon
<1> HIDE DEF x
<1>2. /\ Shift(a) \in Register
      /\ Shift(b) \in Register
      /\ Shift(x) \in Register
  BY <1>1, ShiftBits, Zenon
<1> DEFINE y == Xor(Shift(a), Shift(b))
<1>3. /\ y \in Register
      /\ \A e : e \in y <=>
                (e \in Shift(a) /\ e \notin Shift(b)) \/ (e \notin Shift(a) /\ e \in Shift(b))
  BY <1>2, XorRegister
<1> HIDE DEF y
<1>4. 0 \in Shift(x) <=> 0 \in y
  <2>1. /\ 0 \in Shift(a) <=> 15 \in a
        /\ 0 \in Shift(b) <=> 15 \in b
        /\ 0 \in Shift(x) <=> 15 \in x
    BY <1>1, ShiftBits, Zenon
  <2> QED
    BY <1>1, <1>3, <2>1, Zenon
<1>5. ASSUME NEW e \in 1..15 PROVE e \in Shift(x) <=> e \in y
  <2> DEFINE Bit(z) == (e - 1 \in z /\ ~(15 \in z /\ e \in {12, 5})) \/
                     (e - 1 \notin z /\ 15 \in z /\ e \in {12, 5})
  <2>1. (e \in Shift(a) <=> Bit(a)) /\ (e \in Shift(b) <=> Bit(b)) /\ (e \in Shift(x) <=> Bit(x))
    BY <1>1, ShiftBits, Zenon
  <2>2. Bit(x) <=> (Bit(a) /\ ~Bit(b)) \/ (~Bit(a) /\ Bit(b))
    BY <1>1, Zenon
  <2> QED
    BY <1>3, <2>1, <2>2, Zenon
<1>6. Shift(x) = y
  <2>1. \A e \in 0..15 : e = 0 \/ e \in 1..15
    OBVIOUS
  <2>2. \A e \in 0..15 : e \in Shift(x) <=> e \in y
    BY <1>4, <1>5, <2>1, Zenon
  <2> QED
    BY <1>2, <1>3, <2>2, SameRegister, Zenon
<1> QED
  BY <1>6, Zenon DEF x, y

\* A round loses nothing: x^16 + x^12 + x^5 + 1 ends in 1.
LEMMA ShiftInjective ==
    ASSUME NEW a \in Register, NEW b \in Register, Shift(a) = Shift(b)
    PROVE  a = b
<1>1. 15 \in a <=> 15 \in b
  BY ShiftBits, Zenon
<1>2. ASSUME NEW e \in 1..15 PROVE e - 1 \in a <=> e - 1 \in b
  <2> DEFINE Bit(z) == (e - 1 \in z /\ ~(15 \in z /\ e \in {12, 5})) \/
                     (e - 1 \notin z /\ 15 \in z /\ e \in {12, 5})
  <2>1. (e \in Shift(a) <=> Bit(a)) /\ (e \in Shift(b) <=> Bit(b))
    BY ShiftBits, Zenon
  <2> QED
    BY <1>1, <2>1, Zenon
<1>3. ASSUME NEW d \in 0..14 PROVE d \in a <=> d \in b
  <2>1. d + 1 \in 1..15 /\ (d + 1) - 1 = d
    OBVIOUS
  <2> QED
    BY <2>1, <1>2, Zenon
<1>4. \A e \in 0..15 : e = 15 \/ e \in 0..14
  OBVIOUS
<1>5. \A e \in 0..15 : e \in a <=> e \in b
  BY <1>1, <1>3, <1>4, Zenon
<1> QED
  BY <1>5, SameRegister, Zenon
-----------------------------------------------------------------------------
\* A byte is the number with its bits.
LEMMA ByteOfItsBits ==
    ASSUME NEW b \in Byte
    PROVE  BitsOf(b) \in SUBSET (0..7) /\ ByteOf(BitsOf(b)) = b
<1> DEFINE bit(k) == IF k \in BitsOf(b) THEN 1 ELSE 0
<1>1. b \in 0..255
  BY Zenon DEF Byte
<1>2. /\ bit(0) = (b \div 1) % 2 /\ bit(1) = (b \div 2) % 2
      /\ bit(2) = (b \div 4) % 2 /\ bit(3) = (b \div 8) % 2
      /\ bit(4) = (b \div 16) % 2 /\ bit(5) = (b \div 32) % 2
      /\ bit(6) = (b \div 64) % 2 /\ bit(7) = (b \div 128) % 2
  BY <1>1, SMTT(60) DEF BitsOf, Weight
<1>3. ((b \div 1) % 2) + 2 * ((b \div 2) % 2) + 4 * ((b \div 4) % 2) + 8 * ((b \div 8) % 2)
        + 16 * ((b \div 16) % 2) + 32 * ((b \div 32) % 2) + 64 * ((b \div 64) % 2)
        + 128 * ((b \div 128) % 2) = b
  BY <1>1, SMTT(60)
<1>4. ByteOf(BitsOf(b)) = bit(0) + 2 * bit(1) + 4 * bit(2) + 8 * bit(3)
                            + 16 * bit(4) + 32 * bit(5) + 64 * bit(6) + 128 * bit(7)
  BY Zenon DEF ByteOf
<1> HIDE DEF bit
<1>5. ByteOf(BitsOf(b)) = b
  BY <1>2, <1>3, <1>4, Zenon
<1> QED
  BY <1>5, Zenon DEF BitsOf

\* The number with these bits has these bits.
LEMMA BitsOfByte ==
    ASSUME NEW S \in SUBSET (0..7)
    PROVE  ByteOf(S) \in Byte /\ BitsOf(ByteOf(S)) = S
<1> DEFINE bit(k) == IF k \in S THEN 1 ELSE 0
           n == ByteOf(S)
<1>1. \A k \in 0..7 : bit(k) \in {0, 1} /\ (bit(k) = 1 <=> k \in S)
  OBVIOUS
<1>2. n = bit(0) + 2 * bit(1) + 4 * bit(2) + 8 * bit(3)
            + 16 * bit(4) + 32 * bit(5) + 64 * bit(6) + 128 * bit(7)
  BY Zenon DEF ByteOf
<1> HIDE DEF bit, n
<1>3. /\ bit(0) \in {0, 1} /\ bit(1) \in {0, 1} /\ bit(2) \in {0, 1} /\ bit(3) \in {0, 1}
      /\ bit(4) \in {0, 1} /\ bit(5) \in {0, 1} /\ bit(6) \in {0, 1} /\ bit(7) \in {0, 1}
  BY <1>1, SMTT(60)
<1>4. n \in 0..255
  BY <1>2, <1>3
<1>5. /\ (n \div 1) % 2 = bit(0) /\ (n \div 2) % 2 = bit(1)
      /\ (n \div 4) % 2 = bit(2) /\ (n \div 8) % 2 = bit(3)
      /\ (n \div 16) % 2 = bit(4) /\ (n \div 32) % 2 = bit(5)
      /\ (n \div 64) % 2 = bit(6) /\ (n \div 128) % 2 = bit(7)
  <2>1. (n \div 1) % 2 = bit(0)
    <3>1. n \div 1 = bit(0) + 2 * bit(1) + 4 * bit(2) + 8 * bit(3) + 16 * bit(4) + 32 * bit(5) + 64 * bit(6) + 128 * bit(7)
      BY <1>2, <1>3
    <3> QED
      BY <1>3, <3>1
  <2>2. (n \div 2) % 2 = bit(1)
    <3>1. n \div 2 = bit(1) + 2 * bit(2) + 4 * bit(3) + 8 * bit(4) + 16 * bit(5) + 32 * bit(6) + 64 * bit(7)
      BY <1>2, <1>3
    <3> QED
      BY <1>3, <3>1
  <2>3. (n \div 4) % 2 = bit(2)
    <3>1. n \div 4 = bit(2) + 2 * bit(3) + 4 * bit(4) + 8 * bit(5) + 16 * bit(6) + 32 * bit(7)
      BY <1>2, <1>3
    <3> QED
      BY <1>3, <3>1
  <2>4. (n \div 8) % 2 = bit(3)
    <3>1. n \div 8 = bit(3) + 2 * bit(4) + 4 * bit(5) + 8 * bit(6) + 16 * bit(7)
      BY <1>2, <1>3
    <3> QED
      BY <1>3, <3>1
  <2>5. (n \div 16) % 2 = bit(4)
    <3>1. n \div 16 = bit(4) + 2 * bit(5) + 4 * bit(6) + 8 * bit(7)
      BY <1>2, <1>3
    <3> QED
      BY <1>3, <3>1
  <2>6. (n \div 32) % 2 = bit(5)
    <3>1. n \div 32 = bit(5) + 2 * bit(6) + 4 * bit(7)
      BY <1>2, <1>3
    <3> QED
      BY <1>3, <3>1
  <2>7. (n \div 64) % 2 = bit(6)
    <3>1. n \div 64 = bit(6) + 2 * bit(7)
      BY <1>2, <1>3
    <3> QED
      BY <1>3, <3>1
  <2>8. (n \div 128) % 2 = bit(7)
    BY <1>2, <1>3
  <2> QED
    BY <2>1, <2>2, <2>3, <2>4, <2>5, <2>6, <2>7, <2>8, ZenonT(60)
<1>6. ASSUME NEW k \in 0..7 PROVE (n \div Weight[k + 1]) % 2 = 1 <=> k \in S
  BY <1>1, <1>5 DEF Weight
<1>7. BitsOf(n) = S
  BY <1>6, Zenon DEF BitsOf
<1> QED
  BY <1>4, <1>7, ZenonT(60) DEF n, Byte
-----------------------------------------------------------------------------
\* Two, four and eight rounds.
Shift2(c) == Shift(Shift(c))
Shift4(c) == Shift2(Shift2(c))
Shift8(c) == Shift4(Shift4(c))

\* Eight rounds stay within 16 bits, distribute over exclusive or and lose
\* nothing.
LEMMA Shift8Facts ==
    ASSUME NEW a \in Register, NEW b \in Register
    PROVE  /\ Shift8(a) \in Register
           /\ Shift8(Xor(a, b)) = Xor(Shift8(a), Shift8(b))
           /\ Shift8(a) = Shift8(b) => a = b
<1>1. ASSUME NEW x \in Register, NEW y \in Register
      PROVE  /\ Shift2(x) \in Register
             /\ Shift2(Xor(x, y)) = Xor(Shift2(x), Shift2(y))
             /\ Shift2(x) = Shift2(y) => x = y
  <2>1. Shift(x) \in Register /\ Shift(y) \in Register
    BY <1>1, ShiftBits, Zenon
  <2>2. Shift(Shift(x)) \in Register
    BY <2>1, ShiftBits, Zenon
  <2>3. Shift(Shift(Xor(x, y))) = Xor(Shift(Shift(x)), Shift(Shift(y)))
    BY <1>1, <2>1, ShiftLinear, Zenon
  <2>4. Shift(Shift(x)) = Shift(Shift(y)) => x = y
    BY <1>1, <2>1, ShiftInjective, Zenon
  <2> QED
    BY <2>2, <2>3, <2>4, Zenon DEF Shift2
<1>2. ASSUME NEW x \in Register, NEW y \in Register
      PROVE  /\ Shift4(x) \in Register
             /\ Shift4(Xor(x, y)) = Xor(Shift4(x), Shift4(y))
             /\ Shift4(x) = Shift4(y) => x = y
  <2>1. Shift2(x) \in Register /\ Shift2(y) \in Register
    BY <1>1, <1>2, Zenon
  <2>2. Shift2(Shift2(x)) \in Register
    BY <2>1, <1>1, Zenon
  <2>3. Shift2(Shift2(Xor(x, y))) = Xor(Shift2(Shift2(x)), Shift2(Shift2(y)))
    <3>1. Shift2(Xor(x, y)) = Xor(Shift2(x), Shift2(y))
      BY <1>1, <1>2, Zenon
    <3> QED
      BY <1>1, <2>1, <3>1
  <2>4. Shift2(Shift2(x)) = Shift2(Shift2(y)) => x = y
    <3>1. Shift2(x) = Shift2(y) => x = y
      BY <1>1, <1>2, Zenon
    <3> QED
      BY <1>1, <2>1, <3>1, Zenon
  <2> QED
    BY <2>2, <2>3, <2>4, Zenon DEF Shift4
<1>3. Shift4(a) \in Register /\ Shift4(b) \in Register
  BY <1>2, Zenon
<1>4. Shift4(Shift4(a)) \in Register
  BY <1>2, <1>3, Zenon
<1>5. Shift4(Shift4(Xor(a, b))) = Xor(Shift4(Shift4(a)), Shift4(Shift4(b)))
  <2>1. Shift4(Xor(a, b)) = Xor(Shift4(a), Shift4(b))
    BY <1>2, Zenon
  <2> QED
    BY <1>2, <1>3, <2>1
<1>6. Shift4(Shift4(a)) = Shift4(Shift4(b)) => a = b
  <2>1. Shift4(a) = Shift4(b) => a = b
    BY <1>2, Zenon
  <2> QED
    BY <1>2, <1>3, <2>1, Zenon
<1> QED
  BY <1>4, <1>5, <1>6, Zenon DEF Shift8

\* The inner loop of calcrc has a run, and after it the register has been
\* shifted eight times.
LEMMA EightRounds ==
    ASSUME NEW a \in Register
    PROVE  /\ \E f : f = [i \in 0..8 |-> IF i = 0 THEN a ELSE Shift(f[i - 1])]
           /\ \A f : f = [i \in 0..8 |-> IF i = 0 THEN a ELSE Shift(f[i - 1])] => f[8] = Shift8(a)
<1> DEFINE Is(f) == f = [i \in 0..8 |-> IF i = 0 THEN a ELSE Shift(f[i - 1])]
<1>1. \E f : Is(f)
  <2> DEFINE step == [k \in 1..8 |-> [c \in Register |-> Shift(c)]]
  <2>1. IsLoop(0, 8, Register, step)
    BY ShiftBits DEF IsLoop
  <2>2. PICK f \in [0..8 -> Register] : f[0] = a /\ \A k \in 0+1..8 : f[k] = step[k][f[k - 1]]
    <3> HIDE DEF step
    <3>1. HasRun(0, 8, Register, a, step)
      BY <2>1, LoopRuns, Zenon
    <3> QED
      BY <3>1, Zenon DEF HasRun
  <2>3. ASSUME NEW i \in 0..8 PROVE f[i] = IF i = 0 THEN a ELSE Shift(f[i - 1])
    BY <2>2
  <2>4. Is(f)
    BY <2>2, <2>3, Zenon
  <2> QED
    BY <2>4, Zenon
<1>2. ASSUME NEW f, Is(f) PROVE f[8] = Shift8(a)
  <2>1. \A i \in 0..8 : f[i] = IF i = 0 THEN a ELSE Shift(f[i - 1])
    BY <1>2, Zenon
  <2>2. f[0] = a /\ f[1] = Shift(f[0]) /\ f[2] = Shift(f[1])
    BY <2>1
  <2>3. f[3] = Shift(f[2]) /\ f[4] = Shift(f[3]) /\ f[5] = Shift(f[4])
    BY <2>1
  <2>4. f[6] = Shift(f[5]) /\ f[7] = Shift(f[6]) /\ f[8] = Shift(f[7])
    BY <2>1
  <2> QED
    BY <2>2, <2>3, <2>4, Zenon DEF Shift8, Shift4, Shift2
<1> QED
  BY <1>1, <1>2, Zenon

\* A byte in the upper half of the register.
High(b) == {k + 8 : k \in BitsOf(b)}

\* The sign of a char leaves no trace in the register (crc.c, line 12).
LEMMA SignIsLost ==
    ASSUME NEW b
    PROVE  {k + 8 : k \in Widened(b)} \cap 0..15 = High(b)
<1>1. BitsOf(b) \subseteq 0..7
  BY Zenon DEF BitsOf
<1>2. ASSUME NEW k \in 8..15 PROVE k + 8 \notin 0..15
  OBVIOUS
<1>3. ASSUME NEW k \in 0..7 PROVE k + 8 \in 0..15
  OBVIOUS
<1> QED
  BY <1>1, <1>2, <1>3, ZenonT(60) DEF Widened, High

\* What calcrc does to the register for a byte.
LEMMA AddByteIs ==
    ASSUME NEW b, NEW c \in Register
    PROVE  /\ High(b) \in Register
           /\ AddByte(b)[c] = Shift8(Xor(c, High(b)))
           /\ AddByte(b)[c] \in Register
<1>1. High(b) \in Register
  BY SMTT(60) DEF High, BitsOf, Register
<1> DEFINE a == Xor(c, High(b))
<1>2. a \in Register
  BY <1>1, XorRegister, Zenon
<1> DEFINE Is(f) == f = [i \in 0..8 |-> IF i = 0 THEN a ELSE Shift(f[i - 1])]
<1>3. AddByte(b)[c] = (CHOOSE f : Is(f))[8]
  BY SignIsLost, Zenon DEF AddByte
<1> HIDE DEF a
<1>4. \E f : Is(f)
  BY <1>2, EightRounds, Zenon
<1>5. Is(CHOOSE f : Is(f))
  <2> HIDE DEF Is
  <2> QED
    BY <1>4, Zenon
<1>6. AddByte(b)[c] = Shift8(a)
  BY <1>2, <1>3, <1>5, EightRounds, Zenon
<1> QED
  BY <1>1, <1>2, <1>6, Shift8Facts, Zenon DEF a

\* Different registers stay different, and different bytes tell the registers
\* apart.
LEMMA AddByteInjective ==
    ASSUME NEW b \in Byte, NEW c \in Register
    PROVE  /\ \A d \in Register : AddByte(b)[c] = AddByte(b)[d] => c = d
           /\ \A z \in Byte : AddByte(b)[c] = AddByte(z)[c] => b = z
<1>1. ASSUME NEW x \in Register, NEW y \in Register, NEW z \in Register, Xor(x, y) = Xor(x, z)
      PROVE  y = z
  <2>1. Xor(x, Xor(x, y)) = y
    BY XorRegister, Zenon
  <2>2. Xor(x, Xor(x, z)) = z
    BY XorRegister, Zenon
  <2> QED
    BY <1>1, <2>1, <2>2, Zenon
<1>2. ASSUME NEW d \in Register, AddByte(b)[c] = AddByte(b)[d] PROVE c = d
  <2> DEFINE h == High(b)
  <2>1. h \in Register /\ Xor(c, h) \in Register /\ Xor(d, h) \in Register
    BY AddByteIs, XorRegister, Zenon
  <2>2. Shift8(Xor(c, h)) = Shift8(Xor(d, h))
    BY <1>2, AddByteIs, Zenon
  <2> HIDE DEF h
  <2>3. Xor(c, h) = Xor(d, h)
    BY <2>1, <2>2, Shift8Facts, Zenon
  <2>4. Xor(h, c) = Xor(h, d)
    BY <2>1, <2>3, XorRegister, ZenonT(60)
  <2> QED
    BY <1>1, <2>1, <2>4, Zenon
<1>3. ASSUME NEW z \in Byte, AddByte(b)[c] = AddByte(z)[c] PROVE b = z
  <2>1. /\ High(b) \in Register /\ Xor(c, High(b)) \in Register
        /\ High(z) \in Register /\ Xor(c, High(z)) \in Register
    BY AddByteIs, XorRegister, ZenonT(60)
  <2>2. Shift8(Xor(c, High(b))) = Shift8(Xor(c, High(z)))
    BY <1>3, AddByteIs, ZenonT(60)
  <2>3. High(b) = High(z)
    <3>1. Xor(c, High(b)) = Xor(c, High(z))
      BY <2>1, <2>2, Shift8Facts, Zenon
    <3> QED
      BY <1>1, <2>1, <3>1, Zenon
  <2>4. BitsOf(b) \in SUBSET Int /\ BitsOf(z) \in SUBSET Int
    BY SMTT(60) DEF BitsOf
  <2>5. \A k \in Int : (k \in BitsOf(b) <=> k + 8 \in High(b)) /\ (k \in BitsOf(z) <=> k + 8 \in High(z))
    BY <2>4 DEF High
  <2>6. BitsOf(b) = BitsOf(z)
    BY <2>3, <2>4, <2>5, Zenon
  <2> QED
    BY <2>6, ByteOfItsBits, Zenon
<1> QED
  BY <1>2, <1>3, Zenon

\* The registers of calcrc after each of the bytes i to j, from c on.
Registers(bytes, i, j, c, f) ==
    f \in [i..j -> Register] /\ f[i] = c /\ \A k \in i+1..j : f[k] = AddByte(bytes[k])[f[k - 1]]

\* The loop of calcrc, over any of the bytes.
LEMMA ThroughIs ==
    ASSUME NEW bytes, NEW i \in Nat, NEW j \in Nat, i <= j, NEW c \in Register
    PROVE  \E f : Registers(bytes, i, j, c, f) /\ Through(bytes, i, j)[c] = f[j]
<1> DEFINE Is(f) == f = [k \in i..j |-> IF k = i THEN c ELSE AddByte(bytes[k])[f[k - 1]]]
           step == [k \in i+1..j |-> [x \in Register |-> AddByte(bytes[k])[x]]]
<1>1. \E f : Is(f)
  <2>1. IsLoop(i, j, Register, step)
    BY AddByteIs, Zenon DEF IsLoop
  <2>2. PICK f \in [i..j -> Register] : f[i] = c /\ \A k \in i+1..j : f[k] = step[k][f[k - 1]]
    <3> HIDE DEF step
    <3>1. HasRun(i, j, Register, c, step)
      BY <2>1, LoopRuns, Zenon
    <3> QED
      BY <3>1, Zenon DEF HasRun
  <2>3. ASSUME NEW k \in i..j PROVE f[k] = IF k = i THEN c ELSE AddByte(bytes[k])[f[k - 1]]
    <3>1. CASE k = i
      BY <2>2, <3>1, ZenonT(60)
    <3>2. CASE k # i
      <4>1. k \in i+1..j /\ k - 1 \in i..j /\ f[k - 1] \in Register
        BY <2>2, <3>2
      <4> QED
        BY <2>2, <3>2, <4>1, Zenon
    <3> QED
      BY <3>1, <3>2, Zenon
  <2>4. Is(f)
    BY <2>2, <2>3, Zenon
  <2> QED
    BY <2>4, ZenonT(60)
<1> DEFINE f == CHOOSE f : Is(f)
<1>2. Is(f)
  <2> HIDE DEF Is
  <2> QED
    BY <1>1, Zenon
<1>3. Through(bytes, i, j)[c] = f[j]
  BY Zenon DEF Through
<1> HIDE DEF f
<1>4. \A k \in i..j : f[k] = IF k = i THEN c ELSE AddByte(bytes[k])[f[k - 1]]
  BY <1>2, Zenon
<1>5. f[i] = c /\ \A k \in i+1..j : f[k] = AddByte(bytes[k])[f[k - 1]]
  BY <1>4
<1>6. \A k \in i..j : f[k] \in Register
  <2> DEFINE P == {k \in i..j : f[k] \in Register}
  <2>1. i \in P
    BY <1>5
  <2>2. ASSUME NEW k \in i+1..j, k - 1 \in P PROVE k \in P
    <3>1. AddByte(bytes[k])[f[k - 1]] \in Register
      BY <2>2, AddByteIs, Zenon
    <3> QED
      BY <1>5, <3>1
  <2> HIDE DEF P
  <2>3. \A k \in i..j : k \in P
    BY <2>1, <2>2, Upward, Zenon
  <2> QED
    BY <2>3, Zenon DEF P
<1>7. f \in [i..j -> Register]
  <2>1. f = [k \in i..j |-> f[k]]
    BY <1>2, Zenon
  <2> QED
    BY <1>6, <2>1, Zenon
<1> QED
  BY <1>3, <1>5, <1>7, Zenon DEF Registers

\* calcrc goes through all the bytes from an empty register.
LEMMA CalcrcIs ==
    ASSUME NEW bytes \in Seq(Byte)
    PROVE  \E f : Registers(bytes, 0, Len(bytes), {}, f) /\ calcrc(bytes) = f[Len(bytes)]
<1> DEFINE n == Len(bytes)
           half == n \div 2
           c == Through(bytes, 0, half)[{}]
<1>1. n \in Nat /\ half \in Nat /\ 0 <= half /\ half <= n /\ 0 \in Nat
  OBVIOUS
<1>2. {} \in Register
  BY Zenon DEF Register
<1>3. calcrc(bytes) = Through(bytes, half, n)[c]
  BY Zenon DEF calcrc
<1> HIDE DEF half, n
<1>4. PICK g : Registers(bytes, 0, half, {}, g) /\ c = g[half]
  BY <1>1, <1>2, ThroughIs, ZenonT(60)
<1>5. g \in [0..half -> Register] /\ g[0] = {} /\ \A k \in 0+1..half : g[k] = AddByte(bytes[k])[g[k - 1]]
  BY <1>4, Zenon DEF Registers
<1>6. c \in Register
  BY <1>1, <1>4, <1>5
<1> HIDE DEF c
<1>7. PICK h : Registers(bytes, half, n, c, h) /\ Through(bytes, half, n)[c] = h[n]
  BY <1>1, <1>6, ThroughIs, ZenonT(60)
<1>8. h \in [half..n -> Register] /\ h[half] = c /\ \A k \in half+1..n : h[k] = AddByte(bytes[k])[h[k - 1]]
  BY <1>7, Zenon DEF Registers
<1> DEFINE f == [k \in 0..n |-> IF k <= half THEN g[k] ELSE h[k]]
<1>9. f \in [0..n -> Register]
  BY <1>1, <1>5, <1>8
<1>10. f[0] = {}
  BY <1>1, <1>5
<1>11. ASSUME NEW k \in 0+1..n PROVE f[k] = AddByte(bytes[k])[f[k - 1]]
  <2>1. CASE k <= half
    <3>1. k \in 0+1..half /\ f[k] = g[k] /\ f[k - 1] = g[k - 1]
      BY <1>1, <2>1
    <3> HIDE DEF f
    <3> QED
      BY <1>5, <3>1, Zenon
  <2>2. CASE k > half
    <3>1. k \in half+1..n /\ f[k] = h[k]
      BY <1>1, <2>2
    <3>2. f[k - 1] = h[k - 1]
      BY <1>1, <1>4, <1>8, <2>2
    <3> HIDE DEF f
    <3> QED
      BY <1>8, <3>1, <3>2, ZenonT(60)
  <2> QED
    BY <1>1, <2>1, <2>2
<1>12. f[n] = h[n]
  BY <1>1, <1>4, <1>8
<1> HIDE DEF f
<1>13. Registers(bytes, 0, n, {}, f)
  BY <1>9, <1>10, <1>11, Zenon DEF Registers
<1>14. calcrc(bytes) = f[n]
  BY <1>3, <1>7, <1>12, Zenon
<1> QED
  BY <1>13, <1>14, Zenon DEF n

\* The checksum has 16 bits.
LEMMA CalcrcRegister ==
    ASSUME NEW bytes \in Seq(Byte)
    PROVE  calcrc(bytes) \in Register
<1>1. PICK f : Registers(bytes, 0, Len(bytes), {}, f) /\ calcrc(bytes) = f[Len(bytes)]
  BY CalcrcIs, Zenon
<1>2. f \in [0..Len(bytes) -> Register]
  BY <1>1, Zenon DEF Registers
<1> QED
  BY <1>1, <1>2

\* Two messages of the same length that differ in one byte, in any of its bits,
\* have different checksums: calcrc (lib/crc.c) finds every damaged byte,
\* whatever the length of the message.
THEOREM ChecksumFindsDamage ==
    ASSUME NEW s \in Seq(Byte), NEW t \in Seq(Byte), Len(t) = Len(s),
           NEW m \in 1..Len(s), s[m] # t[m], \A k \in 1..Len(s) : k # m => s[k] = t[k]
    PROVE  calcrc(s) # calcrc(t)
<1> DEFINE n == Len(s)
<1>0. n \in Nat /\ m \in 1..n /\ m - 1 \in Nat /\ m \in Nat /\ 0 \in Nat
  OBVIOUS
<1>1. \A k \in 1..n : s[k] \in Byte /\ t[k] \in Byte
  OBVIOUS
<1>2. PICK f : Registers(s, 0, n, {}, f) /\ calcrc(s) = f[n]
  BY CalcrcIs, Zenon
<1>3. PICK g : Registers(t, 0, n, {}, g) /\ calcrc(t) = g[n]
  BY CalcrcIs, Zenon
<1>4. f \in [0..n -> Register] /\ f[0] = {} /\ \A k \in 1..n : f[k] = AddByte(s[k])[f[k - 1]]
  BY <1>2 DEF Registers
<1>5. g \in [0..n -> Register] /\ g[0] = {} /\ \A k \in 1..n : g[k] = AddByte(t[k])[g[k - 1]]
  BY <1>3 DEF Registers
<1>6. \A k \in 1..n : s[k] # t[k] => k = m
  BY Zenon
<1> HIDE DEF n
<1>7. f[m - 1] = g[m - 1] /\ f[m - 1] \in Register
  <2> DEFINE P == {k \in 0..m-1 : f[k] = g[k]}
  <2>1. 0 \in P
    <3>1. 0 \in 0..m-1 /\ f[0] = g[0]
      BY <1>0, <1>4, <1>5
    <3> QED
      BY <3>1, Zenon
  <2>2. ASSUME NEW k \in 0+1..m-1, k - 1 \in P PROVE k \in P
    <3>1. k \in 1..n /\ k # m /\ k \in 0..m-1 /\ f[k - 1] = g[k - 1]
      BY <1>0, <2>2
    <3>2. f[k] = g[k]
      BY <1>4, <1>5, <1>6, <3>1, ZenonT(60)
    <3> QED
      BY <3>1, <3>2, Zenon
  <2>3. \A k \in 0..m-1 : k \in P
    <3> HIDE DEF P
    <3> QED
      BY <1>0, <2>1, <2>2, Upward, ZenonT(60)
  <2>4. m - 1 \in 0..m-1 /\ m - 1 \in 0..n
    BY <1>0
  <2> QED
    BY <1>4, <2>3, <2>4, Zenon
<1>8. f[m] # g[m]
  <2>1. f[m] = AddByte(s[m])[f[m - 1]] /\ g[m] = AddByte(t[m])[f[m - 1]]
    BY <1>0, <1>4, <1>5, <1>7, Zenon
  <2>2. s[m] \in Byte /\ t[m] \in Byte
    BY <1>0, <1>1, Zenon
  <2>3. AddByte(s[m])[f[m - 1]] # AddByte(t[m])[f[m - 1]]
    BY <1>7, <2>2, AddByteInjective, Zenon
  <2> QED
    BY <2>1, <2>3, Zenon
<1>9. f[n] # g[n]
  <2> DEFINE P == {k \in m..n : f[k] # g[k]}
  <2>1. m \in P
    BY <1>0, <1>8
  <2>2. ASSUME NEW k \in m+1..n, k - 1 \in P PROVE k \in P
    <3>1. /\ k \in 1..n /\ k # m /\ k \in m..n
          /\ f[k - 1] # g[k - 1] /\ f[k - 1] \in Register /\ g[k - 1] \in Register
      BY <1>0, <1>4, <1>5, <2>2, SMTT(60)
    <3>2. f[k] # g[k]
      <4>1. f[k] = AddByte(s[k])[f[k - 1]] /\ g[k] = AddByte(s[k])[g[k - 1]] /\ s[k] \in Byte
        <5>1. s[k] = t[k] /\ s[k] \in Byte
          BY <1>1, <1>6, <3>1, Zenon
        <5>2. f[k] = AddByte(s[k])[f[k - 1]]
          BY <1>4, <3>1, Zenon
        <5>3. g[k] = AddByte(t[k])[g[k - 1]]
          BY <1>5, <3>1, Zenon
        <5> QED
          BY <5>1, <5>2, <5>3, Zenon
      <4>2. AddByte(s[k])[f[k - 1]] # AddByte(s[k])[g[k - 1]]
        BY <3>1, <4>1, AddByteInjective, Zenon
      <4> QED
        BY <4>1, <4>2, Zenon
    <3> QED
      BY <3>1, <3>2, Zenon
  <2>3. \A k \in m..n : k \in P
    <3> HIDE DEF P
    <3> QED
      BY <1>0, <2>1, <2>2, Upward, Zenon
  <2>4. n \in m..n
    BY <1>0, SMTT(60)
  <2> QED
    BY <2>3, <2>4, Zenon
<1> QED
  BY <1>2, <1>3, <1>9, Zenon
-----------------------------------------------------------------------------
(***************************************************************************)
(* The checksum is a remainder.                                            *)
(***************************************************************************)
\* A round of calcrc multiplies by x modulo the polynomial.
LEMMA ShiftTimesX ==
    ASSUME NEW a \in Register
    PROVE  Reduced(TimesX(a)) = Shift(a)
<1> DEFINE x == TimesX(a)
           g == {16, 12, 5, 0}
<1>1. a \subseteq 0..15
  BY Zenon DEF Register
<1>2. x \subseteq 1..16 /\ (16 \in x <=> 15 \in a)
  BY <1>1 DEF TimesX
<1>3. Shifted(a) = x \ {16}
  <2>1. \A e : e \in Shifted(a) <=> e \in x /\ e # 16
    BY <1>1 DEF Shifted, TimesX
  <2> QED
    BY <2>1, Zenon
<1>4. CASE 15 \in a
  <2>1. Reduced(x) = Xor(x, g) /\ Shift(a) = Xor(Shifted(a), POLY)
    BY <1>2, <1>4, Zenon DEF Reduced, Shift
  <2>2. \A e : e \in POLY <=> e \in g /\ e # 16
    BY DEF POLY
  <2>3. 16 \in x /\ 16 \in g
    BY <1>2, <1>4, Zenon
  <2> HIDE DEF x, g
  <2>4. Xor(x, g) = Xor(x \ {16}, POLY)
    BY <2>2, <2>3, Zenon DEF Xor
  <2> QED
    BY <1>3, <2>1, <2>4, Zenon DEF x
<1>5. CASE 15 \notin a
  <2>1. Reduced(x) = x /\ Shift(a) = Shifted(a) /\ 16 \notin x
    BY <1>2, <1>5, Zenon DEF Reduced, Shift
  <2>2. x \ {16} = x
    BY <2>1, Zenon
  <2> QED
    BY <1>3, <2>1, <2>2, Zenon
<1> QED
  BY <1>4, <1>5, Zenon

\* Below the highest bit a round only shifts.
LEMMA ShiftLow ==
    ASSUME NEW a \in SUBSET (0..14)
    PROVE  a \in Register /\ Shift(a) = {e + 1 : e \in a}
<1>1. 15 \notin a /\ a \in Register
  BY DEF Register
<1>2. a \ {15} = a
  BY <1>1, Zenon
<1> QED
  BY <1>1, <1>2, Zenon DEF Shift, Shifted

\* Eight rounds move the bits of a byte to the upper half of the register.
LEMMA Shift8Byte ==
    ASSUME NEW b
    PROVE  BitsOf(b) \in Register /\ Shift8(BitsOf(b)) = High(b)
<1> DEFINE B == BitsOf(b)
           Is(f) == f = [i \in 0..8 |-> IF i = 0 THEN B ELSE Shift(f[i - 1])]
<1>1. B \in SUBSET (0..7) /\ B \in Register
  BY DEF BitsOf, Register
<1> HIDE DEF B
<1>2. PICK f : Is(f)
  BY <1>1, EightRounds, Zenon
<1>3. f[8] = Shift8(B)
  BY <1>1, <1>2, EightRounds, Zenon
<1>4. f[0] = B /\ \A i \in 1..8 : f[i] = Shift(f[i - 1])
  BY <1>2
<1> DEFINE Q == {i \in 0..8 : f[i] = {k + i : k \in B}}
<1>5. 0 \in Q
  <2>1. {k + 0 : k \in B} = B
    <3>1. \A k \in B : k + 0 = k
      BY <1>1
    <3> QED
      BY <3>1, Zenon
  <2>2. 0 \in 0..8
    OBVIOUS
  <2> QED
    BY <1>4, <2>1, <2>2, Zenon
<1>6. ASSUME NEW i \in 0+1..8, i - 1 \in Q PROVE i \in Q
  <2> DEFINE low == {k + (i - 1) : k \in B}
  <2>1. low \in SUBSET (0..14)
    BY <1>1
  <2>2. f[i] = Shift(low)
    BY <1>4, <1>6
  <2>3. {e + 1 : e \in low} = {k + i : k \in B}
    <3>1. \A k \in B : (k + (i - 1)) + 1 = k + i
      BY <1>1
    <3> QED
      BY <3>1, ZenonT(60)
  <2> HIDE DEF low
  <2>4. f[i] = {k + i : k \in B}
    BY <2>1, <2>2, <2>3, ShiftLow, Zenon
  <2> QED
    BY <2>4
<1>7. 8 \in Q
  <2> HIDE DEF Q
  <2>1. 0 \in Nat /\ 8 \in Nat /\ 8 \in 0..8
    OBVIOUS
  <2>2. \A i \in 0..8 : i \in Q
    BY <1>5, <1>6, <2>1, Upward, Zenon
  <2> QED
    BY <2>1, <2>2, Zenon
<1>8. Shift8(B) = {k + 8 : k \in B}
  BY <1>3, <1>7, Zenon
<1> QED
  BY <1>1, <1>8, Zenon DEF B, High

\* The coefficients of a byte that the first i steps bring down, as a polynomial.
Top(b, i) == {k \in 0..7 : k < i /\ k + (8 - i) \in BitsOf(b)}
Coefficient(b, i) == IF 8 - i \in BitsOf(b) THEN {0} ELSE {}

\* Bringing down the next coefficient.
LEMMA TopStep ==
    ASSUME NEW b, NEW i \in 1..8
    PROVE  /\ Top(b, i - 1) \in Register
           /\ Coefficient(b, i) \in Register
           /\ Xor(Shift(Top(b, i - 1)), Coefficient(b, i)) = Top(b, i)
<1> DEFINE T == Top(b, i - 1)
           B == BitsOf(b)
<1>1. T \in SUBSET (0..6) /\ T \in SUBSET (0..14) /\ Coefficient(b, i) \in Register
  BY DEF Top, Coefficient, Register
<1>2. T \in Register /\ Shift(T) = {e + 1 : e \in T}
  BY <1>1, ShiftLow, Zenon
<1>3. \A e \in 0..15 : e \in Shift(T) <=> e \in 1..7 /\ e < i /\ e + (8 - i) \in B
  <2>1. \A e \in 0..15 : e \in Shift(T) <=> e >= 1 /\ e - 1 \in T
    BY <1>1, <1>2
  <2>2. \A e \in 1..15 : e - 1 \in T <=> e \in 1..8 /\ e < i /\ e + (8 - i) \in B
    <3>1. \A e \in 1..15 : (e - 1) + (8 - (i - 1)) = e + (8 - i)
      OBVIOUS
    <3>2. \A e \in 1..15 : e - 1 \in T <=> e - 1 \in 0..7 /\ e - 1 < i - 1 /\ (e - 1) + (8 - (i - 1)) \in B
      BY Zenon DEF Top
    <3> QED
      BY <3>1, <3>2
  <2> QED
    BY <2>1, <2>2
<1>4. Shift(T) \in Register
  BY <1>2, ShiftBits, Zenon
<1>5. \A e : e \in Coefficient(b, i) <=> e = 0 /\ 8 - i \in B
  BY Zenon DEF Coefficient
<1>6. Top(b, i) \in Register /\ \A e : e \in Top(b, i) <=> e \in 0..7 /\ e < i /\ e + (8 - i) \in B
  BY DEF Top, Register
<1> DEFINE x == Xor(Shift(T), Coefficient(b, i))
<1>7. /\ x \in Register
      /\ \A e : e \in x <=> \/ (e \in Shift(T) /\ e \notin Coefficient(b, i))
                            \/ (e \notin Shift(T) /\ e \in Coefficient(b, i))
  BY <1>1, <1>4, XorRegister, Zenon
<1> HIDE DEF x, B, T
<1>8. ASSUME NEW e \in 0..15 PROVE e \in x <=> e \in Top(b, i)
  <2>1. CASE e = 0
    <3>1. 0 \notin Shift(T) /\ (0 \in Top(b, i) <=> 8 - i \in B)
      BY <1>3, <1>6, SMTT(60)
    <3> QED
      BY <1>5, <1>7, <2>1, <3>1, Zenon
  <2>2. CASE e # 0
    <3>1. e \in Shift(T) <=> e \in Top(b, i)
      BY <1>3, <1>6, <2>2
    <3> QED
      BY <1>5, <1>7, <2>2, <3>1
  <2> QED
    BY <2>1, <2>2, ZenonT(60)
<1>9. x = Top(b, i)
  BY <1>6, <1>7, <1>8, SameRegister, ZenonT(60)
<1> QED
  BY <1>1, <1>2, <1>9, Zenon DEF x, T

\* Bringing down a byte multiplies by x^8, modulo the polynomial, and adds it.
LEMMA BringDownIs ==
    ASSUME NEW b, NEW a \in Register
    PROVE  BringDown(b)[a] = Xor(Shift8(a), BitsOf(b)) /\ BringDown(b)[a] \in Register
<1> DEFINE Is(f) == f = [i \in 0..8 |-> IF i = 0 THEN a ELSE Xor(Reduced(TimesX(f[i - 1])), Coefficient(b, i))]
           Run(g) == g = [i \in 0..8 |-> IF i = 0 THEN a ELSE Shift(g[i - 1])]
           step == [i \in 1..8 |-> [x \in Register |-> Xor(Shift(x), Coefficient(b, i))]]
<1>1. ASSUME NEW x \in Register, NEW i \in 1..8
      PROVE  /\ Xor(Shift(x), Coefficient(b, i)) \in Register
             /\ Xor(Reduced(TimesX(x)), Coefficient(b, i)) = Xor(Shift(x), Coefficient(b, i))
  <2>1. Shift(x) \in Register /\ Reduced(TimesX(x)) = Shift(x)
    BY ShiftTimesX, ShiftBits, Zenon
  <2>2. Coefficient(b, i) \in Register
    BY TopStep, Zenon
  <2>3. Xor(Shift(x), Coefficient(b, i)) \in Register
    BY <2>1, <2>2, XorRegister, Zenon
  <2> QED
    BY <2>1, <2>3, Zenon
<1>2. PICK f : Is(f) /\ f \in [0..8 -> Register] /\ BringDown(b)[a] = f[8]
  <2>1. IsLoop(0, 8, Register, step)
    BY <1>1 DEF IsLoop
  <2>2. PICK f \in [0..8 -> Register] : f[0] = a /\ \A k \in 0+1..8 : f[k] = step[k][f[k - 1]]
    <3> HIDE DEF step
    <3>1. HasRun(0, 8, Register, a, step)
      BY <2>1, LoopRuns, Zenon
    <3> QED
      BY <3>1, Zenon DEF HasRun
  <2>3. ASSUME NEW i \in 0..8
        PROVE  f[i] = IF i = 0 THEN a ELSE Xor(Reduced(TimesX(f[i - 1])), Coefficient(b, i))
    <3>1. CASE i = 0
      BY <2>2, <3>1, Zenon
    <3>2. CASE i # 0
      <4>1. i \in 1..8 /\ i \in 0+1..8 /\ i - 1 \in 0..8 /\ f[i - 1] \in Register
        BY <2>2, <3>2
      <4>2. f[i] = Xor(Shift(f[i - 1]), Coefficient(b, i))
        BY <2>2, <4>1, Zenon
      <4> QED
        BY <1>1, <3>2, <4>1, <4>2, ZenonT(60)
    <3> QED
      BY <3>1, <3>2, Zenon
  <2>4. \E h : Is(h)
    BY <2>2, <2>3, Zenon
  <2> DEFINE h == CHOOSE h : Is(h)
  <2>5. Is(h)
    <3> HIDE DEF Is
    <3> QED
      BY <2>4, Zenon
  <2>6. BringDown(b)[a] = h[8]
    BY Zenon DEF BringDown, Coefficient
  <2> HIDE DEF h
  <2>7. \A i \in 0..8 : h[i] = IF i = 0 THEN a ELSE Xor(Reduced(TimesX(h[i - 1])), Coefficient(b, i))
    BY <2>5, Zenon
  <2> DEFINE P == {i \in 0..8 : h[i] \in Register}
  <2>8. 0 \in P
    BY <2>7
  <2>9. ASSUME NEW i \in 0+1..8, i - 1 \in P PROVE i \in P
    <3>1. i \in 1..8 /\ i \in 0..8 /\ i # 0
      OBVIOUS
    <3>2. h[i] = Xor(Reduced(TimesX(h[i - 1])), Coefficient(b, i))
      BY <2>7, <3>1, Zenon
    <3>3. h[i] \in Register
      BY <1>1, <2>9, <3>1, <3>2, Zenon
    <3> QED
      BY <3>1, <3>3, Zenon
  <2>10. \A i \in 0..8 : h[i] \in Register
    <3> HIDE DEF P
    <3>1. 0 \in Nat /\ 8 \in Nat
      BY Zenon
    <3>2. \A i \in 0..8 : i \in P
      BY <2>8, <2>9, <3>1, Upward, Zenon
    <3> QED
      BY <3>2, Zenon DEF P
  <2>11. h \in [0..8 -> Register]
    <3>1. h = [i \in 0..8 |-> h[i]]
      BY <2>5, Zenon
    <3> QED
      BY <2>10, <3>1, Zenon
  <2> QED
    BY <2>5, <2>6, <2>11, Zenon
<1>3. f[0] = a /\ \A i \in 1..8 : f[i] = Xor(Shift(f[i - 1]), Coefficient(b, i))
  <2>1. \A i \in 0..8 : f[i] = IF i = 0 THEN a ELSE Xor(Reduced(TimesX(f[i - 1])), Coefficient(b, i))
    BY <1>2, Zenon
  <2>2. \A i \in 1..8 : i \in 0..8 /\ i # 0 /\ f[i - 1] \in Register
    BY <1>2
  <2>3. f[0] = a
    BY <2>1
  <2> QED
    BY <1>1, <2>1, <2>2, <2>3, Zenon
<1>4. PICK g : Run(g)
  BY EightRounds, Zenon
<1>5. g[8] = Shift8(a)
  BY <1>4, EightRounds, Zenon
<1>6. g[0] = a /\ \A i \in 1..8 : g[i] = Shift(g[i - 1])
  BY <1>4
<1> DEFINE Q == {i \in 0..8 : g[i] \in Register /\ f[i] = Xor(g[i], Top(b, i))}
<1>7. 0 \in Q
  <2>1. Top(b, 0) = {} /\ 0 \in 0..8
    BY DEF Top
  <2>2. Xor(a, {}) = a
    BY Zenon DEF Xor
  <2> QED
    BY <1>3, <1>6, <2>1, <2>2, Zenon
<1>8. ASSUME NEW i \in 0+1..8, i - 1 \in Q PROVE i \in Q
  <2> DEFINE T == Top(b, i - 1)
             c == Coefficient(b, i)
             d == g[i - 1]
  <2>1. i \in 1..8 /\ i \in 0..8
    OBVIOUS
  <2>2. /\ T \in Register /\ c \in Register
        /\ Xor(Shift(T), c) = Top(b, i)
    BY <2>1, TopStep, Zenon
  <2>3. d \in Register /\ f[i - 1] = Xor(d, T)
    BY <1>8, Zenon
  <2>4. g[i] = Shift(d) /\ f[i] = Xor(Shift(Xor(d, T)), c)
    BY <1>3, <1>6, <2>1, <2>3, Zenon
  <2> HIDE DEF T, c, d
  <2>5. Shift(Xor(d, T)) = Xor(Shift(d), Shift(T))
    BY <2>2, <2>3, ShiftLinear, Zenon
  <2>6. Xor(Xor(Shift(d), Shift(T)), c) = Xor(Shift(d), Xor(Shift(T), c))
    BY XorAssociative
  <2>7. Shift(d) \in Register
    BY <2>3, ShiftBits, Zenon
  <2>8. f[i] = Xor(g[i], Top(b, i)) /\ g[i] \in Register
    BY <2>2, <2>4, <2>5, <2>6, <2>7, Zenon
  <2> QED
    BY <2>1, <2>8, Zenon
<1>9. f[8] = Xor(g[8], Top(b, 8))
  <2> HIDE DEF Q
  <2>1. 0 \in Nat /\ 8 \in Nat /\ 8 \in 0..8
    OBVIOUS
  <2>2. \A i \in 0..8 : i \in Q
    BY <1>7, <1>8, <2>1, Upward, Zenon
  <2> QED
    BY <2>1, <2>2, Zenon DEF Q
<1>10. Top(b, 8) = BitsOf(b)
  BY DEF Top, BitsOf
<1>11. f[8] \in Register
  BY <1>2
<1> QED
  BY <1>2, <1>5, <1>9, <1>10, <1>11, Zenon

\* Bringing down the bytes one after the other.
LEMMA RemainderIs ==
    ASSUME NEW bytes \in Seq(Byte)
    PROVE  \E f : /\ f \in [0..Len(bytes) -> Register] /\ f[0] = {}
                  /\ \A k \in 1..Len(bytes) : f[k] = BringDown(bytes[k])[f[k - 1]]
                  /\ Remainder(bytes) = f[Len(bytes)]
<1> DEFINE n == Len(bytes)
           Is(f) == f = [k \in 0..n |-> IF k = 0 THEN {} ELSE BringDown(bytes[k])[f[k - 1]]]
           step == [k \in 1..n |-> [x \in Register |-> BringDown(bytes[k])[x]]]
<1>0. n \in Nat /\ 0 \in Nat /\ 0 \in 0..n /\ {} \in Register
  BY DEF Register
<1> HIDE DEF n
<1>1. \E f : Is(f)
  <2>1. IsLoop(0, n, Register, step)
    BY <1>0, BringDownIs DEF IsLoop
  <2>2. PICK f \in [0..n -> Register] : f[0] = {} /\ \A k \in 0+1..n : f[k] = step[k][f[k - 1]]
    <3> HIDE DEF step
    <3>1. HasRun(0, n, Register, {}, step)
      BY <1>0, <2>1, LoopRuns, Zenon
    <3> QED
      BY <3>1, Zenon DEF HasRun
  <2>3. ASSUME NEW k \in 0..n PROVE f[k] = IF k = 0 THEN {} ELSE BringDown(bytes[k])[f[k - 1]]
    <3>1. CASE k = 0
      BY <2>2, <3>1, Zenon
    <3>2. CASE k # 0
      <4>1. k \in 1..n /\ k \in 0+1..n /\ k - 1 \in 0..n /\ f[k - 1] \in Register
        BY <1>0, <2>2, <3>2
      <4> QED
        BY <2>2, <3>2, <4>1, Zenon
    <3> QED
      BY <3>1, <3>2, Zenon
  <2>4. Is(f)
    BY <2>2, <2>3, Zenon
  <2> QED
    BY <2>4, Zenon
<1> DEFINE f == CHOOSE f : Is(f)
<1>2. Is(f)
  <2> HIDE DEF Is
  <2> QED
    BY <1>1, Zenon
<1>3. Remainder(bytes) = f[n]
  BY Zenon DEF Remainder, n
<1> HIDE DEF f
<1>4. \A k \in 0..n : f[k] = IF k = 0 THEN {} ELSE BringDown(bytes[k])[f[k - 1]]
  BY <1>2, Zenon
<1>5. f[0] = {}
  BY <1>0, <1>4, Zenon
<1>6. \A k \in 1..n : f[k] = BringDown(bytes[k])[f[k - 1]]
  BY <1>0, <1>4
<1>7. \A k \in 0..n : f[k] \in Register
  <2> DEFINE P == {k \in 0..n : f[k] \in Register}
  <2>1. 0 \in P
    BY <1>0, <1>5, Zenon
  <2>2. ASSUME NEW k \in 0+1..n, k - 1 \in P PROVE k \in P
    <3>1. k \in 1..n /\ k \in 0..n
      BY <1>0
    <3>2. f[k] \in Register
      BY <1>6, <2>2, <3>1, BringDownIs, Zenon
    <3> QED
      BY <3>1, <3>2, Zenon
  <2> HIDE DEF P
  <2>3. \A k \in 0..n : k \in P
    BY <1>0, <2>1, <2>2, Upward, Zenon
  <2> QED
    BY <2>3, Zenon DEF P
<1>8. f \in [0..n -> Register]
  <2>1. f = [k \in 0..n |-> f[k]]
    BY <1>2, Zenon
  <2> QED
    BY <1>7, <2>1, Zenon
<1> QED
  BY <1>3, <1>5, <1>6, <1>8, ZenonT(60) DEF n

\* Two sequences of bytes, one after the other.
LEMMA Concat ==
    ASSUME NEW s \in Seq(Byte), NEW t \in Seq(Byte)
    PROVE  /\ s \o t \in Seq(Byte)
           /\ Len(s \o t) = Len(s) + Len(t)
           /\ \A k \in 1..Len(s) : (s \o t)[k] = s[k]
           /\ \A k \in 1..Len(t) : (s \o t)[Len(s) + k] = t[k]
<1> DEFINE c == s \o t
<1>1. /\ c \in Seq(Byte) /\ Len(c) = Len(s) + Len(t)
      /\ \A k \in 1..Len(s)+Len(t) : c[k] = IF k <= Len(s) THEN s[k] ELSE t[k - Len(s)]
  BY ConcatProperties, Zenon
<1>2. Len(s) \in Nat /\ Len(t) \in Nat
  OBVIOUS
<1> HIDE DEF c
<1>3. ASSUME NEW k \in 1..Len(t) PROVE c[Len(s) + k] = t[k]
  <2>1. Len(s) + k \in 1..Len(s)+Len(t) /\ ~(Len(s) + k <= Len(s)) /\ (Len(s) + k) - Len(s) = k
    BY <1>2
  <2> QED
    BY <1>1, <2>1, Zenon
<1>4. \A k \in 1..Len(s) : c[k] = s[k]
  BY <1>1, <1>2, SMTT(60)
<1> QED
  BY <1>1, <1>3, <1>4, Zenon DEF c

\* The checksum of a message of any length is the remainder of the message times
\* x^16: calcrc (lib/crc.c) computes the CRC of its polynomial although it never
\* appends the 16 zeros that the definition divides.
THEOREM ChecksumIsRemainder ==
    ASSUME NEW m \in Seq(Byte)
    PROVE  calcrc(m) = Remainder(m \o Zeros(2))
<1> DEFINE n == Len(m)
           long == m \o Zeros(2)
<1>1. n \in Nat /\ 0 \in Nat /\ 0 \in 0..n /\ n \in 0..n /\ n + 1 \in 1..n+2 /\ n + 2 \in 1..n+2
  OBVIOUS
<1>2. /\ long \in Seq(Byte) /\ Len(long) = n + 2
      /\ \A k \in 1..n : long[k] = m[k]
      /\ long[n + 1] = 0 /\ long[n + 2] = 0
  <2>1. Zeros(2) \in Seq(Byte) /\ Len(Zeros(2)) = 2 /\ Zeros(2)[1] = 0 /\ Zeros(2)[2] = 0
    BY DEF Zeros, Byte
  <2>2. /\ long \in Seq(Byte) /\ Len(long) = n + Len(Zeros(2))
        /\ \A k \in 1..n : long[k] = m[k]
        /\ \A k \in 1..Len(Zeros(2)) : long[n + k] = Zeros(2)[k]
    BY <2>1, Concat, Zenon
  <2>3. 1 \in 1..2 /\ 2 \in 1..2
    OBVIOUS
  <2> HIDE DEF long, n
  <2> QED
    BY <2>1, <2>2, <2>3, ZenonT(60)
<1> HIDE DEF long
<1>3. PICK f : Registers(m, 0, n, {}, f) /\ calcrc(m) = f[n]
  BY CalcrcIs, Zenon
<1>4. f \in [0..n -> Register] /\ f[0] = {} /\ \A k \in 0+1..n : f[k] = AddByte(m[k])[f[k - 1]]
  BY <1>3, Zenon DEF Registers
<1>5. PICK r : /\ r \in [0..n+2 -> Register] /\ r[0] = {}
               /\ \A k \in 1..n+2 : r[k] = BringDown(long[k])[r[k - 1]]
               /\ Remainder(long) = r[n + 2]
  BY <1>2, RemainderIs, Zenon
<1> DEFINE x16(a) == Shift8(Shift8(a))
           P == {k \in 0..n : f[k] = x16(r[k])}
<1>6. 0 \in P
  <2>1. {} \in Register /\ Shift({}) = {}
    BY ZenonT(60) DEF Shift, Shifted, Register
  <2>2. Shift8({}) = {}
    BY <2>1, Zenon DEF Shift8, Shift4, Shift2
  <2> QED
    BY <1>1, <1>4, <1>5, <2>2, Zenon
<1>7. ASSUME NEW k \in 0+1..n, k - 1 \in P PROVE k \in P
  <2> DEFINE a == r[k - 1]
             B == BitsOf(m[k])
             H == High(m[k])
  <2>1. /\ k \in 0..n /\ k \in 1..n /\ k \in 1..n+2
        /\ a \in Register /\ f[k - 1] \in Register
    <3> HIDE DEF n
    <3>1. k \in 0..n /\ k \in 1..n /\ k \in 1..n+2 /\ k - 1 \in 0..n /\ k - 1 \in 0..n+2
      BY <1>1
    <3> QED
      BY <1>4, <1>5, <3>1, Zenon
  <2>2. f[k - 1] = x16(a)
    BY <1>7, Zenon
  <2>3. B \in Register /\ Shift8(B) = H
    BY Shift8Byte, Zenon
  <2>4. H \in Register /\ f[k] = Shift8(Xor(f[k - 1], H))
    BY <1>4, <2>1, AddByteIs, ZenonT(60)
  <2>5. r[k] = Xor(Shift8(a), B)
    <3>1. long[k] = m[k] /\ r[k] = BringDown(long[k])[a]
      BY <1>2, <1>5, <2>1, Zenon
    <3> QED
      BY <2>1, <3>1, BringDownIs, Zenon
  <2> HIDE DEF a, B, H
  <2>6. Shift8(a) \in Register /\ x16(a) \in Register
    BY <2>1, Shift8Facts, Zenon
  <2>7. Shift8(Xor(Shift8(a), B)) = Xor(x16(a), H)
    BY <2>3, <2>6, Shift8Facts, Zenon
  <2>8. f[k] = x16(r[k])
    BY <2>2, <2>4, <2>5, <2>7, Zenon
  <2> QED
    BY <2>1, <2>8, Zenon
<1>8. f[n] = x16(r[n])
  <2> HIDE DEF P
  <2>1. \A k \in 0..n : k \in P
    BY <1>1, <1>6, <1>7, Upward, Zenon
  <2> QED
    BY <1>1, <2>1, Zenon DEF P
<1>9. r[n + 2] = x16(r[n])
  <2>1. BitsOf(0) = {}
    BY DEF BitsOf, Weight
  <2>2. \A a : Xor(a, {}) = a
    BY Zenon DEF Xor
  <2>3. ASSUME NEW a \in Register PROVE BringDown(0)[a] = Shift8(a)
    BY <2>1, <2>2, BringDownIs, Zenon
  <2>4. r[n] \in Register /\ Shift8(r[n]) \in Register
    <3>1. r[n] \in Register
      BY <1>1, <1>5
    <3> QED
      BY <3>1, Shift8Facts, Zenon
  <2>5. (n + 1) - 1 = n /\ (n + 2) - 1 = n + 1
    BY <1>1
  <2>6. r[n + 1] = BringDown(0)[r[n]] /\ r[n + 2] = BringDown(0)[r[n + 1]]
    BY <1>1, <1>2, <1>5, <2>5, Zenon
  <2> QED
    BY <2>3, <2>4, <2>6, Zenon
<1> QED
  BY <1>3, <1>5, <1>8, <1>9, Zenon DEF long
\* The first n elements of a sequence.
LEMMA Prefix ==
    ASSUME NEW s, NEW n \in Nat, \A k \in 1..n : s[k] \in Byte
    PROVE  /\ SubSeq(s, 1, n) \in Seq(Byte) /\ Len(SubSeq(s, 1, n)) = n
           /\ \A k \in 1..n : SubSeq(s, 1, n)[k] = s[k]
           /\ SubSeq(s, 1, n) = [k \in 1..n |-> s[k]]
<1> DEFINE p == SubSeq(s, 1, n)
<1>1. /\ p \in Seq(Byte) /\ Len(p) = IF 1 <= n THEN n-1+1 ELSE 0
      /\ \A i \in 1..n-1+1 : p[i] = s[1+i-1]
  <2>1. 1 \in Int /\ n \in Int
    OBVIOUS
  <2> QED
    BY <2>1, SubSeqProperties
<1> HIDE DEF p
<1>2. Len(p) = n /\ \A k \in 1..n : p[k] = s[k]
  BY <1>1
<1>3. p = [k \in 1..n |-> s[k]]
  BY <1>1, <1>2
<1> QED
  BY <1>1, <1>2, <1>3, Zenon DEF p
==============================================================================
