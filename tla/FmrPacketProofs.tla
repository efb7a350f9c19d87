--------------------------- MODULE FmrPacketProofs ---------------------------
(***************************************************************************)
(* Proofs about a remote call on the wire, for every set of calls, every   *)
(* number of modules and every way to damage a byte: a call that the       *)
(* device performs is the one that was sent.  They rest on lemmas about    *)
(* the layout of the arguments in a packet, on those of the checksum, and  *)
(* on an invariant of the packet that is on its way.                       *)
(***************************************************************************)
EXTENDS FmrPacket, CrcProofs

(***************************************************************************)
(* The layout of a call in a packet.                                       *)
(***************************************************************************)
\* No type has more than eight bytes (lf_sizeof, lib/fmr_helper.c).
LEMMA SizeOf == \A type : lf_sizeof(type) \in 0..8
<1> SUFFICES ASSUME NEW type PROVE lf_sizeof(type) \in 0..8
  OBVIOUS
<1>1. lf_sizeof(type) \in {1, 2, 4, 8, 0}
  BY Zenon DEF lf_sizeof
<1> QED
  BY <1>1, SMTT(60)

\* Where the arguments begin: each after the one before it.
LEMMA OffsetsIs ==
    ASSUME NEW types, NEW n \in Nat, Len(types) = n
    PROVE  /\ Offsets(types) \in [0..n -> Nat] /\ Offsets(types)[0] = 0
           /\ \A i \in 1..n : Offsets(types)[i] = Offsets(types)[i - 1] + lf_sizeof(types[i])
<1> DEFINE Is(f) == f = [i \in 0..n |-> IF i = 0 THEN 0 ELSE f[i - 1] + lf_sizeof(types[i])]
           step == [i \in 1..n |-> [x \in Nat |-> x + lf_sizeof(types[i])]]
<1>0. 0 \in Nat /\ 0 \in 0..n
  OBVIOUS
<1>1. \E f : Is(f)
  <2>1. IsLoop(0, n, Nat, step)
    BY SizeOf, SMTT(60) DEF IsLoop
  <2>2. PICK f \in [0..n -> Nat] : f[0] = 0 /\ \A k \in 0+1..n : f[k] = step[k][f[k - 1]]
    <3> HIDE DEF step
    <3>1. HasRun(0, n, Nat, 0, step)
      BY <1>0, <2>1, LoopRuns, Zenon
    <3> QED
      BY <3>1, Zenon DEF HasRun
  <2>3. ASSUME NEW k \in 0..n PROVE f[k] = IF k = 0 THEN 0 ELSE f[k - 1] + lf_sizeof(types[k])
    <3>1. CASE k = 0
      BY <2>2, <3>1, Zenon
    <3>2. CASE k # 0
      <4>1. k \in 1..n /\ k \in 0+1..n /\ k - 1 \in 0..n /\ f[k - 1] \in Nat
        BY <2>2, <3>2
      <4> QED
        BY <2>2, <3>2, <4>1, ZenonT(60)
    <3> QED
      BY <3>1, <3>2, Zenon
  <2>4. Is(f)
    BY <2>2, <2>3, Zenon
  <2> QED
    BY <2>4, Zenon
<1> DEFINE f == CHOOSE f : Is(f)
<1>2. Is(f)
  <2> HIDE DEF Is
  <2> QED
    BY <1>1, ZenonT(60)
<1>3. Offsets(types) = f
  BY Zenon DEF Offsets
<1> HIDE DEF f
<1>4. \A k \in 0..n : f[k] = IF k = 0 THEN 0 ELSE f[k - 1] + lf_sizeof(types[k])
  BY <1>2, Zenon
<1>5. f[0] = 0
  BY <1>0, <1>4, ZenonT(60)
<1>6. \A k \in 1..n : f[k] = f[k - 1] + lf_sizeof(types[k])
  BY <1>4
<1>7. \A k \in 0..n : f[k] \in Nat
  <2> DEFINE P == {k \in 0..n : f[k] \in Nat}
  <2>1. 0 \in P
    BY <1>0, <1>5, Zenon
  <2>2. ASSUME NEW k \in 0+1..n, k - 1 \in P PROVE k \in P
    <3>1. k \in 1..n /\ k \in 0..n /\ f[k - 1] \in Nat /\ lf_sizeof(types[k]) \in 0..8
      BY <2>2, SizeOf
    <3>2. f[k] = f[k - 1] + lf_sizeof(types[k])
      BY <1>6, <3>1, Zenon
    <3>3. \A x \in Nat, y \in 0..8 : x + y \in Nat
      OBVIOUS
    <3>4. f[k] \in Nat
      BY <3>1, <3>2, <3>3, Zenon
    <3> QED
      BY <3>1, <3>4, ZenonT(60)
  <2> HIDE DEF P
  <2>3. \A k \in 0..n : k \in P
    BY <1>0, <2>1, <2>2, Upward, Zenon
  <2> QED
    BY <2>3, Zenon DEF P
<1>8. f \in [0..n -> Nat]
  <2>1. f = [k \in 0..n |-> f[k]]
    BY <1>2, Zenon
  <2> QED
    BY <1>7, <2>1, ZenonT(60)
<1> QED
  BY <1>3, <1>5, <1>6, <1>8, Zenon

\* An argument ends before the list does.
LEMMA OffsetsGrow ==
    ASSUME NEW types, NEW n \in Nat, Len(types) = n, NEW i \in 0..n
    PROVE  \A j \in i..n : Offsets(types)[i] <= Offsets(types)[j]
<1> DEFINE f == Offsets(types)
           P == {k \in i..n : f[i] <= f[k]}
<1>0. i \in Nat
  OBVIOUS
<1>1. f \in [0..n -> Nat] /\ \A k \in 1..n : f[k] = f[k - 1] + lf_sizeof(types[k])
  BY OffsetsIs, Zenon
<1> HIDE DEF f
<1>2. i \in P
  BY <1>1
<1>3. ASSUME NEW k \in i+1..n, k - 1 \in P PROVE k \in P
  <2>1. /\ k \in 1..n /\ k \in i..n /\ lf_sizeof(types[k]) \in 0..8
        /\ f[i] \in Nat /\ f[k - 1] \in Nat /\ f[i] <= f[k - 1]
    BY <1>1, <1>3, SizeOf
  <2>3. f[k] = f[k - 1] + lf_sizeof(types[k])
    BY <1>1, <2>1, Zenon
  <2>2. f[i] <= f[k]
    BY <2>1, <2>3, SMTT(60)
  <2> QED
    BY <2>1, <2>2, Zenon
<1>4. \A k \in i..n : k \in P
  <2> HIDE DEF P
  <2> QED
    BY <1>0, <1>2, <1>3, Upward, Zenon
<1> QED
  BY <1>4, Zenon DEF f

\* The bytes of an argument that are sent.
Piece(a) == SubSeq(a.value, 1, lf_sizeof(a.type))

\* They are the first of its value.
LEMMA PieceIs ==
    ASSUME NEW a \in Argument
    PROVE  /\ Piece(a) \in Seq(Byte) /\ Len(Piece(a)) = lf_sizeof(a.type)
           /\ \A k \in 1..lf_sizeof(a.type) : Piece(a)[k] = a.value[k]
           /\ Piece(a) = [k \in 1..lf_sizeof(a.type) |-> a.value[k]]
<1>1. a.value \in [1..8 -> Byte]
  BY SMTT(60) DEF Argument
<1>2. lf_sizeof(a.type) \in 0..8
  BY SizeOf, Zenon
<1>3. lf_sizeof(a.type) \in Nat /\ \A k \in 1..lf_sizeof(a.type) : a.value[k] \in Byte
  BY <1>1, <1>2, SMTT(60)
<1> QED
  BY <1>3, Prefix, ZenonT(60) DEF Piece

\* The numbers up to n are among those up to m.
LEMMA Inside == \A n, m \in Nat : n <= m => \A k \in 1..n : k \in 1..m
OBVIOUS

\* The types of a list of arguments are bytes.
LEMMA TypesIs ==
    ASSUME NEW args \in Seq(Argument)
    PROVE  /\ Types(args) \in Seq(Byte) /\ Len(Types(args)) = Len(args)
           /\ \A i \in 1..Len(args) : Types(args)[i] = args[i].type
<1> DEFINE n == Len(args)
<1>1. n \in Nat /\ DOMAIN args = 1..n
  OBVIOUS
<1>2. \A i \in 1..n : args[i].type \in Byte
  <2>1. \A i \in 1..n : args[i] \in Argument
    OBVIOUS
  <2>2. \A a \in Argument : a.type \in Byte
    BY DEF Argument
  <2> QED
    BY <2>1, <2>2, Zenon
<1>3. Types(args) = [i \in 1..n |-> args[i].type]
  BY <1>1, Zenon DEF Types
<1> HIDE DEF n
<1>4. \A i \in 1..n : Types(args)[i] = args[i].type
  BY <1>3, Zenon
<1>5. Types(args) \in [1..n -> Byte]
  BY <1>2, <1>3, ZenonT(60)
<1>6. Types(args) \in Seq(Byte) /\ Len(Types(args)) = n
  BY <1>1, <1>5
<1> QED
  BY <1>4, <1>6, ZenonT(60) DEF n

\* A run of zeros.
LEMMA ZerosIs ==
    ASSUME NEW n \in Nat
    PROVE  Zeros(n) \in Seq(Byte) /\ Len(Zeros(n)) = n /\ \A i \in 1..n : Zeros(n)[i] = 0
BY DEF Zeros, Byte

\* Where the arguments of a list begin, and that all end before the list does.
LEMMA PlacesAre ==
    ASSUME NEW args \in Seq(Argument)
    PROVE  LET n == Len(args)
               off == Offsets(Types(args))
           IN  /\ n \in Nat /\ off \in [0..n -> Nat] /\ off[n] = Size(args) /\ Size(args) \in Nat
               /\ \A i \in 1..n : off[i] = off[i - 1] + lf_sizeof(args[i].type)
               /\ \A i \in 0..n : \A j \in i..n : off[i] <= off[j]
<1> DEFINE n == Len(args)
           off == Offsets(Types(args))
<1>1. n \in Nat /\ n \in 0..n
  OBVIOUS
<1>2. Len(Types(args)) = n /\ \A i \in 1..n : Types(args)[i] = args[i].type
  BY TypesIs, Zenon
<1>3. /\ off \in [0..n -> Nat]
      /\ \A i \in 1..n : off[i] = off[i - 1] + lf_sizeof(Types(args)[i])
  BY <1>1, <1>2, OffsetsIs, ZenonT(60)
<1>4. \A i \in 1..n : off[i] = off[i - 1] + lf_sizeof(args[i].type)
  BY <1>2, <1>3, Zenon
<1>5. \A i \in 0..n : \A j \in i..n : off[i] <= off[j]
  BY <1>1, <1>2, OffsetsGrow, ZenonT(60)
<1>6. off[n] = Size(args)
  BY Zenon DEF Size
<1> HIDE DEF off, n
<1>7. Size(args) \in Nat
  BY <1>1, <1>3, <1>6, Zenon
<1> QED
  BY <1>1, <1>3, <1>4, <1>5, <1>6, <1>7, Zenon DEF off, n

\* The bytes behind the header.
Block == [1..58 -> Byte]

\* They are a sequence.
LEMMA BlockIs == \A b \in Block : b \in Seq(Byte) /\ Len(b) = 58
<1>1. \A n \in Nat : \A b \in [1..n -> Byte] : b \in Seq(Byte) /\ Len(b) = n
  OBVIOUS
<1>2. 58 \in Nat
  OBVIOUS
<1> QED
  BY <1>1, <1>2, Zenon DEF Block

\* There are 58.
LEMMA RoomIs == Room = 58 /\ CallSize = 20
BY DEF Room, FMR_PACKET_SIZE, HeaderSize, CallSize, FMR_MAX_ARGC

\* What copying an argument writes: bytes, its type in its place, unless a value
\* lies there, its value in its place, and nothing elsewhere.
IsWrite(t, s, args, i) ==
    LET o == 20 + Offsets(Types(args))[i - 1]
        z == lf_sizeof(args[i].type)
    IN  /\ t \in Block
        /\ \A k \in 1..58 : k # 4 + i /\ ~(k - o \in 1..z) => t[k] = s[k]
        /\ \A k \in 1..58 : k = 4 + i /\ ~(k - o \in 1..z) => t[k] = args[i].type
        /\ \A k \in 1..58 : k - o \in 1..z => t[k] = args[i].value[k - o]

\* An argument is copied as lf_invoke_by_index does (lib/libflipper.c).
LEMMA WriteIs ==
    ASSUME NEW args \in Seq(Argument), NEW i \in 1..Len(args), NEW s \in Block
    PROVE  /\ WriteType(s, args, i) \in Block
           /\ IsWrite(WriteValue(WriteType(s, args, i), args, i), s, args, i)
<1> DEFINE a == args[i]
           o == 20 + Offsets(Types(args))[i - 1]
           z == lf_sizeof(a.type)
           w == WriteType(s, args, i)
           t == WriteValue(w, args, i)
<1>1. a \in Argument
  OBVIOUS
<1>2. a.type \in Byte /\ a.value \in [1..8 -> Byte]
  BY <1>1, SMTT(60) DEF Argument
<1>3. z \in 0..8
  BY SizeOf, Zenon
<1>4. \A k \in 1..z : a.value[k] \in Byte
  <2> HIDE DEF z
  <2>1. \A k \in 1..z : k \in 1..8
    BY <1>3
  <2> QED
    BY <1>2, <2>1, Zenon
<1>5. w = [k \in 1..58 |-> IF k = 4 + i THEN a.type ELSE s[k]]
  BY RoomIs, Zenon DEF WriteType
<1>6. t = [k \in 1..58 |-> IF k - o \in 1..z THEN a.value[k - o] ELSE w[k]]
  BY RoomIs, Zenon DEF WriteValue
<1>7. \A k \in 1..58 : s[k] \in Byte
  BY Zenon DEF Block
<1> HIDE DEF o, z, w, t, a
<1>8. w \in Block
  BY <1>2, <1>5, <1>7, ZenonT(60) DEF Block
<1>9. t \in Block
  <2>1. \A k \in 1..58 : w[k] \in Byte
    BY <1>8, Zenon DEF Block
  <2> QED
    BY <1>4, <1>6, <2>1, ZenonT(60) DEF Block
<1>10. \A k \in 1..58 : k # 4 + i /\ ~(k - o \in 1..z) => t[k] = s[k]
  BY <1>5, <1>6, ZenonT(60)
<1>11. \A k \in 1..58 : k = 4 + i /\ ~(k - o \in 1..z) => t[k] = a.type
  BY <1>5, <1>6, ZenonT(60)
<1>12. \A k \in 1..58 : k - o \in 1..z => t[k] = a.value[k - o]
  BY <1>6, ZenonT(60)
<1> QED
  BY <1>8, <1>9, <1>10, <1>11, <1>12, ZenonT(60) DEF IsWrite, t, w, o, z, a

\* The packet starts as zeros, in which the fields of the call are set.
Start(fields) == fields \o Zeros(54)

\* They are the first four bytes.
LEMMA StartIs ==
    ASSUME NEW fields \in Seq(Byte), Len(fields) = 4
    PROVE  Start(fields) \in Block /\ \A k \in 1..4 : Start(fields)[k] = fields[k]
<1> DEFINE z == Zeros(54)
           s == fields \o z
<1>1. z \in Seq(Byte) /\ Len(z) = 54
  <2>1. 54 \in Nat
    OBVIOUS
  <2> QED
    BY <2>1, ZerosIs, Zenon
<1> HIDE DEF z
<1>2. /\ s \in Seq(Byte) /\ Len(s) = Len(fields) + Len(z)
      /\ \A k \in 1..Len(fields) : s[k] = fields[k]
  BY <1>1, Concat, Zenon
<1> HIDE DEF s
<1>3. Len(s) = 58
  BY <1>1, <1>2, SMTT(60)
<1>4. s \in [1..Len(s) -> Byte]
  BY <1>2, LenProperties, Zenon
<1>5. s \in Block /\ \A k \in 1..4 : s[k] = fields[k]
  BY <1>2, <1>3, <1>4, Zenon DEF Block
<1> QED
  BY <1>5, Zenon DEF Start, s, z

\* The arguments are copied one after the other.
LEMMA FilledIs ==
    ASSUME NEW fields \in Seq(Byte), Len(fields) = 4, NEW args \in Seq(Argument)
    PROVE  LET f == Filled(fields, args) IN
           /\ f \in [0..Len(args) -> Block] /\ f[0] = Start(fields)
           /\ \A i \in 1..Len(args) : IsWrite(f[i], f[i - 1], args, i)
<1> DEFINE n == Len(args)
           s == Start(fields)
           W(x, i) == WriteValue(WriteType(x, args, i), args, i)
           Is(f) == f = [i \in 0..n |-> IF i = 0 THEN s ELSE W(f[i - 1], i)]
           step == [i \in 1..n |-> [x \in Block |-> W(x, i)]]
<1>0. 0 \in Nat /\ 0 \in 0..n /\ n \in Nat /\ 0 <= n /\ \A k \in 0+1..n : k \in 1..n
  <2>1. n \in Nat
    OBVIOUS
  <2> HIDE DEF n
  <2> QED
    BY <2>1
<1>1. s \in Block
  BY StartIs, Zenon
<1>2. ASSUME NEW i \in 1..n, NEW x \in Block
      PROVE  W(x, i) \in Block /\ IsWrite(W(x, i), x, args, i)
  <2>1. IsWrite(W(x, i), x, args, i)
    BY WriteIs, Zenon
  <2> HIDE DEF W
  <2> QED
    BY <2>1, Zenon DEF IsWrite
<1>3. Filled(fields, args) = CHOOSE f : Is(f)
  <2>1. Room - Len(fields) = 54
    BY RoomIs, SMTT(60)
  <2> QED
    BY <2>1, Zenon DEF Filled, Start
<1> HIDE DEF n, s, W
<1>4. \E f : Is(f)
  <2>2. IsLoop(0, n, Block, step)
    BY <1>0, <1>2, ZenonT(60) DEF IsLoop
  <2>3. PICK f \in [0..n -> Block] : f[0] = s /\ \A k \in 0+1..n : f[k] = step[k][f[k - 1]]
    <3> HIDE DEF step
    <3>1. HasRun(0, n, Block, s, step)
      BY <1>1, <2>2, LoopRuns, ZenonT(60)
    <3> QED
      BY <3>1, Zenon DEF HasRun
  <2>4. ASSUME NEW k \in 0..n PROVE f[k] = IF k = 0 THEN s ELSE W(f[k - 1], k)
    <3>1. CASE k = 0
      BY <2>3, <3>1, ZenonT(60)
    <3>2. CASE k # 0
      <4>1. k \in 1..n /\ k \in 0+1..n /\ k - 1 \in 0..n
        BY <1>0, <3>2
      <4>2. f[k - 1] \in Block
        BY <2>3, <4>1, ZenonT(60)
      <4> QED
        BY <2>3, <3>2, <4>1, <4>2, ZenonT(60)
    <3> QED
      BY <3>1, <3>2, Zenon
  <2>5. Is(f)
    BY <2>3, <2>4, ZenonT(60)
  <2> QED
    BY <2>5, Zenon
<1> DEFINE f == CHOOSE f : Is(f)
<1>5. Is(f)
  <2> HIDE DEF Is
  <2> QED
    BY <1>4, Zenon
<1>6. Filled(fields, args) = f
  BY <1>3, Zenon
<1> HIDE DEF f
<1>7. \A k \in 0..n : f[k] = IF k = 0 THEN s ELSE W(f[k - 1], k)
  BY <1>5, Zenon
<1>8. f[0] = s
  BY <1>0, <1>7, ZenonT(60)
<1>9. \A k \in 1..n : f[k] = W(f[k - 1], k)
  <2>1. \A k \in 1..n : k \in 0..n /\ k # 0
    BY <1>0
  <2> QED
    BY <1>7, <2>1, ZenonT(60)
<1>10. \A k \in 0..n : f[k] \in Block
  <2> DEFINE P == {k \in 0..n : f[k] \in Block}
  <2>1. 0 \in P
    BY <1>0, <1>1, <1>8, Zenon
  <2>2. ASSUME NEW k \in 0+1..n, k - 1 \in P PROVE k \in P
    <3>1. k \in 1..n /\ k \in 0..n
      BY <1>0
    <3> QED
      BY <1>2, <1>9, <2>2, <3>1, ZenonT(60)
  <2> HIDE DEF P
  <2>3. \A k \in 0..n : k \in P
    BY <1>0, <2>1, <2>2, Upward, Zenon
  <2> QED
    BY <2>3, Zenon DEF P
<1>11. f \in [0..n -> Block]
  <2>1. f = [k \in 0..n |-> f[k]]
    BY <1>5, Zenon
  <2> QED
    BY <1>10, <2>1, ZenonT(60)
<1>12. ASSUME NEW i \in 1..n PROVE IsWrite(f[i], f[i - 1], args, i)
  <2>1. i - 1 \in 0..n
    BY <1>0
  <2> QED
    BY <1>2, <1>9, <1>10, <2>1, ZenonT(60)
<1> QED
  BY <1>6, <1>8, <1>11, <1>12, ZenonT(60) DEF n, s

\* No argument is copied over the fields.
LEMMA FilledKeeps ==
    ASSUME NEW fields \in Seq(Byte), Len(fields) = 4, NEW args \in Seq(Argument),
           NEW i \in 0..Len(args), NEW k \in 1..4
    PROVE  Filled(fields, args)[i][k] = fields[k]
<1> DEFINE n == Len(args)
           f == Filled(fields, args)
           off == Offsets(Types(args))
           P == {j \in 0..n : f[j][k] = fields[k]}
<1>0. 0 \in Nat /\ n \in Nat /\ 0 \in 0..n /\ k \in 1..58
  OBVIOUS
<1>1. f[0] = Start(fields) /\ \A j \in 1..n : IsWrite(f[j], f[j - 1], args, j)
  BY FilledIs, Zenon
<1>2. off \in [0..n -> Nat]
  BY PlacesAre, Zenon
<1> HIDE DEF f, n
<1>3. 0 \in P
  BY <1>0, <1>1, StartIs, Zenon
<1>4. ASSUME NEW j \in 0+1..n, j - 1 \in P PROVE j \in P
  <2>1. j \in 1..n /\ j \in 0..n /\ j - 1 \in 0..n
    BY <1>0
  <2> DEFINE o == off[j - 1]
             z == lf_sizeof(args[j].type)
  <2>2. o \in Nat /\ z \in 0..8
    BY <1>2, <2>1, SizeOf, Zenon
  <2> HIDE DEF o, z
  <2>3. k # 4 + j /\ ~(k - (20 + o) \in 1..z)
    BY <2>1, <2>2
  <2>4. f[j][k] = f[j - 1][k]
    BY <1>0, <1>1, <2>1, <2>3, ZenonT(60) DEF IsWrite, o, z
  <2> QED
    BY <1>4, <2>1, <2>4, Zenon
<1> HIDE DEF P
<1>5. \A j \in 0..n : j \in P
  BY <1>0, <1>3, <1>4, Upward, Zenon
<1>6. i \in P
  BY <1>5, Zenon DEF n
<1> QED
  BY <1>6, Zenon DEF P, f

\* Every byte of an argument lies among the bytes of the values.
LEMMA PlaceIs ==
    ASSUME NEW args \in Seq(Argument), NEW i \in 1..Len(args),
           NEW k \in 1..lf_sizeof(args[i].type)
    PROVE  Offsets(Types(args))[i - 1] + k \in 1..Size(args)
<1> DEFINE n == Len(args)
           types == Types(args)
           off == Offsets(types)
           o == off[i - 1]
           y == lf_sizeof(args[i].type)
           z == Size(args)
<1>1. n \in Nat /\ i \in 1..n /\ i \in 0..n /\ i - 1 \in 0..n /\ n \in i..n /\ n \in 0..n
  OBVIOUS
<1>2. Len(types) = n /\ types[i] = args[i].type
  BY TypesIs, Zenon
<1>3. z = off[n]
  BY Zenon DEF Size
<1> HIDE DEF n, types
<1>4. off \in [0..n -> Nat] /\ off[i] = o + lf_sizeof(types[i])
  BY <1>1, <1>2, OffsetsIs, ZenonT(60)
<1>5. off[i] <= off[n]
  BY <1>1, <1>2, OffsetsGrow, ZenonT(60)
<1>6. o \in Nat /\ off[n] \in Nat
  BY <1>1, <1>4, Zenon
<1>7. y \in 0..8
  BY SizeOf, Zenon
<1>8. o \in Nat /\ z \in Nat /\ y \in 0..8 /\ o + y <= z /\ k \in 1..y
  BY <1>2, <1>3, <1>4, <1>5, <1>6, <1>7, ZenonT(60)
<1> HIDE DEF o, y, z
<1>9. o + k \in 1..z
  BY <1>8
<1> QED
  BY <1>9, Zenon DEF o, z, off, types

\* As long as there is room for the types, neither a type nor a value is copied
\* over what was copied before it.
LEMMA FilledHolds ==
    ASSUME NEW fields \in Seq(Byte), Len(fields) = 4, NEW args \in Seq(Argument),
           Len(args) <= 16, Size(args) <= 38
    PROVE  LET b == Filled(fields, args)[Len(args)] IN
           \A j \in 1..Len(args) :
              /\ b[4 + j] = args[j].type
              /\ \A k \in 1..lf_sizeof(args[j].type) :
                    b[20 + (Offsets(Types(args))[j - 1] + k)] = args[j].value[k]
<1> DEFINE n == Len(args)
           f == Filled(fields, args)
           off == Offsets(Types(args))
           Z(j) == lf_sizeof(args[j].type)
           Has(b, j) == /\ b[4 + j] = args[j].type
                        /\ \A k \in 1..Z(j) : b[20 + (off[j - 1] + k)] = args[j].value[k]
           P == {i \in 0..n : \A j \in 1..i : Has(f[i], j)}
<1>0. 0 \in Nat /\ 0 \in 0..n /\ n \in 0..n /\ n \in 0..16
  <2>1. n \in Nat /\ n <= 16
    OBVIOUS
  <2> HIDE DEF n
  <2> QED
    BY <2>1
<1>1. \A i \in 1..n : IsWrite(f[i], f[i - 1], args, i)
  BY FilledIs, Zenon
<1>2. /\ off \in [0..n -> Nat] /\ off[n] <= 38
      /\ \A i \in 1..n : off[i] = off[i - 1] + Z(i)
      /\ \A i \in 0..n : \A j \in i..n : off[i] <= off[j]
  BY PlacesAre, ZenonT(60)
<1>3. \A j \in 1..n : Z(j) \in 0..8
  BY SizeOf, Zenon
<1> HIDE DEF f, n, off, Z
<1>4. 0 \in P
  <2>1. \A j \in 1..0 : FALSE
    OBVIOUS
  <2> QED
    BY <1>0, <2>1, Zenon
<1>5. ASSUME NEW i \in 0+1..n, i - 1 \in P PROVE i \in P
  <2>1. i \in 1..n /\ i \in 0..n /\ i - 1 \in 0..n /\ n \in i..n
    BY <1>0
  <2> DEFINE o == off[i - 1]
             z == Z(i)
  <2>2. o \in Nat /\ z \in 0..8 /\ o + z <= 38
    <3>1. off[i] <= off[n] /\ off[i] = o + z
      BY <1>2, <2>1, Zenon
    <3>2. o \in Nat /\ off[n] \in Nat /\ off[i] \in Nat /\ z \in 0..8 /\ off[n] <= 38
      BY <1>0, <1>2, <1>3, <2>1, Zenon
    <3> HIDE DEF o, z
    <3> QED
      BY <3>1, <3>2
  <2>3. /\ \A k \in 1..58 : k # 4 + i /\ ~(k - (20 + o) \in 1..z) => f[i][k] = f[i - 1][k]
        /\ \A k \in 1..58 : k = 4 + i /\ ~(k - (20 + o) \in 1..z) => f[i][k] = args[i].type
        /\ \A k \in 1..58 : k - (20 + o) \in 1..z => f[i][k] = args[i].value[k - (20 + o)]
    BY <1>1, <2>1, Zenon DEF IsWrite, off, Z
  <2> HIDE DEF o, z
  <2>4. f[i][4 + i] = args[i].type
    <3>1. 4 + i \in 1..58 /\ ~((4 + i) - (20 + o) \in 1..z)
      BY <1>0, <2>1, <2>2
    <3> QED
      BY <2>3, <3>1, Zenon
  <2>5. ASSUME NEW k \in 1..z PROVE f[i][20 + (o + k)] = args[i].value[k]
    <3> DEFINE x == 20 + (o + k)
    <3>1. x \in 1..58 /\ x - (20 + o) = k
      BY <2>2
    <3> HIDE DEF x
    <3>2. f[i][x] = args[i].value[k]
      BY <2>3, <3>1, ZenonT(60)
    <3> QED
      BY <3>2, Zenon DEF x
  <2>6. Has(f[i], i)
    BY <2>4, <2>5, Zenon DEF o, z
  <2>7. ASSUME NEW j \in 1..i-1 PROVE Has(f[i], j)
    <3>1. Has(f[i - 1], j)
      BY <1>5, Zenon
    <3>2. j \in 1..n /\ j \in 0..n /\ j - 1 \in 0..n /\ i - 1 \in j..n /\ j # i
      BY <1>0, <2>1
    <3> DEFINE p == off[j - 1]
               y == Z(j)
    <3>3. p \in Nat /\ y \in 0..8 /\ p + y <= o
      <4>1. off[j] <= off[i - 1] /\ off[j] = p + y
        BY <1>2, <3>2, Zenon
      <4>2. p \in Nat /\ y \in 0..8
        BY <1>2, <1>3, <3>2, Zenon
      <4> QED
        BY <4>1, <4>2, Zenon DEF o
    <3>4. f[i - 1][4 + j] = args[j].type /\ \A k \in 1..y : f[i - 1][20 + (p + k)] = args[j].value[k]
      BY <3>1, Zenon
    <3> HIDE DEF p, y
    <3>5. 4 + j \in 1..58 /\ 4 + j # 4 + i /\ ~((4 + j) - (20 + o) \in 1..z)
      BY <1>0, <2>1, <2>2, <3>2
    <3>6. f[i][4 + j] = args[j].type
      BY <2>3, <3>4, <3>5, ZenonT(60)
    <3>7. ASSUME NEW k \in 1..y PROVE f[i][20 + (p + k)] = args[j].value[k]
      <4>1. 20 + (p + k) \in 1..58 /\ 20 + (p + k) # 4 + i /\ ~((20 + (p + k)) - (20 + o) \in 1..z)
        BY <1>0, <2>1, <2>2, <3>3
      <4> QED
        BY <2>3, <3>4, <4>1, ZenonT(60)
    <3> QED
      BY <3>6, <3>7, Zenon DEF p, y
  <2>8. \A j \in 1..i : j = i \/ j \in 1..i-1
    BY <2>1
  <2> HIDE DEF Has
  <2> QED
    BY <2>1, <2>6, <2>7, <2>8, ZenonT(60)
<1> HIDE DEF P
<1>6. n \in P
  <2>1. n \in Nat
    BY <1>0
  <2>2. \A i \in 0..n : i \in P
    BY <1>0, <1>4, <1>5, <2>1, Upward, Zenon
  <2> QED
    BY <1>0, <2>2, Zenon
<1>7. \A j \in 1..n : Has(f[n], j)
  <2> HIDE DEF Has
  <2> QED
    BY <1>6, Zenon DEF P
<1> QED
  BY <1>7, Zenon DEF n, f, off, Z

\* What a list of arguments that lies in the packet occupies.
LEMMA FitsIs ==
    ASSUME NEW args \in Seq(Argument), Fits(args)
    PROVE  Len(args) \in 0..54 /\ Size(args) \in 0..38
<1> DEFINE n == Len(args)
           z == Size(args)
<1>1. n \in Nat /\ z \in Nat
  BY PlacesAre, Zenon
<1>2. 4 + n <= 58 /\ 20 + z <= 58
  BY RoomIs, Zenon DEF Fits
<1> HIDE DEF n, z
<1>3. n \in 0..54 /\ z \in 0..38
  BY <1>1, <1>2
<1> QED
  BY <1>3, Zenon DEF n, z

\* The call that lf_invoke_by_index lays out: the function and the number of
\* arguments have their place, and up to FMR_MAX_ARGC arguments have theirs.
LEMMA BodyIs ==
    ASSUME NEW c \in Call, NEW args \in Seq(Argument), Fits(args)
    PROVE  LET b == Body(c, args) IN
           /\ b \in Seq(Byte) /\ Len(b) = 58
           /\ b[2] = c.function /\ b[4] = Len(args)
           /\ Len(args) <= 16 => \A j \in 1..Len(args) :
                 /\ b[4 + j] = args[j].type
                 /\ \A k \in 1..lf_sizeof(args[j].type) :
                       b[20 + (Offsets(Types(args))[j - 1] + k)] = args[j].value[k]
<1> DEFINE n == Len(args)
           fields == <<c.module, c.function, c.ret, n>>
           b == Filled(fields, args)[n]
<1>1. n \in 0..54 /\ Size(args) <= 38
  <2>1. n \in 0..54 /\ Size(args) \in 0..38
    BY FitsIs, Zenon
  <2>2. \A z \in 0..38 : z <= 38
    OBVIOUS
  <2> QED
    BY <2>1, <2>2, Zenon
<1>2. c.module \in Byte /\ c.function \in Byte /\ c.ret \in Byte
  BY SMTT(60) DEF Call
<1>3. n \in Byte /\ n \in 0..n
  <2> HIDE DEF n
  <2> QED
    BY <1>1 DEF Byte
<1>4. b = Body(c, args)
  BY Zenon DEF Body
<1>5. fields \in Seq(Byte) /\ Len(fields) = 4 /\ fields[2] = c.function /\ fields[4] = n
  <2> HIDE DEF n
  <2> QED
    BY <1>2, <1>3
<1> HIDE DEF fields
<1>6. b \in Block
  BY <1>3, <1>5, FilledIs, ZenonT(60)
<1>7. \A k \in 1..4 : b[k] = fields[k]
  BY <1>3, <1>5, FilledKeeps, ZenonT(60)
<1>8. n <= 16 => \A j \in 1..n :
         /\ b[4 + j] = args[j].type
         /\ \A k \in 1..lf_sizeof(args[j].type) :
               b[20 + (Offsets(Types(args))[j - 1] + k)] = args[j].value[k]
  BY <1>1, <1>5, FilledHolds, ZenonT(60)
<1> HIDE DEF b
<1>9. 2 \in 1..4 /\ 4 \in 1..4
  OBVIOUS
<1>10. b[2] = c.function /\ b[4] = n
  BY <1>5, <1>7, <1>9, Zenon
<1>11. b \in Seq(Byte) /\ Len(b) = 58
  BY <1>6, BlockIs, Zenon
<1> QED
  BY <1>4, <1>8, <1>10, <1>11, ZenonT(60) DEF n

\* The two bytes of a checksum, and that they tell two checksums apart.
LowByte(crc) == crc \cap 0..7
HighByte(crc) == {e - 8 : e \in crc \cap 8..15}

\* They are bytes (hdr->crc, lib/fmr.h).
LEMMA CrcBytesIs ==
    ASSUME NEW crc \in Register
    PROVE  /\ CrcBytes(crc) = <<ByteOf(LowByte(crc)), ByteOf(HighByte(crc))>>
           /\ ByteOf(LowByte(crc)) \in Byte /\ ByteOf(HighByte(crc)) \in Byte
<1>1. LowByte(crc) \in SUBSET (0..7) /\ HighByte(crc) \in SUBSET (0..7)
  BY DEF LowByte, HighByte, Register
<1>2. CrcBytes(crc) = <<ByteOf(LowByte(crc)), ByteOf(HighByte(crc))>>
  BY Zenon DEF CrcBytes, LowByte, HighByte
<1> QED
  BY <1>1, <1>2, BitsOfByte, ZenonT(60)

\* Two checksums with the same bytes are the same (the comparison in
\* fmr_perform, lib/fmr.c).
LEMMA CrcBytesInjective ==
    ASSUME NEW c \in Register, NEW d \in Register, CrcBytes(c) = CrcBytes(d)
    PROVE  c = d
<1>1. /\ LowByte(c) \in SUBSET (0..7) /\ HighByte(c) \in SUBSET (0..7)
      /\ LowByte(d) \in SUBSET (0..7) /\ HighByte(d) \in SUBSET (0..7)
  BY DEF LowByte, HighByte, Register
<1>2. ByteOf(LowByte(c)) = ByteOf(LowByte(d)) /\ ByteOf(HighByte(c)) = ByteOf(HighByte(d))
  <2> DEFINE a == ByteOf(LowByte(c))
             b == ByteOf(HighByte(c))
             p == ByteOf(LowByte(d))
             q == ByteOf(HighByte(d))
  <2>1. <<a, b>> = <<p, q>>
    BY CrcBytesIs, ZenonT(60)
  <2> HIDE DEF a, b, p, q
  <2>2. a = p /\ b = q
    BY <2>1
  <2> QED
    BY <2>2, Zenon DEF a, b, p, q
<1>3. LowByte(c) = LowByte(d) /\ HighByte(c) = HighByte(d)
  <2>1. /\ BitsOf(ByteOf(LowByte(c))) = LowByte(c) /\ BitsOf(ByteOf(LowByte(d))) = LowByte(d)
        /\ BitsOf(ByteOf(HighByte(c))) = HighByte(c) /\ BitsOf(ByteOf(HighByte(d))) = HighByte(d)
    BY <1>1, BitsOfByte, ZenonT(60)
  <2> QED
    BY <1>2, <2>1, ZenonT(60)
<1>4. ASSUME NEW r \in Register, NEW e \in 0..15
      PROVE  e \in r <=> IF e <= 7 THEN e \in LowByte(r) ELSE e - 8 \in HighByte(r)
  BY DEF LowByte, HighByte, Register
<1>5. \A e \in 0..15 : e \in c <=> e \in d
  BY <1>3, <1>4, ZenonT(60)
<1> QED
  BY <1>5, SameRegister, ZenonT(60)

\* The header that a packet has: its number, the checksum, the length, the type.
IsHeader(h, crc, len) ==
    /\ h \in Seq(Byte) /\ Len(h) = 6
    /\ h[1] = FMR_MAGIC_NUMBER /\ h[2] = CrcBytes(crc)[1] /\ h[3] = CrcBytes(crc)[2]
    /\ h[4] = len % 256 /\ h[5] = (len \div 256) % 256 /\ h[6] = 0

\* The header that is written has them (lf_invoke_by_index, lib/libflipper.c).
LEMMA HeaderIs ==
    ASSUME NEW crc \in Register, NEW len \in Nat
    PROVE  IsHeader(Header(crc, len), crc, len)
<1> DEFINE a == ByteOf(LowByte(crc))
           b == ByteOf(HighByte(crc))
           l == len % 256
           m == (len \div 256) % 256
<1>1. CrcBytes(crc) = <<a, b>> /\ a \in Byte /\ b \in Byte
  BY CrcBytesIs, ZenonT(60)
<1>2. l \in 0..255 /\ m \in 0..255
  OBVIOUS
<1> DEFINE w == <<FMR_MAGIC_NUMBER>>
           x == CrcBytes(crc)
           y == Uint16(len)
           z == <<0>>
           wx == w \o x
           wxy == wx \o y
           h == wxy \o z
<1>3. h = Header(crc, len)
  BY Zenon DEF Header
<1>4. w \in Seq(Byte) /\ Len(w) = 1 /\ w[1] = FMR_MAGIC_NUMBER
  BY DEF FMR_MAGIC_NUMBER, Byte
<1>5. x \in Seq(Byte) /\ Len(x) = 2
  <2> HIDE DEF a, b
  <2> QED
    BY <1>1, SMTT(60)
<1>6. y \in Seq(Byte) /\ Len(y) = 2 /\ y[1] = l /\ y[2] = m
  <2>1. y = <<l, m>>
    BY Zenon DEF Uint16
  <2> HIDE DEF y, l, m
  <2> QED
    BY <1>2, <2>1 DEF Byte
<1>7. z \in Seq(Byte) /\ Len(z) = 1 /\ z[1] = 0
  BY DEF Byte
<1> HIDE DEF w, x, y, z
<1>8. /\ wx \in Seq(Byte) /\ Len(wx) = Len(w) + Len(x)
      /\ \A k \in 1..Len(w) : wx[k] = w[k]
      /\ \A k \in 1..Len(x) : wx[Len(w) + k] = x[k]
  BY <1>4, <1>5, Concat, Zenon
<1> HIDE DEF wx
<1>9. wx \in Seq(Byte) /\ Len(wx) = 3 /\ wx[1] = w[1] /\ wx[2] = x[1] /\ wx[3] = x[2]
  BY <1>4, <1>5, <1>8, SMTT(60)
<1>10. /\ wxy \in Seq(Byte) /\ Len(wxy) = Len(wx) + Len(y)
       /\ \A k \in 1..Len(wx) : wxy[k] = wx[k]
       /\ \A k \in 1..Len(y) : wxy[Len(wx) + k] = y[k]
  <2>1. wx \in Seq(Byte) /\ y \in Seq(Byte)
    BY <1>6, <1>8, ZenonT(60)
  <2> QED
    BY <2>1, Concat, Zenon
<1> HIDE DEF wxy
<1>11. /\ wxy \in Seq(Byte) /\ Len(wxy) = 5 /\ wxy[1] = wx[1] /\ wxy[2] = wx[2]
       /\ wxy[3] = wx[3] /\ wxy[4] = y[1] /\ wxy[5] = y[2]
  BY <1>6, <1>9, <1>10, SMTT(60)
<1>12. /\ h \in Seq(Byte) /\ Len(h) = Len(wxy) + Len(z)
       /\ \A k \in 1..Len(wxy) : h[k] = wxy[k]
       /\ \A k \in 1..Len(z) : h[Len(wxy) + k] = z[k]
  <2>1. wxy \in Seq(Byte) /\ z \in Seq(Byte)
    BY <1>7, <1>10, ZenonT(60)
  <2> QED
    BY <2>1, Concat, Zenon
<1> HIDE DEF h
<1>13. /\ Len(h) = 6 /\ h[1] = wxy[1] /\ h[2] = wxy[2]
       /\ h[3] = wxy[3] /\ h[4] = wxy[4] /\ h[5] = wxy[5] /\ h[6] = z[1]
  BY <1>7, <1>11, <1>12, SMTT(60)
<1>15. /\ h[1] = FMR_MAGIC_NUMBER /\ h[2] = x[1] /\ h[3] = x[2]
       /\ h[4] = l /\ h[5] = m /\ h[6] = 0
  <2> HIDE DEF l, m
  <2> QED
    BY <1>4, <1>6, <1>7, <1>9, <1>11, <1>13, ZenonT(60)
<1>14. IsHeader(h, crc, len)
  BY <1>12, <1>13, <1>15, ZenonT(60) DEF IsHeader, x
<1> QED
  BY <1>3, <1>14, ZenonT(60)

\* A header, a call behind it, and zeros up to the end of the packet.
IsPacket(q, h, body) ==
    /\ q \in Seq(Byte) /\ Len(q) = 64
    /\ \A k \in 1..6 : q[k] = h[k]
    /\ \A k \in 7..64 : q[k] = IF k <= 6 + Len(body) THEN body[k - 6] ELSE 0

\* The packet starts as zeros (memset in lf_invoke_by_index).
LEMMA PaddedIs ==
    ASSUME NEW h \in Seq(Byte), Len(h) = 6, NEW body \in Seq(Byte), Len(body) \in 0..58
    PROVE  IsPacket(Padded(h \o body), h, body)
<1> DEFINE n == Len(body)
           c == h \o body
           z == Zeros(64 - Len(c))
           q == c \o z
<1>1. n \in 0..58
  OBVIOUS
<1>2. /\ c \in Seq(Byte) /\ Len(c) = Len(h) + Len(body)
      /\ \A k \in 1..Len(h) : c[k] = h[k]
      /\ \A k \in 1..Len(body) : c[Len(h) + k] = body[k]
  BY Concat, Zenon
<1>3. q = Padded(h \o body)
  BY Zenon DEF Padded, FMR_PACKET_SIZE
<1> HIDE DEF c
<1>4. /\ c \in Seq(Byte) /\ Len(c) = 6 + n
      /\ \A k \in 1..6 : c[k] = h[k]
      /\ \A k \in 1..n : c[6 + k] = body[k]
  BY <1>2, Zenon
<1> HIDE DEF n
<1>5. 64 - (6 + n) \in Nat /\ (6 + n) + (64 - (6 + n)) = 64
  BY <1>1
<1>6. /\ z \in Seq(Byte) /\ Len(z) = 64 - (6 + n)
      /\ \A k \in 1..64-(6+n) : z[k] = 0
  <2>1. z = Zeros(64 - (6 + n))
    BY <1>4, Zenon
  <2> DEFINE m == 64 - (6 + n)
  <2>2. m \in Nat
    BY <1>5, Zenon
  <2> HIDE DEF m
  <2>3. Zeros(m) \in Seq(Byte) /\ Len(Zeros(m)) = m /\ \A k \in 1..m : Zeros(m)[k] = 0
    BY <2>2, ZerosIs, Zenon
  <2> QED
    BY <2>1, <2>3, Zenon DEF m
<1> HIDE DEF z
<1>7. /\ q \in Seq(Byte) /\ Len(q) = Len(c) + Len(z)
      /\ \A k \in 1..Len(c) : q[k] = c[k]
      /\ \A k \in 1..Len(z) : q[Len(c) + k] = z[k]
  <2>1. c \in Seq(Byte) /\ z \in Seq(Byte)
    BY <1>4, <1>6, ZenonT(60)
  <2> QED
    BY <2>1, Concat, Zenon
<1> HIDE DEF q
<1>8. /\ Len(q) = 64
      /\ \A k \in 1..6+n : q[k] = c[k]
      /\ \A k \in 1..64-(6+n) : q[(6 + n) + k] = z[k]
  <2>1. Len(c) = 6 + n /\ Len(z) = 64 - (6 + n)
    BY <1>4, <1>6, Zenon
  <2>2. Len(q) = (6 + n) + (64 - (6 + n))
    BY <1>7, <2>1, Zenon
  <2>3. Len(q) = 64
    BY <1>5, <2>2, Zenon
  <2>4. \A k \in 1..6+n : q[k] = c[k]
    BY <1>7, <2>1, Zenon
  <2>5. \A k \in 1..64-(6+n) : q[(6 + n) + k] = z[k]
    BY <1>7, <2>1, Zenon
  <2> QED
    BY <2>3, <2>4, <2>5, Zenon
<1>9. ASSUME NEW k \in 1..6 PROVE q[k] = h[k]
  <2>1. k \in 1..6+n
    BY <1>1
  <2> QED
    BY <1>4, <1>8, <2>1, Zenon
<1>10. ASSUME NEW k \in 7..64 PROVE q[k] = IF k <= 6 + n THEN body[k - 6] ELSE 0
  <2>1. CASE k <= 6 + n
    <3>1. k \in 1..6+n /\ k - 6 \in 1..n /\ 6 + (k - 6) = k
      BY <1>1, <2>1
    <3>2. c[6 + (k - 6)] = body[k - 6]
      BY <1>4, <3>1, Zenon
    <3>3. q[k] = body[k - 6]
      BY <1>8, <3>1, <3>2, ZenonT(60)
    <3> QED
      BY <2>1, <3>3, Zenon
  <2>2. CASE ~(k <= 6 + n)
    <3>1. k - (6 + n) \in 1..64-(6+n) /\ (6 + n) + (k - (6 + n)) = k
      BY <1>1, <2>2, SMTT(60)
    <3>4. q[(6 + n) + (k - (6 + n))] = z[k - (6 + n)] /\ z[k - (6 + n)] = 0
      BY <1>6, <1>8, <3>1, ZenonT(60)
    <3>2. q[(6 + n) + (k - (6 + n))] = 0
      BY <3>4, Zenon
    <3>3. q[k] = 0
      BY <3>1, <3>2, Zenon
    <3> QED
      BY <2>2, <3>3, ZenonT(60)
  <2> QED
    BY <2>1, <2>2, Zenon
<1> QED
  BY <1>3, <1>7, <1>8, <1>9, <1>10, ZenonT(60) DEF IsPacket, n

\* A packet without its checksum.
Cleared(p) == [p EXCEPT ![2] = 0, ![3] = 0]

\* Only the checksum is cleared (hdr->crc = 0 in fmr_perform, lib/fmr.c).
LEMMA ClearedIs ==
    ASSUME NEW p \in Seq(Byte), Len(p) = 64
    PROVE  /\ Cleared(p) \in [1..64 -> Byte] /\ Cleared(p)[2] = 0 /\ Cleared(p)[3] = 0
           /\ \A k \in 1..64 : k # 2 /\ k # 3 => Cleared(p)[k] = p[k]
<1>1. p \in [1..64 -> Byte]
  <2>1. p \in [1..Len(p) -> Byte]
    BY LenProperties, Zenon
  <2> QED
    BY <2>1, Zenon
<1>2. 0 \in Byte /\ 2 \in 1..64 /\ 3 \in 1..64 /\ 2 # 3
  BY DEF Byte
<1> QED
  BY <1>1, <1>2, ZenonT(60) DEF Cleared

\* The length is stored in two bytes, the least significant first.
LEMMA Uint16Is == \A len \in Byte : (len % 256) + 256 * ((len \div 256) % 256) = len
BY DEF Byte

\* What a packet with its checksum is: every part has its place, and where the
\* checksum covers no more than the packet it is the one that the device finds.
IsSealed(p, body, len) ==
    /\ p \in Seq(Byte) /\ Len(p) = 64
    /\ p[1] = FMR_MAGIC_NUMBER /\ Get16(p, 4) = len /\ p[6] = 0
    /\ \A k \in 1..Len(body) : p[6 + k] = body[k]
    /\ len <= 64 => CrcBytes(Checksum(p)) = <<p[2], p[3]>>

\* What is sent is one (lf_crc and hdr->crc = crc in lf_invoke_by_index).
LEMMA SealedIs ==
    ASSUME NEW body \in Seq(Byte), Len(body) \in 0..58, NEW len \in Byte
    PROVE  IsSealed(Sealed(body, len), body, len)
<1> DEFINE n == Len(body)
           h0 == Header({}, len)
           open == Padded(h0 \o body)
           crc == IF len <= 64 THEN calcrc(SubSeq(open, 1, len)) ELSE {}
           h == Header(crc, len)
           p == Padded(h \o body)
<1>1. p = Sealed(body, len)
  BY ZenonT(60) DEF Sealed, FMR_PACKET_SIZE
<1>2. {} \in Register /\ len \in Nat
  BY DEF Register, Byte
<1>3. IsHeader(h0, {}, len)
  BY <1>2, HeaderIs, Zenon
<1> HIDE DEF h0
<1>4. IsPacket(open, h0, body)
  <2>1. h0 \in Seq(Byte) /\ Len(h0) = 6
    BY <1>3, Zenon DEF IsHeader
  <2> QED
    BY <2>1, PaddedIs, Zenon
<1> HIDE DEF open
<1>5. open \in Seq(Byte) /\ Len(open) = 64 /\ open \in [1..64 -> Byte]
  <2>1. open \in Seq(Byte) /\ Len(open) = 64
    BY <1>4, Zenon DEF IsPacket
  <2>2. open \in [1..Len(open) -> Byte]
    BY <2>1, LenProperties, Zenon
  <2> QED
    BY <2>1, <2>2, Zenon
<1>6. crc \in Register
  <2>1. CASE len <= 64
    <3>1. \A k \in 1..len : k \in 1..64
      <4>1. 64 \in Nat
        BY SMTT(60)
      <4> QED
        BY <1>2, <2>1, <4>1, Inside, Zenon
    <3>2. \A k \in 1..len : open[k] \in Byte
      BY <1>5, <3>1, Zenon
    <3>3. SubSeq(open, 1, len) \in Seq(Byte)
      BY <1>2, <3>2, Prefix, Zenon
    <3>4. calcrc(SubSeq(open, 1, len)) \in Register
      BY <3>3, CalcrcRegister, ZenonT(60)
    <3> QED
      BY <2>1, <3>4, Zenon
  <2>2. CASE ~(len <= 64)
    BY <1>2, <2>2, ZenonT(60)
  <2> QED
    BY <2>1, <2>2, Zenon
<1>7. len <= 64 => crc = calcrc(SubSeq(open, 1, len))
  BY Zenon
<1> HIDE DEF crc
<1>8. IsHeader(h, crc, len)
  BY <1>2, <1>6, HeaderIs, Zenon
<1> HIDE DEF h
<1>9. IsPacket(p, h, body)
  <2>1. h \in Seq(Byte) /\ Len(h) = 6
    BY <1>8, Zenon DEF IsHeader
  <2> QED
    BY <2>1, PaddedIs, Zenon
<1> HIDE DEF p
<1>10. p \in Seq(Byte) /\ Len(p) = 64 /\ \A k \in 1..6 : p[k] = h[k]
  BY <1>9, Zenon DEF IsPacket
<1>11. /\ 1 \in 1..6 /\ 2 \in 1..6 /\ 3 \in 1..6 /\ 4 \in 1..6 /\ 5 \in 1..6 /\ 6 \in 1..6
       /\ \A k \in 1..64 : k = 1 \/ k = 2 \/ k = 3 \/ k = 4 \/ k = 5 \/ k = 6 \/ k \in 7..64
       /\ \A k \in 1..n : 6 + k \in 7..64 /\ 6 + k <= 6 + n /\ (6 + k) - 6 = k
  <2>1. /\ 1 \in 1..6 /\ 2 \in 1..6 /\ 3 \in 1..6 /\ 4 \in 1..6 /\ 5 \in 1..6 /\ 6 \in 1..6
        /\ \A k \in 1..64 : k = 1 \/ k = 2 \/ k = 3 \/ k = 4 \/ k = 5 \/ k = 6 \/ k \in 7..64
    OBVIOUS
  <2>2. n \in 0..58
    BY Zenon
  <2> HIDE DEF n
  <2>3. \A k \in 1..n : 6 + k \in 7..64 /\ 6 + k <= 6 + n /\ (6 + k) - 6 = k
    BY <2>2
  <2> QED
    BY <2>1, <2>3, ZenonT(60)
<1>12. p[1] = h[1] /\ p[2] = h[2] /\ p[3] = h[3] /\ p[4] = h[4] /\ p[5] = h[5] /\ p[6] = h[6]
  BY <1>10, <1>11, ZenonT(60)
<1>13. /\ p[1] = FMR_MAGIC_NUMBER /\ p[2] = CrcBytes(crc)[1] /\ p[3] = CrcBytes(crc)[2]
       /\ p[4] = len % 256 /\ p[5] = (len \div 256) % 256 /\ p[6] = 0
  <2>1. /\ h[1] = FMR_MAGIC_NUMBER /\ h[2] = CrcBytes(crc)[1] /\ h[3] = CrcBytes(crc)[2]
        /\ h[4] = len % 256 /\ h[5] = (len \div 256) % 256 /\ h[6] = 0
    BY <1>8, ZenonT(60) DEF IsHeader
  <2> QED
    BY <1>12, <2>1, ZenonT(60)
<1>14. Get16(p, 4) = len
  <2>1. 4 + 1 = 5
    BY SMTT(60)
  <2>2. Get16(p, 4) = p[4] + 256 * p[5]
    BY <2>1, ZenonT(60) DEF Get16
  <2>3. Get16(p, 4) = (len % 256) + 256 * ((len \div 256) % 256)
    BY <1>13, <2>2, ZenonT(60)
  <2> QED
    BY <2>3, Uint16Is, Zenon
<1>15. ASSUME NEW k \in 1..n PROVE p[6 + k] = body[k]
  <2>1. p[6 + k] = body[(6 + k) - 6]
    BY <1>9, <1>11, ZenonT(60) DEF IsPacket, n
  <2> QED
    BY <1>11, <2>1, Zenon
<1>16. /\ open[1] = FMR_MAGIC_NUMBER /\ open[2] = 0 /\ open[3] = 0
       /\ open[4] = len % 256 /\ open[5] = (len \div 256) % 256 /\ open[6] = 0
  <2>1. \A k \in 1..6 : open[k] = h0[k]
    BY <1>4, ZenonT(60) DEF IsPacket
  <2>2. /\ open[1] = h0[1] /\ open[2] = h0[2] /\ open[3] = h0[3]
        /\ open[4] = h0[4] /\ open[5] = h0[5] /\ open[6] = h0[6]
    BY <1>11, <2>1, ZenonT(60)
  <2>3. CrcBytes({})[1] = 0 /\ CrcBytes({})[2] = 0
    <3>1. {} \cap 0..7 = {} /\ {e - 8 : e \in {} \cap 8..15} = {}
      OBVIOUS
    <3>2. ByteOf({}) = 0
      BY DEF ByteOf
    <3>3. CrcBytes({}) = <<0, 0>>
      BY <3>1, <3>2, Zenon DEF CrcBytes
    <3> QED
      BY <3>3
  <2>4. /\ h0[1] = FMR_MAGIC_NUMBER /\ h0[2] = CrcBytes({})[1] /\ h0[3] = CrcBytes({})[2]
        /\ h0[4] = len % 256 /\ h0[5] = (len \div 256) % 256 /\ h0[6] = 0
    BY <1>3, Zenon DEF IsHeader
  <2> QED
    BY <2>2, <2>3, <2>4, Zenon
<1>17. Cleared(p) = open
  <2> DEFINE q == Cleared(p)
  <2>1. /\ q \in [1..64 -> Byte] /\ q[2] = 0 /\ q[3] = 0
        /\ \A k \in 1..64 : k # 2 /\ k # 3 => q[k] = p[k]
    BY <1>10, ClearedIs, Zenon
  <2> HIDE DEF q
  <2>2. q[1] = p[1] /\ q[4] = p[4] /\ q[5] = p[5] /\ q[6] = p[6]
    <3>1. /\ 1 \in 1..64 /\ 4 \in 1..64 /\ 5 \in 1..64 /\ 6 \in 1..64
          /\ 1 # 2 /\ 1 # 3 /\ 4 # 2 /\ 4 # 3 /\ 5 # 2 /\ 5 # 3 /\ 6 # 2 /\ 6 # 3
      OBVIOUS
    <3> QED
      BY <2>1, <3>1, Zenon
  <2>3. ASSUME NEW k \in 7..64 PROVE q[k] = open[k]
    <3>1. k \in 1..64 /\ k # 2 /\ k # 3
      OBVIOUS
    <3>2. p[k] = open[k]
      <4> DEFINE v == IF k <= 6 + Len(body) THEN body[k - 6] ELSE 0
      <4>1. p[k] = v
        BY <1>9, Zenon DEF IsPacket
      <4>2. open[k] = v
        BY <1>4, Zenon DEF IsPacket
      <4> HIDE DEF v
      <4> QED
        BY <4>1, <4>2, Zenon
    <3> QED
      BY <2>1, <3>1, <3>2, Zenon
  <2>6. /\ q[1] = open[1] /\ q[2] = open[2] /\ q[3] = open[3]
        /\ q[4] = open[4] /\ q[5] = open[5] /\ q[6] = open[6]
    BY <1>13, <1>16, <2>1, <2>2, Zenon
  <2>4. ASSUME NEW k \in 1..64 PROVE q[k] = open[k]
    <3>1. k = 1 \/ k = 2 \/ k = 3 \/ k = 4 \/ k = 5 \/ k = 6 \/ k \in 7..64
      BY <1>11, ZenonT(60)
    <3> QED
      BY <2>3, <2>6, <3>1, ZenonT(60)
  <2>5. q = open
    <3>2. q = [k \in 1..64 |-> q[k]] /\ open = [k \in 1..64 |-> open[k]]
      BY <1>5, <2>1, Zenon
    <3> QED
      BY <2>4, <3>2, Zenon
  <2> QED
    BY <2>5, Zenon DEF q
<1>18. ASSUME len <= 64 PROVE CrcBytes(Checksum(p)) = <<p[2], p[3]>>
  <2>1. Checksum(p) = crc
    BY <1>7, <1>14, <1>17, <1>18, ZenonT(60) DEF Checksum, Cleared
  <2>2. CrcBytes(crc) = <<CrcBytes(crc)[1], CrcBytes(crc)[2]>>
    <3> DEFINE a == ByteOf(LowByte(crc))
               b == ByteOf(HighByte(crc))
    <3>1. CrcBytes(crc) = <<a, b>>
      BY <1>6, CrcBytesIs, Zenon
    <3> HIDE DEF a, b
    <3> QED
      BY <3>1
  <2> QED
    BY <1>13, <2>1, <2>2, Zenon
<1> QED
  BY <1>1, <1>10, <1>13, <1>14, <1>15, <1>18, ZenonT(60) DEF IsSealed, n

\* A packet with a call behind its header.
Carries(p, c, args) == \A k \in 1..20+Size(args) : p[6 + k] = Body(c, args)[k]

\* The device reads the function and the number of arguments that were laid out
\* (fmr_rpc, lib/fmr.c).
LEMMA ReadsHead ==
    ASSUME NEW c \in Call, NEW args \in Seq(Argument), Fits(args), NEW p,
           Carries(p, c, args), NEW u
    PROVE  p[8] = c.function /\ p[10] = Len(args) /\ Len(Arguments(p, u)) = Len(args)
<1> DEFINE n == Len(args)
           z == Size(args)
           b == Body(c, args)
           R == Arguments(p, u)
<1>1. n \in Nat /\ z \in 0..38
  BY FitsIs, PlacesAre, ZenonT(60)
<1>2. b[2] = c.function /\ b[4] = n
  BY BodyIs, ZenonT(60)
<1>3. \A k \in 1..20+z : p[6 + k] = b[k]
  BY Zenon DEF Carries
<1> HIDE DEF n, z, b
<1>4. 2 \in 1..20+z /\ 4 \in 1..20+z /\ 6 + 2 = 8 /\ 6 + 4 = 10
  BY <1>1
<1>5. p[6 + 2] = c.function /\ p[6 + 4] = n
  BY <1>2, <1>3, <1>4, Zenon
<1>6. p[8] = c.function /\ p[10] = n
  BY <1>4, <1>5, Zenon
<1> DEFINE types == [i \in 1..n |-> At(p, 10 + i, u)]
           E(i) == [type |-> types[i],
                    value |-> [k \in 1..lf_sizeof(types[i]) |->
                                 At(p, HeaderSize + CallSize + Offsets(types)[i - 1] + k, u)]]
<1>7. R = [i \in 1..n |-> E(i)]
  BY <1>6, Zenon DEF Arguments
<1> HIDE DEF R, E
<1>8. Len(R) = n
  BY <1>1, <1>7
<1> QED
  BY <1>6, <1>8, Zenon DEF n, R

\* Where there is room for the types it reads each argument with its type and
\* its bytes.
LEMMA ReadsCall ==
    ASSUME NEW c \in Call, NEW args \in Seq(Argument), Fits(args), NEW p,
           Carries(p, c, args), NEW u, Len(args) <= 16
    PROVE  Arguments(p, u) = Seen(args)
<1> DEFINE n == Len(args)
           z == Size(args)
           b == Body(c, args)
           off == Offsets(Types(args))
<1>1. n \in 0..16 /\ z \in 0..38
  <2>1. n \in 0..54 /\ z \in 0..38 /\ n <= 16
    BY FitsIs, Zenon
  <2>2. \A x \in 0..54 : x <= 16 => x \in 0..16
    OBVIOUS
  <2> QED
    BY <2>1, <2>2, Zenon
<1>2. \A i \in 1..n :
         /\ b[4 + i] = args[i].type
         /\ \A k \in 1..lf_sizeof(args[i].type) :
               b[20 + (off[i - 1] + k)] = args[i].value[k]
  BY BodyIs, Zenon
<1>3. \A k \in 1..20+z : p[6 + k] = b[k]
  BY Zenon DEF Carries
<1>4. DOMAIN args = 1..n /\ \A i \in 1..n : args[i] \in Argument
  <2>1. DOMAIN args = 1..n /\ args \in [1..n -> Argument]
    BY LenProperties, Zenon
  <2> QED
    BY <2>1, Zenon
<1>5. Types(args) = [i \in 1..n |-> args[i].type]
  BY <1>4, Zenon DEF Types
<1>6. /\ off \in [0..n -> Nat]
      /\ \A i \in 1..n : \A k \in 1..lf_sizeof(args[i].type) : off[i - 1] + k \in 1..z
  <2>1. n \in Nat /\ Len(Types(args)) = n
    BY <1>1, TypesIs
  <2>2. off \in [0..n -> Nat]
    BY <2>1, OffsetsIs, Zenon
  <2> QED
    BY <2>2, PlaceIs, Zenon
<1> HIDE DEF n, z, b, off
<1>7. \A i \in 1..n : 4 + i \in 1..20+z /\ 10 + i <= 64 /\ 10 + i = 6 + (4 + i)
  BY <1>1
<1>8. p[10] = n
  BY ReadsHead, Zenon DEF n
<1> DEFINE types == [i \in 1..n |-> At(p, 10 + i, u)]
<1>9. ASSUME NEW i \in 1..n PROVE At(p, 10 + i, u) = args[i].type
  <2>1. p[6 + (4 + i)] = b[4 + i]
    BY <1>3, <1>7, Zenon
  <2>2. p[10 + i] = args[i].type
    BY <1>2, <1>7, <2>1, Zenon
  <2>3. At(p, 10 + i, u) = p[10 + i]
    BY <1>7, Zenon DEF At, FMR_PACKET_SIZE
  <2> QED
    BY <2>2, <2>3, Zenon
<1>10. types = Types(args)
  BY <1>5, <1>9, Zenon
<1> DEFINE argv(i) == HeaderSize + CallSize + off[i - 1]
           V(i) == [k \in 1..lf_sizeof(args[i].type) |-> At(p, argv(i) + k, u)]
<1>11. ASSUME NEW i \in 1..n PROVE V(i) = SubSeq(args[i].value, 1, lf_sizeof(args[i].type))
  <2> DEFINE y == lf_sizeof(args[i].type)
  <2>1. ASSUME NEW k \in 1..y PROVE At(p, argv(i) + k, u) = args[i].value[k]
    <3> DEFINE o == off[i - 1]
               w == o + k
    <3>1. o \in Nat
      <4>1. i - 1 \in 0..n
        BY <1>1
      <4> QED
        BY <1>6, <4>1, Zenon
    <3>2. w \in 1..z
      BY <1>6, Zenon
    <3>3. k \in Int
      OBVIOUS
    <3>4. argv(i) = 26 + o
      <4>1. HeaderSize + CallSize = 26
        BY DEF HeaderSize, CallSize, FMR_MAX_ARGC
      <4> QED
        BY <4>1, Zenon
    <3> HIDE DEF o
    <3>5. (26 + o) + k = 6 + (20 + w)
      BY <3>1, <3>3
    <3> HIDE DEF w
    <3>6. 20 + w \in 1..20+z /\ 6 + (20 + w) <= 64
      BY <1>1, <3>2
    <3>7. argv(i) + k = 6 + (20 + w)
      BY <3>4, <3>5, Zenon
    <3>8. At(p, 6 + (20 + w), u) = p[6 + (20 + w)]
      BY <3>6, Zenon DEF At, FMR_PACKET_SIZE
    <3>9. p[6 + (20 + w)] = b[20 + w]
      BY <1>3, <3>6, Zenon
    <3>10. b[20 + w] = args[i].value[k]
      BY <1>2, Zenon DEF w, o
    <3> HIDE DEF argv
    <3> QED
      BY <3>7, <3>8, <3>9, <3>10, ZenonT(60)
  <2> HIDE DEF argv
  <2>2. Piece(args[i]) = [k \in 1..y |-> args[i].value[k]]
    BY <1>4, PieceIs, Zenon
  <2>3. V(i) = [k \in 1..y |-> args[i].value[k]]
    BY <2>1, Zenon
  <2> QED
    BY <2>2, <2>3, Zenon DEF Piece
<1> DEFINE R(i) == [type |-> types[i],
                    value |-> [k \in 1..lf_sizeof(types[i]) |->
                                 At(p, HeaderSize + CallSize + Offsets(types)[i - 1] + k, u)]]
           S(i) == [type |-> args[i].type,
                    value |-> SubSeq(args[i].value, 1, lf_sizeof(args[i].type))]
<1>12. Arguments(p, u) = [i \in 1..n |-> R(i)]
  BY <1>8, Zenon DEF Arguments
<1>13. Seen(args) = [i \in 1..n |-> S(i)]
  BY <1>4, Zenon DEF Seen
<1>14. ASSUME NEW i \in 1..n PROVE R(i) = S(i)
  <2>1. types[i] = args[i].type
    BY <1>9, Zenon
  <2>2. Offsets(types) = off
    BY <1>10, Zenon DEF off
  <2>3. R(i) = [type |-> args[i].type, value |-> V(i)]
    <3> HIDE DEF types
    <3> QED
      BY <2>1, <2>2, Zenon
  <2> HIDE DEF R, V
  <2> QED
    BY <1>11, <2>3, Zenon
<1> HIDE DEF R, S
<1> QED
  BY <1>12, <1>13, <1>14, Zenon

\* A damaged byte is another byte.
LEMMA FlippedIs ==
    ASSUME NEW b \in Byte, NEW m \in SUBSET (0..7), m # {}
    PROVE  Flipped(b, m) \in Byte /\ Flipped(b, m) # b
<1> DEFINE s == BitsOf(b)
           x == Xor(s, m)
<1>1. s \in SUBSET (0..7)
  BY ByteOfItsBits, Zenon
<1> HIDE DEF s
<1>2. x \in SUBSET (0..7) /\ x # s
  BY <1>1 DEF Xor
<1> HIDE DEF x
<1>3. ByteOf(x) \in Byte /\ BitsOf(ByteOf(x)) = x
  BY <1>2, BitsOfByte, Zenon
<1>4. Flipped(b, m) = ByteOf(x)
  BY Zenon DEF Flipped, x, s
<1>5. ByteOf(x) # b
  BY <1>2, <1>3, Zenon DEF s
<1> QED
  BY <1>3, <1>4, <1>5, Zenon

\* A function of the numbers up to n is a sequence.
LEMMA Listed ==
    ASSUME NEW n \in Nat, NEW s \in [1..n -> Byte]
    PROVE  s \in Seq(Byte) /\ Len(s) = n
OBVIOUS

\* A message in which one byte was changed.
IsChanged(q, g, i, b) ==
    /\ q \in Seq(Byte) /\ Len(q) = Len(g) /\ q[i] = b
    /\ \A k \in 1..Len(g) : k # i => q[k] = g[k]

\* Only that byte differs.
LEMMA ChangedIs ==
    ASSUME NEW g \in Seq(Byte), NEW i \in 1..Len(g), NEW b \in Byte
    PROVE  IsChanged([g EXCEPT ![i] = b], g, i, b)
<1> DEFINE n == Len(g)
           q == [g EXCEPT ![i] = b]
<1>1. n \in Nat /\ g \in [1..n -> Byte]
  BY LenProperties, Zenon
<1>2. q \in [1..n -> Byte] /\ q[i] = b /\ \A k \in 1..n : k # i => q[k] = g[k]
  <2> DEFINE D == 1..n
  <2>1. g \in [D -> Byte] /\ i \in D
    BY <1>1, Zenon
  <2> HIDE DEF D
  <2>2. q \in [D -> Byte] /\ q[i] = b /\ \A k \in D : k # i => q[k] = g[k]
    BY <2>1, SMTT(60)
  <2> QED
    BY <2>2, Zenon DEF D
<1> HIDE DEF q, n
<1>3. q \in Seq(Byte) /\ Len(q) = n
  BY <1>1, <1>2, Listed, Zenon
<1> QED
  BY <1>2, <1>3, Zenon DEF IsChanged, q, n

\* The checksum is over bytes.
LEMMA CoveredIs ==
    ASSUME NEW n \in Nat, NEW c \in [1..n -> Byte], NEW len \in Nat, len <= n
    PROVE  LET s == SubSeq(c, 1, len) IN
           /\ s \in Seq(Byte) /\ Len(s) = len /\ calcrc(s) \in Register
           /\ \A k \in 1..len : s[k] = c[k]
<1> DEFINE s == SubSeq(c, 1, len)
<1>1. \A k \in 1..len : c[k] \in Byte
  <2>1. \A k \in 1..len : k \in 1..n
    BY Inside, Zenon
  <2> QED
    BY <2>1, Zenon
<1>2. s \in Seq(Byte) /\ Len(s) = len /\ \A k \in 1..len : s[k] = c[k]
  BY <1>1, Prefix, Zenon
<1> HIDE DEF s
<1>3. calcrc(s) \in Register
  BY <1>2, CalcrcRegister, ZenonT(60)
<1> QED
  BY <1>2, <1>3, Zenon DEF s

\* A packet that the device accepts, and whose checksum covers no more than the
\* packet.
Valid(g, len) ==
    /\ g \in Seq(Byte) /\ Len(g) = 64 /\ g[1] = FMR_MAGIC_NUMBER
    /\ Get16(g, 4) = len /\ len \in Nat /\ len <= 64
    /\ CrcBytes(Checksum(g)) = <<g[2], g[3]>>

\* It is accepted (fmr_perform, lib/fmr.c).
LEMMA ValidIsAccepted ==
    ASSUME NEW g, NEW len, Valid(g, len)
    PROVE  Accepts(g) = {TRUE}
<1>1. len \in Nat /\ len <= 64
  BY Zenon DEF Valid
<1>2. ~(len > 64)
  BY <1>1
<1> QED
  BY <1>2, Zenon DEF Valid, Accepts, FMR_PACKET_SIZE

\* The device refuses a packet in which one byte that the checksum covers, or
\* the checksum, or the number at the beginning, was changed.
LEMMA DamageIsRefused ==
    ASSUME NEW g, NEW len, Valid(g, len), NEW i \in 1..64, i \in {1, 2, 3} \/ i \in 6..len,
           NEW b \in Byte, b # g[i]
    PROVE  Accepts([g EXCEPT ![i] = b]) = {FALSE}
<1> DEFINE q == [g EXCEPT ![i] = b]
<1>1. /\ g \in Seq(Byte) /\ Len(g) = 64 /\ g[1] = FMR_MAGIC_NUMBER
      /\ Get16(g, 4) = len /\ len \in Nat /\ len <= 64
      /\ CrcBytes(Checksum(g)) = <<g[2], g[3]>>
  BY Zenon DEF Valid
<1>2. q \in Seq(Byte) /\ Len(q) = 64 /\ q[i] = b /\ \A k \in 1..64 : k # i => q[k] = g[k]
  <2>3. Len(g) = 64
    BY <1>1, Zenon
  <2>1. i \in 1..Len(g)
    BY <2>3, Zenon
  <2>2. /\ q \in Seq(Byte) /\ Len(q) = Len(g) /\ q[i] = b
        /\ \A k \in 1..Len(g) : k # i => q[k] = g[k]
    <3>1. g \in Seq(Byte)
      BY <1>1, Zenon
    <3>2. IsChanged(q, g, i, b)
      BY <2>1, <3>1, ChangedIs, ZenonT(60)
    <3> QED
      BY <3>2, Zenon DEF IsChanged
  <2> HIDE DEF q
  <2> QED
    BY <1>1, <2>2, ZenonT(60)
<1> HIDE DEF q
<1>3. /\ 1 \in 1..64 /\ 2 \in 1..64 /\ 3 \in 1..64 /\ 4 \in 1..64 /\ 5 \in 1..64
      /\ i # 4 /\ i # 5
      /\ i \in 6..len => i # 1 /\ i # 2 /\ i # 3 /\ i \in 1..len
  BY <1>1
<1>4. CASE i = 1
  <2>1. q[1] # FMR_MAGIC_NUMBER
    BY <1>1, <1>2, <1>4, ZenonT(60)
  <2> QED
    BY <2>1, Zenon DEF Accepts, q
<1>5. CASE i # 1
  <2>1. q[1] = FMR_MAGIC_NUMBER /\ q[4] = g[4] /\ q[5] = g[5]
    BY <1>1, <1>2, <1>3, <1>5, ZenonT(60)
  <2>2. Get16(q, 4) = len
    <3>1. 4 + 1 = 5
      OBVIOUS
    <3> QED
      BY <1>1, <2>1, <3>1, ZenonT(60) DEF Get16
  <2>3. ~(len > 64)
    <3>1. len \in Nat /\ len <= 64
      BY <1>1, Zenon
    <3> QED
      BY <3>1
  <2>4. Accepts(q) = {CrcBytes(Checksum(q)) = <<q[2], q[3]>>}
    BY <2>1, <2>2, <2>3, ZenonT(60) DEF Accepts, FMR_PACKET_SIZE
  <2> DEFINE cg == Cleared(g)
             cq == Cleared(q)
             sg == SubSeq(cg, 1, len)
             sq == SubSeq(cq, 1, len)
  <2>5. /\ cg \in [1..64 -> Byte] /\ cg[2] = 0 /\ cg[3] = 0
        /\ \A k \in 1..64 : k # 2 /\ k # 3 => cg[k] = g[k]
    BY <1>1, ClearedIs, Zenon
  <2>6. /\ cq \in [1..64 -> Byte] /\ cq[2] = 0 /\ cq[3] = 0
        /\ \A k \in 1..64 : k # 2 /\ k # 3 => cq[k] = q[k]
    BY <1>2, ClearedIs, Zenon
  <2>7. Checksum(g) = calcrc(sg) /\ Checksum(q) = calcrc(sq)
    BY <1>1, <2>2, Zenon DEF Checksum, Cleared
  <2> HIDE DEF cg, cq
  <2>8. CrcBytes(Checksum(q)) # <<q[2], q[3]>>
    <3>1. CASE i = 2 \/ i = 3
      <4>1. ASSUME NEW k \in 1..64 PROVE cq[k] = cg[k]
        <5>1. CASE k = 2 \/ k = 3
          BY <2>5, <2>6, <5>1, Zenon
        <5>2. CASE k # 2 /\ k # 3
          <6>1. k # i
            BY <3>1, <5>2, Zenon
          <6>2. cq[k] = q[k] /\ cg[k] = g[k] /\ q[k] = g[k]
            BY <1>2, <2>5, <2>6, <5>2, <6>1, ZenonT(60)
          <6> QED
            BY <6>2, Zenon
        <5> QED
          BY <5>1, <5>2, Zenon
      <4>2. cq = cg
        <5>1. cq = [k \in 1..64 |-> cq[k]] /\ cg = [k \in 1..64 |-> cg[k]]
          BY <2>5, <2>6, Zenon
        <5> QED
          BY <4>1, <5>1, Zenon
      <4>3. CrcBytes(Checksum(q)) = <<g[2], g[3]>>
        BY <1>1, <2>7, <4>2, ZenonT(60)
      <4>4. q[2] # g[2] \/ q[3] # g[3]
        BY <1>2, <3>1, Zenon
      <4> DEFINE v == g[2]
                 w == g[3]
                 x == q[2]
                 y == q[3]
      <4>5. x # v \/ y # w
        BY <4>4, Zenon
      <4> HIDE DEF v, w, x, y
      <4>6. <<v, w>> # <<x, y>>
        BY <4>5
      <4> QED
        BY <4>3, <4>6, Zenon DEF v, w, x, y
    <3>2. CASE i # 2 /\ i # 3
      <4>1. i \in 6..len /\ i \in 1..len
        BY <1>3, <1>5, <3>2, Zenon
      <4>2. 64 \in Nat
        OBVIOUS
      <4>3. /\ sg \in Seq(Byte) /\ Len(sg) = len /\ calcrc(sg) \in Register
            /\ \A k \in 1..len : sg[k] = cg[k]
        BY <1>1, <2>5, <4>2, CoveredIs, ZenonT(60)
      <4>4. /\ sq \in Seq(Byte) /\ Len(sq) = len /\ calcrc(sq) \in Register
            /\ \A k \in 1..len : sq[k] = cq[k]
        BY <1>1, <2>6, <4>2, CoveredIs, Zenon
      <4> HIDE DEF sg, sq
      <4>5. sg[i] # sq[i]
        <5>1. cg[i] = g[i] /\ cq[i] = q[i] /\ q[i] = b
          BY <1>2, <2>5, <2>6, <3>2, Zenon
        <5>2. sg[i] = cg[i] /\ sq[i] = cq[i]
          BY <4>1, <4>3, <4>4, Zenon
        <5> QED
          BY <5>1, <5>2, ZenonT(60)
      <4>6. ASSUME NEW k \in 1..len, k # i PROVE sg[k] = sq[k]
        <5>1. k \in 1..64
          BY <1>1
        <5>2. cg[k] = cq[k]
          <6>1. CASE k = 2 \/ k = 3
            BY <2>5, <2>6, <6>1, Zenon
          <6>2. CASE k # 2 /\ k # 3
            <7>1. cq[k] = q[k] /\ cg[k] = g[k] /\ q[k] = g[k]
              BY <1>2, <2>5, <2>6, <4>6, <5>1, <6>2, ZenonT(60)
            <7> QED
              BY <7>1, Zenon
          <6> QED
            BY <6>1, <6>2, Zenon
        <5>3. sg[k] = cg[k] /\ sq[k] = cq[k]
          BY <4>3, <4>4, Zenon
        <5> QED
          BY <5>2, <5>3, Zenon
      <4>7. calcrc(sg) # calcrc(sq)
        <5>1. i \in 1..Len(sg) /\ Len(sq) = Len(sg)
          BY <4>1, <4>3, <4>4, ZenonT(60)
        <5>2. \A k \in 1..Len(sg) : k # i => sg[k] = sq[k]
          BY <4>3, <4>6, Zenon
        <5> QED
          BY <4>3, <4>4, <4>5, <5>1, <5>2, ChecksumFindsDamage, ZenonT(60)
      <4>8. CrcBytes(calcrc(sg)) # CrcBytes(calcrc(sq))
        BY <4>3, <4>4, <4>7, CrcBytesInjective, ZenonT(60)
      <4>9. q[2] = g[2] /\ q[3] = g[3]
        BY <1>2, <1>3, <3>2, Zenon
      <4> QED
        BY <1>1, <2>7, <4>8, <4>9, Zenon
    <3> QED
      BY <3>1, <3>2, Zenon
  <2> QED
    BY <2>4, <2>8, ZenonT(60) DEF q
<1> QED
  BY <1>4, <1>5, ZenonT(60) DEF q

\* A nonempty set of numbers has a least one: the argument at which
\* lf_create_call stops.
LEMMA Least ==
    ASSUME NEW S \in SUBSET Nat, S # {}
    PROVE  \E i \in S : \A j \in S : i <= j
<1> DEFINE R == OpToRel(<, Nat)
<1>1. IsWellFoundedOn(R, Nat)
  BY NatLessThanWellFounded, Zenon
<1>2. \A x, y \in Nat : x < y => <<x, y>> \in R
  BY DEF OpToRel
<1> HIDE DEF R
<1>3. PICK x \in S : \A y \in S : ~ (<<y, x>> \in R)
  BY <1>1, WFMin, Zenon
<1>4. \A y \in S : y \in Nat
  BY Zenon
<1>5. ASSUME NEW y \in S PROVE x <= y
  <2>1. x \in Nat /\ y \in Nat
    BY <1>3, <1>4, Zenon
  <2>2. ~(y < x)
    BY <1>2, <1>3, <2>1, Zenon
  <2> QED
    BY <2>1, <2>2
<1> QED
  BY <1>5, Zenon

\* The call that lf_invoke sends although it does not fit is one of bytes, and
\* does not reach beyond the packet.
LEMMA PartBodyIs ==
    ASSUME NEW c \in Call, NEW args \in Seq(Argument), Len(args) \in Byte, NEW i \in 1..Len(args)
    PROVE  PartBody(c, args, i) \in Seq(Byte) /\ Len(PartBody(c, args, i)) = 58
<1> DEFINE n == Len(args)
           fields == <<c.module, 0, c.ret, n>>
           s == Filled(fields, args)[i - 1]
<1>1. c.module \in Byte /\ c.ret \in Byte
  BY SMTT(60) DEF Call
<1>2. n \in Byte /\ i - 1 \in 0..n
  OBVIOUS
<1>3. fields \in Seq(Byte) /\ Len(fields) = 4
  <2> HIDE DEF n
  <2> QED
    BY <1>1, <1>2 DEF Byte
<1>4. PartBody(c, args, i) = WriteType(s, args, i)
  BY Zenon DEF PartBody
<1> HIDE DEF fields
<1>5. s \in Block
  BY <1>2, <1>3, FilledIs, ZenonT(60)
<1> HIDE DEF s
<1>6. WriteType(s, args, i) \in Block
  BY <1>5, WriteIs, Zenon
<1> QED
  BY <1>4, <1>6, BlockIs, Zenon
-----------------------------------------------------------------------------
(***************************************************************************)
(* A call by index, from the caller to the function.                       *)
(***************************************************************************)
\* The packet that lf_invoke_by_index sends.
Good(c) == Sealed(Body(c, Passed(c)), IndexLength(Passed(c)))

\* A packet that holds the call, as far as fmr_rpc reads it.
Holds(p, c) == p[6] = 0 /\ Carries(p, c, Passed(c))

\* What lf_invoke_by_index sends holds the call, and where the length does not
\* exceed the packet it is accepted.
LEMMA GoodIs ==
    ASSUME NEW c \in Call, Fits(Passed(c))
    PROVE  /\ Passed(c) \in Seq(Argument)
           /\ Good(c) \in Seq(Byte) /\ Len(Good(c)) = 64 /\ Holds(Good(c), c)
           /\ IndexLength(Passed(c)) \in Nat /\ IndexLength(Passed(c)) >= 26 + Size(Passed(c))
           /\ Checked(c) => Valid(Good(c), IndexLength(Passed(c)))
<1> DEFINE args == Passed(c)
           n == Len(args)
           z == Size(args)
           len == IndexLength(args)
           b == Body(c, args)
           g == Good(c)
<1>1. args \in Seq(Argument)
  BY DEF Passed, Call
<1>2. n \in 0..54 /\ z \in 0..38
  BY <1>1, FitsIs, Zenon
<1>3. len = 26 + n + z
  <2>1. HeaderSize + CallSize = 26
    BY DEF HeaderSize, CallSize, FMR_MAX_ARGC
  <2> QED
    BY <2>1, Zenon DEF IndexLength
<1>4. b \in Seq(Byte) /\ Len(b) = 58
  BY <1>1, BodyIs, Zenon
<1> HIDE DEF b, len, n, z
<1>5. len \in Nat /\ len >= 26 + z /\ len \in Byte
  BY <1>2, <1>3 DEF Byte
<1>6. 58 \in 0..58 /\ \A k \in 1..20+z : k \in 1..58
  BY <1>2
<1>7. IsSealed(g, b, len)
  <2>1. Len(b) \in 0..58
    BY <1>4, <1>6, Zenon
  <2>2. IsSealed(Sealed(b, len), b, len)
    BY <1>4, <1>5, <2>1, SealedIs, ZenonT(60)
  <2> QED
    BY <2>2, Zenon DEF Good, b, len
<1> HIDE DEF g
<1>8. g \in Seq(Byte) /\ Len(g) = 64
  BY <1>7, Zenon DEF IsSealed
<1>9. Holds(g, c)
  <2>1. g[6] = 0 /\ \A k \in 1..Len(b) : g[6 + k] = b[k]
    BY <1>7, Zenon DEF IsSealed
  <2>2. \A k \in 1..20+z : g[6 + k] = b[k]
    BY <1>4, <1>6, <2>1, Zenon
  <2> QED
    BY <2>1, <2>2, Zenon DEF Holds, Carries, b, z
<1>10. ASSUME Checked(c) PROVE Valid(g, len)
  <2>1. len <= 64
    BY <1>10, Zenon DEF Checked, len, FMR_PACKET_SIZE
  <2> QED
    BY <1>5, <1>7, <2>1, Zenon DEF IsSealed, Valid
<1> QED
  BY <1>1, <1>5, <1>8, <1>9, <1>10, ZenonT(60) DEF g, len, z

\* Whichever byte was changed, the device refuses the packet or it still holds
\* the call.
LEMMA DamagedIs ==
    ASSUME NEW c \in Call, Fits(Passed(c)), Checked(c), NEW i \in 1..64, NEW b \in Byte,
           b # Good(c)[i]
    PROVE  \/ Accepts([Good(c) EXCEPT ![i] = b]) = {FALSE}
           \/ Holds([Good(c) EXCEPT ![i] = b], c)
<1> DEFINE g == Good(c)
           q == [g EXCEPT ![i] = b]
           len == IndexLength(Passed(c))
           z == Size(Passed(c))
           body == Body(c, Passed(c))
<1>1. Valid(g, len) /\ len \in Nat /\ len >= 26 + z /\ Holds(g, c) /\ g \in Seq(Byte)
  BY GoodIs, ZenonT(60)
<1>2. z \in 0..38
  BY GoodIs, FitsIs, Zenon
<1>3. CASE i \in {1, 2, 3} \/ i \in 6..len
  BY <1>1, <1>3, DamageIsRefused, Zenon
<1>4. CASE ~(i \in {1, 2, 3} \/ i \in 6..len)
  <2>1. IsChanged(q, g, i, b) /\ Len(g) = 64
    <3>1. Len(g) = 64
      BY GoodIs, ZenonT(60)
    <3>2. i \in 1..Len(g)
      BY <3>1, Zenon
    <3>3. g \in Seq(Byte)
      BY <1>1, Zenon
    <3> HIDE DEF g
    <3> QED
      BY <3>1, <3>2, <3>3, ChangedIs, ZenonT(60)
  <2> HIDE DEF g, len, z, q
  <2>2. \A k \in 1..64 : k # i => q[k] = g[k]
    BY <2>1, Zenon DEF IsChanged
  <2>3. 6 \in 1..64 /\ i # 6 /\ \A k \in 1..20+z : 6 + k \in 1..64 /\ 6 + k # i
    BY <1>1, <1>2, <1>4
  <2>4. g[6] = 0 /\ \A k \in 1..20+z : g[6 + k] = body[k]
    BY <1>1, Zenon DEF Holds, Carries, z
  <2> HIDE DEF body
  <2>5. q[6] = 0
    BY <2>2, <2>3, <2>4, Zenon
  <2>6. ASSUME NEW k \in 1..20+z PROVE q[6 + k] = body[k]
    <3>1. q[6 + k] = g[6 + k] /\ g[6 + k] = body[k]
      BY <2>2, <2>3, <2>4, Zenon
    <3> QED
      BY <3>1, Zenon
  <2>7. Holds(q, c)
    BY <2>5, <2>6, Zenon DEF Holds, Carries, z, body
  <2> QED
    BY <2>7, Zenon DEF q, g
<1> QED
  BY <1>3, <1>4, Zenon

\* What fmr_rpc does to a packet, and to one that holds the call.
LEMMA RpcIs ==
    ASSUME NEW p, NEW o \in fmr_rpc(p)
    PROVE  /\ o.kind = "failed" \/ o.kind = "performed"
           /\ o.kind = "performed" =>
                 /\ o.function = p[8] /\ o.value = Apply(o.function, o.args)
                 /\ \E u : o.args = Arguments(p, u)
<1> DEFINE done(u) == [kind |-> "performed", function |-> p[8], args |-> Arguments(p, u),
                       value |-> Apply(p[8], Arguments(p, u))]
           fail == [NotYet EXCEPT !.kind = "failed"]
<1>1. o = fail \/ \E u : o = done(u)
  BY Zenon DEF fmr_rpc
<1>2. fail.kind = "failed"
  BY DEF NotYet
<1>3. CASE o = fail
  <2> HIDE DEF fail
  <2>1. o.kind = "failed" /\ "failed" # "performed"
    BY <1>2, <1>3
  <2> QED
    BY <2>1, Zenon
<1>4. ASSUME NEW u, o = done(u)
      PROVE  /\ o.kind = "performed" /\ o.function = p[8]
             /\ o.args = Arguments(p, u) /\ o.value = Apply(p[8], Arguments(p, u))
  BY <1>4, Zenon
<1> HIDE DEF done
<1> QED
  BY <1>1, <1>3, <1>4, ZenonT(60)

\* The function and the number of arguments, and where there is room for the
\* types the arguments, are those of the call that the packet holds.
LEMMA RpcPerforms ==
    ASSUME NEW c \in Call, Fits(Passed(c)), NEW p, Holds(p, c), NEW o \in fmr_rpc(p),
           o.kind = "performed"
    PROVE  /\ o.function = c.function /\ Len(o.args) = Len(Passed(c))
           /\ Len(Passed(c)) <= 16 => o.args = Seen(Passed(c))
<1>1. Passed(c) \in Seq(Argument)
  BY GoodIs, Zenon
<1>2. Carries(p, c, Passed(c))
  BY Zenon DEF Holds
<1>0. \E u : o.args = Arguments(p, u)
  BY RpcIs, Zenon
<1>3. PICK u : o.args = Arguments(p, u)
  BY <1>0, Zenon
<1>6. o.function = p[8]
  BY RpcIs, Zenon
<1>4. p[8] = c.function /\ Len(Arguments(p, u)) = Len(Passed(c))
  <2> DEFINE args == Passed(c)
  <2>1. args \in Seq(Argument) /\ Fits(args) /\ Carries(p, c, args)
    BY <1>1, <1>2, Zenon
  <2> HIDE DEF args
  <2>3. p[8] = c.function
    BY <2>1, ReadsHead, ZenonT(60)
  <2>4. Len(Arguments(p, u)) = Len(args)
    BY <2>1, ReadsHead, SMTT(60)
  <2>2. p[8] = c.function /\ Len(Arguments(p, u)) = Len(args)
    BY <2>3, <2>4, ZenonT(60)
  <2> QED
    BY <2>2, Zenon DEF args
<1>5. ASSUME Len(Passed(c)) <= 16 PROVE Arguments(p, u) = Seen(Passed(c))
  BY <1>1, <1>2, <1>5, ReadsCall, Zenon
<1> QED
  BY <1>3, <1>4, <1>5, <1>6, Zenon

\* The inductive invariant.  A call by index that is on its way is the packet
\* that was built, or that packet with one byte changed; there is an outcome
\* only after the device answered, and it is what the function returns for the
\* arguments that it saw.
Bytes == packet \in Seq(Byte) /\ Len(packet) = 64
Transit ==
    stage = "built" /\ call.op = "index" =>
        /\ Fits(Passed(call))
        /\ \/ ~damaged /\ packet = Good(call)
           \/ damaged /\ \E i \in 1..64 : \E b \in Byte :
                  b # Good(call)[i] /\ packet = [Good(call) EXCEPT ![i] = b]
Answer ==
    /\ stage # "answered" => outcome = NotYet
    /\ outcome.kind = "performed" => outcome.value = Apply(outcome.function, outcome.args)
PacketInv ==
    call \in Calls /\ Bytes /\ Transit /\ Answer /\ CallArrivesIntact /\ IntactIsAccepted

\* The kinds of an outcome.
LEMMA Kinds ==
    /\ NotYet.kind = "none"
    /\ [NotYet EXCEPT !.kind = "notSent"].kind = "notSent"
    /\ [NotYet EXCEPT !.kind = "failed"].kind = "failed"
    /\ [NotYet EXCEPT !.kind = "other"].kind = "other"
    /\ [NotYet EXCEPT !.kind = "refused"].kind = "refused"
BY DEF NotYet

\* Without an answer there is nothing to say about it.
LEMMA NoAnswer ==
    ASSUME outcome.kind \in {"none", "notSent"}
    PROVE  /\ outcome.kind = "performed" => outcome.value = Apply(outcome.function, outcome.args)
           /\ CallArrivesIntact /\ IntactIsAccepted
<1>1. outcome.kind # "performed" /\ outcome.kind # "other" /\ outcome.kind # "refused"
  OBVIOUS
<1> QED
  BY <1>1, Zenon DEF CallArrivesIntact, IntactIsAccepted

\* The invariant holds at the beginning.
LEMMA InitHolds == Init => PacketInv
<1> SUFFICES ASSUME Init PROVE PacketInv
  OBVIOUS
<1>1. stage = "idle" /\ call \in Calls /\ packet = Zeros(64) /\ outcome = NotYet
  BY Zenon DEF Init, FMR_PACKET_SIZE
<1>2. Bytes
  <2>1. 64 \in Nat
    OBVIOUS
  <2> QED
    BY <1>1, <2>1, ZerosIs, Zenon DEF Bytes
<1>3. stage # "built" /\ outcome.kind = "none"
  BY <1>1, Kinds
<1>4. Transit
  BY <1>3, Zenon DEF Transit
<1>5. outcome.kind \in {"none", "notSent"}
  BY <1>3, Zenon
<1>6. /\ outcome.kind = "performed" => outcome.value = Apply(outcome.function, outcome.args)
      /\ CallArrivesIntact /\ IntactIsAccepted
  BY <1>5, NoAnswer, Zenon
<1> QED
  BY <1>1, <1>2, <1>4, <1>6, ZenonT(60) DEF PacketInv, Answer

\* lf_invoke sends bytes.
LEMMA InvokeSends ==
    ASSUME Bytes, NEW c \in Calls, Invoke(c)
    PROVE  Bytes' /\ c.op # "index"
<1> DEFINE args == Passed(c)
           n == Len(args)
           over == {i \in DOMAIN args : Refuses(args, i)}
           first == CHOOSE i \in over : \A j \in over : i <= j
<1>0. c \in Call /\ Len(c.args) \in Byte
  BY CallsAssumption, Zenon
<1>1. args \in Seq(Argument) /\ n \in Byte
  <2>1. c.args \in Seq(Argument)
    BY <1>0 DEF Call
  <2>2. <<>> \in Seq(Argument) /\ Len(<<>>) \in Byte
    BY DEF Byte
  <2> QED
    BY <1>0, <2>1, <2>2, ZenonT(60) DEF Passed
<1>2. DOMAIN args = 1..n /\ n \in Nat
  BY <1>1, LenProperties, Zenon
<1>3. c.op # "index"
  <2>1. c.op = "invoke"
    BY Zenon DEF Invoke
  <2> QED
    BY <2>1
<1>4. CASE packet' = packet
  BY <1>3, <1>4, Zenon DEF Bytes
<1>5. CASE packet' # packet
  <2>1. over # {} /\ packet' = Sealed(PartBody(c, args, first), 6)
    BY <1>5, Zenon DEF Invoke, HeaderSize
  <2>2. over \in SUBSET Nat
    <3>1. \A i \in 1..n : i \in Nat
      OBVIOUS
    <3>2. \A i \in over : i \in 1..n
      BY <1>2, Zenon
    <3> HIDE DEF over
    <3> QED
      BY <3>1, <3>2, Zenon
  <2>3. first \in over /\ \A j \in over : first <= j
    <3> HIDE DEF over
    <3>1. \E i \in over : \A j \in over : i <= j
      BY <2>1, <2>2, Least, ZenonT(60)
    <3> QED
      BY <3>1, Zenon
  <2> HIDE DEF first
  <2>4. first \in 1..n
    BY <1>2, <2>3, Zenon
  <2> DEFINE b == PartBody(c, args, first)
  <2>7. b \in Seq(Byte) /\ Len(b) \in 0..58
    <3>1. b \in Seq(Byte) /\ Len(b) = 58
      BY <1>0, <1>1, <2>4, PartBodyIs, ZenonT(60)
    <3>2. 58 \in 0..58
      OBVIOUS
    <3> QED
      BY <3>1, <3>2, Zenon
  <2> HIDE DEF b
  <2>8. 6 \in Byte
    BY DEF Byte
  <2>9. IsSealed(Sealed(b, 6), b, 6)
    BY <2>7, <2>8, SealedIs, Zenon
  <2>10. packet' = Sealed(b, 6)
    BY <2>1, Zenon DEF b
  <2>11. packet' \in Seq(Byte) /\ Len(packet') = 64
    BY <2>9, <2>10, Zenon DEF IsSealed
  <2> QED
    BY <1>3, <2>11, Zenon DEF Bytes
<1> QED
  BY <1>4, <1>5, Zenon

\* Sending a call keeps the invariant.
LEMMA SendKeeps ==
    ASSUME PacketInv, Send
    PROVE  PacketInv'
<1>1. PICK c \in Calls : call' = c /\ (InvokeByIndex(c) \/ Invoke(c))
  BY Zenon DEF Send
<1>2. c \in Call /\ call' \in Calls
  BY <1>1, CallsAssumption, Zenon
<1>3. damaged' = FALSE
  BY Zenon DEF Send
<1>4. (outcome' = NotYet /\ stage' # "answered") \/ outcome' = [NotYet EXCEPT !.kind = "notSent"]
  <2>1. outcome' = IF stage' = "answered" THEN [NotYet EXCEPT !.kind = "notSent"] ELSE NotYet
    BY Zenon DEF Send
  <2> QED
    BY <2>1, Zenon
<1>5. outcome.kind' \in {"none", "notSent"}
  BY <1>4, Kinds, Zenon
<1>6. /\ (outcome.kind = "performed" => outcome.value = Apply(outcome.function, outcome.args))'
      /\ CallArrivesIntact' /\ IntactIsAccepted'
  <2>1. outcome'.kind # "performed" /\ outcome'.kind # "other" /\ outcome'.kind # "refused"
    BY <1>5
  <2> QED
    BY <2>1, Zenon DEF CallArrivesIntact, IntactIsAccepted
<1>7. Answer'
  <2>1. stage' # "answered" => outcome' = NotYet
    BY Zenon DEF Send
  <2> QED
    BY <1>6, <2>1, Zenon DEF Answer
<1>8. Bytes
  BY Zenon DEF PacketInv
<1>9. CASE InvokeByIndex(c)
  <2>1. CASE Fits(Passed(c))
    <3>1. packet' = Good(c)
      BY <1>9, <2>1, ZenonT(60) DEF InvokeByIndex, Good
    <3>2. Bytes'
      <4>1. Good(c) \in Seq(Byte) /\ Len(Good(c)) = 64
        BY <1>2, <2>1, GoodIs, ZenonT(60)
      <4> QED
        BY <3>1, <4>1, ZenonT(60) DEF Bytes
    <3>3. Transit'
      BY <1>1, <1>3, <2>1, <3>1, ZenonT(60) DEF Transit, Good
    <3> QED
      BY <1>2, <1>6, <1>7, <3>2, <3>3, ZenonT(60) DEF PacketInv
  <2>2. CASE ~Fits(Passed(c))
    <3>1. stage' = "overrun" /\ packet' = packet
      BY <1>9, <2>2, Zenon DEF InvokeByIndex
    <3>2. stage' # "built"
      BY <3>1
    <3>3. Bytes' /\ Transit'
      BY <1>8, <3>1, <3>2, ZenonT(60) DEF Bytes, Transit
    <3> QED
      BY <1>2, <1>6, <1>7, <3>3, ZenonT(60) DEF PacketInv
  <2> QED
    BY <2>1, <2>2, ZenonT(60)
<1>10. CASE Invoke(c)
  <2>1. Bytes' /\ c.op # "index"
    BY <1>8, <1>10, InvokeSends, ZenonT(60)
  <2>2. Transit'
    BY <1>1, <2>1, Zenon DEF Transit
  <2> QED
    BY <1>2, <1>6, <1>7, <2>1, <2>2, ZenonT(60) DEF PacketInv
<1> QED
  BY <1>1, <1>9, <1>10, Zenon

\* Damage to a byte keeps the invariant.
LEMMA DamageKeeps ==
    ASSUME PacketInv, Damage
    PROVE  PacketInv'
<1>1. /\ stage = "built" /\ ~damaged /\ damaged' = TRUE
      /\ stage' = stage /\ call' = call /\ outcome' = outcome
  BY Zenon DEF Damage
<1>2. PICK i \in 1..64, m \in Masks : packet' = [packet EXCEPT ![i] = Flipped(packet[i], m)]
  BY Zenon DEF Damage, FMR_PACKET_SIZE
<1>3. m \in SUBSET (0..7) /\ m # {}
  <2>1. Masks \subseteq (SUBSET (0..7)) \ {{}}
    BY CallsAssumption, Zenon
  <2>2. m \in (SUBSET (0..7)) \ {{}}
    BY <1>2, <2>1, Zenon
  <2> QED
    BY <2>2, Zenon
<1>4. packet \in Seq(Byte) /\ Len(packet) = 64
  BY Zenon DEF PacketInv, Bytes
<1>5. i \in 1..Len(packet)
  BY <1>2, <1>4, ZenonT(60)
<1>6. packet[i] \in Byte
  <2>1. packet \in [1..Len(packet) -> Byte]
    BY <1>4, LenProperties, ZenonT(60)
  <2> QED
    BY <1>5, <2>1, ZenonT(60)
<1> DEFINE b == Flipped(packet[i], m)
<1>7. b \in Byte /\ b # packet[i]
  BY <1>3, <1>6, FlippedIs, ZenonT(60)
<1> HIDE DEF b
<1>8. packet' = [packet EXCEPT ![i] = b]
  BY <1>2, Zenon DEF b
<1>9. Bytes'
  <2>1. IsChanged([packet EXCEPT ![i] = b], packet, i, b)
    BY <1>4, <1>5, <1>7, ChangedIs, ZenonT(60)
  <2>2. packet' \in Seq(Byte) /\ Len(packet') = Len(packet)
    BY <1>8, <2>1, ZenonT(60) DEF IsChanged
  <2> QED
    BY <1>4, <2>2, ZenonT(60) DEF Bytes
<1>10. Transit'
  <2>1. ASSUME call.op = "index"
        PROVE  /\ Fits(Passed(call))
               /\ \E j \in 1..64 : \E d \in Byte :
                     d # Good(call)[j] /\ packet' = [Good(call) EXCEPT ![j] = d]
    <3>1. Fits(Passed(call)) /\ packet = Good(call)
      BY <1>1, <2>1, ZenonT(60) DEF PacketInv, Transit
    <3> QED
      BY <1>2, <1>7, <1>8, <3>1, ZenonT(60)
  <2> QED
    BY <1>1, <2>1, ZenonT(60) DEF Transit, Good
<1>11. outcome = NotYet
  <2>1. stage # "answered"
    BY <1>1
  <2> QED
    BY <2>1, Zenon DEF PacketInv, Answer
<1>12. outcome'.kind # "performed" /\ outcome'.kind # "other" /\ outcome'.kind # "refused"
  <2>1. outcome'.kind = "none"
    BY <1>1, <1>11, Kinds, Zenon
  <2> QED
    BY <2>1
<1>13. CallArrivesIntact' /\ IntactIsAccepted' /\ Answer'
  BY <1>1, <1>11, <1>12, ZenonT(60) DEF CallArrivesIntact, IntactIsAccepted, Answer
<1> QED
  BY <1>1, <1>9, <1>10, <1>13, ZenonT(60) DEF PacketInv

\* The device's answer keeps the invariant.
LEMMA PerformKeeps ==
    ASSUME PacketInv, Perform
    PROVE  PacketInv'
<1>1. /\ stage = "built" /\ stage' = "answered"
      /\ call' = call /\ packet' = packet /\ damaged' = damaged
  BY Zenon DEF Perform
<1>2. call \in Calls /\ call \in Call
  BY CallsAssumption, Zenon DEF PacketInv
<1>3. stage' # "built"
  BY <1>1
<1>4. Bytes' /\ Transit'
  BY <1>1, <1>3, Zenon DEF PacketInv, Bytes, Transit
<1>5. PICK accepted \in Accepts(packet) :
        IF accepted
        THEN IF packet[6] = 0 THEN outcome' \in fmr_rpc(packet)
                              ELSE outcome' = [NotYet EXCEPT !.kind = "other"]
        ELSE outcome' = [NotYet EXCEPT !.kind = "refused"]
  BY Zenon DEF Perform
<1>6. \/ accepted /\ packet[6] = 0 /\ outcome' \in fmr_rpc(packet)
      \/ accepted /\ packet[6] # 0 /\ outcome'.kind = "other"
      \/ ~accepted /\ outcome'.kind = "refused"
  BY <1>5, Kinds, Zenon
<1>7. /\ "other" # "performed" /\ "refused" # "performed" /\ "refused" # "other"
      /\ "failed" # "performed" /\ "failed" # "other" /\ "failed" # "refused"
  OBVIOUS
<1>8. Answer'
  <2>1. outcome'.kind = "performed" => outcome'.value = Apply(outcome'.function, outcome'.args)
    BY <1>6, <1>7, RpcIs, Zenon
  <2> QED
    BY <1>1, <2>1, Zenon DEF Answer
<1>9. ASSUME call.op = "index", ~damaged \/ Checked(call), accepted
      PROVE  Fits(Passed(call)) /\ Holds(packet, call)
  <2>1. Fits(Passed(call))
    BY <1>1, <1>9, Zenon DEF PacketInv, Transit
  <2>2. CASE ~damaged
    <3>1. packet = Good(call)
      BY <1>1, <1>9, <2>2, ZenonT(60) DEF PacketInv, Transit
    <3>2. Holds(Good(call), call)
      BY <1>2, <2>1, GoodIs, ZenonT(60)
    <3> QED
      BY <2>1, <3>1, <3>2, Zenon
  <2>3. CASE damaged
    <3>1. PICK i \in 1..64, b \in Byte :
             b # Good(call)[i] /\ packet = [Good(call) EXCEPT ![i] = b]
      BY <1>1, <1>9, <2>3, Zenon DEF PacketInv, Transit
    <3>2. Accepts(packet) = {FALSE} \/ Holds(packet, call)
      BY <1>2, <1>9, <2>1, <2>3, <3>1, DamagedIs, ZenonT(60)
    <3>3. Accepts(packet) # {FALSE}
      BY <1>5, <1>9, Zenon
    <3> QED
      BY <2>1, <3>2, <3>3, ZenonT(60)
  <2> QED
    BY <2>2, <2>3, Zenon
<1>10. CallArrivesIntact'
  <2> SUFFICES ASSUME outcome'.kind = "performed" \/ outcome'.kind = "other",
                      call.op = "index", ~damaged \/ Checked(call)
               PROVE  /\ outcome'.kind = "performed" /\ outcome'.function = call.function
                      /\ Len(outcome'.args) = Len(Passed(call))
                      /\ Len(Passed(call)) <= 16 => outcome'.args = Seen(Passed(call))
    <3>1. Checked(call) => call.op = "index"
      BY Zenon DEF Checked
    <3> QED
      BY <1>1, <3>1, ZenonT(60) DEF CallArrivesIntact, FMR_MAX_ARGC
  <2>1. accepted
    BY <1>6, <1>7, Zenon
  <2>2. Fits(Passed(call)) /\ Holds(packet, call)
    BY <1>9, <2>1, ZenonT(60)
  <2>3. packet[6] = 0
    BY <2>2, Zenon DEF Holds
  <2>4. outcome' \in fmr_rpc(packet)
    BY <1>6, <2>1, <2>3, ZenonT(60)
  <2>5. outcome'.kind = "performed"
    BY <1>7, <2>4, RpcIs, ZenonT(60)
  <2> QED
    BY <1>2, <2>2, <2>4, <2>5, RpcPerforms, ZenonT(60)
<1>11. IntactIsAccepted'
  <2> SUFFICES ASSUME Checked(call), ~damaged PROVE outcome'.kind # "refused"
    BY <1>1, Zenon DEF IntactIsAccepted
  <2>1. call.op = "index"
    BY Zenon DEF Checked
  <2>2. Fits(Passed(call)) /\ packet = Good(call)
    BY <1>1, <2>1, Zenon DEF PacketInv, Transit
  <2>3. Valid(Good(call), IndexLength(Passed(call)))
    BY <1>2, <2>2, GoodIs, ZenonT(60)
  <2>4. Accepts(packet) = {TRUE}
    BY <2>2, <2>3, ValidIsAccepted, ZenonT(60)
  <2>5. accepted
    BY <1>5, <2>4, Zenon
  <2> QED
    BY <1>6, <1>7, <2>5, RpcIs, ZenonT(60)
<1> QED
  BY <1>1, <1>2, <1>4, <1>8, <1>10, <1>11, ZenonT(60) DEF PacketInv

\* The caller's return keeps the invariant.
LEMMA ReturnKeeps ==
    ASSUME PacketInv, Return
    PROVE  PacketInv'
<1>1. /\ stage' = "idle" /\ packet' = Zeros(64) /\ outcome' = NotYet /\ call' = call
      /\ call \in Calls
  BY Zenon DEF Return, PacketInv, FMR_PACKET_SIZE
<1>2. Bytes'
  <2>1. 64 \in Nat
    OBVIOUS
  <2> QED
    BY <1>1, <2>1, ZerosIs, ZenonT(60) DEF Bytes
<1>3. stage' # "built"
  BY <1>1
<1>4. outcome'.kind # "performed" /\ outcome'.kind # "other" /\ outcome'.kind # "refused"
  <2>1. outcome'.kind = "none"
    BY <1>1, Kinds, Zenon
  <2> QED
    BY <2>1
<1>5. CallArrivesIntact' /\ IntactIsAccepted' /\ Answer' /\ Transit'
  BY <1>1, <1>3, <1>4, Zenon DEF CallArrivesIntact, IntactIsAccepted, Answer, Transit
<1> QED
  BY <1>1, <1>2, <1>5, Zenon DEF PacketInv

\* The invariant holds in every reachable state.
THEOREM PacketInvariant == Spec => []PacketInv
<1>1. PacketInv /\ [Next]_vars => PacketInv'
  <2> SUFFICES ASSUME PacketInv, [Next]_vars PROVE PacketInv'
    OBVIOUS
  <2>1. CASE Send
    BY <2>1, SendKeeps, Zenon
  <2>2. CASE Damage
    BY <2>2, DamageKeeps, Zenon
  <2>3. CASE Perform
    BY <2>3, PerformKeeps, Zenon
  <2>4. CASE Return
    BY <2>4, ReturnKeeps, Zenon
  <2>5. CASE UNCHANGED vars
    <3>1. /\ stage' = stage /\ call' = call /\ packet' = packet /\ damaged' = damaged
          /\ outcome' = outcome
      BY <2>5 DEF vars
    <3> QED
      BY <3>1, Zenon DEF PacketInv, Bytes, Transit, Answer, CallArrivesIntact, IntactIsAccepted,
                         Good
  <2> QED
    BY <2>1, <2>2, <2>3, <2>4, <2>5, ZenonT(60) DEF Next
<1> QED
  BY <1>1, InitHolds, PTL DEF Spec

\* A call by index that the device performs is the one that was sent, its
\* arguments included as long as there are no more than FMR_MAX_ARGC, whichever
\* byte was damaged (lf_invoke_by_index, lib/libflipper.c; fmr_perform and
\* fmr_rpc, lib/fmr.c).
THEOREM CallIsIntact == Spec => []CallArrivesIntact
<1>1. PacketInv => CallArrivesIntact
  BY Zenon DEF PacketInv
<1> QED
  BY <1>1, PacketInvariant, PTL

\* The device does not refuse a call by index that was not damaged
\* (fmr_perform, lib/fmr.c).
THEOREM IntactCallIsAccepted == Spec => []IntactIsAccepted
<1>1. PacketInv => IntactIsAccepted
  BY Zenon DEF PacketInv
<1> QED
  BY <1>1, PacketInvariant, PTL

\* The checksum of what is sent is the remainder it should be (calcrc,
\* lib/crc.c).
THEOREM PacketCrcIsRemainder == Spec => []CrcIsRemainder
<1>1. PacketInv => CrcIsRemainder
  <2> SUFFICES ASSUME PacketInv PROVE CrcIsRemainder
    OBVIOUS
  <2> DEFINE m == SubSeq(packet, 1, 12)
  <2>1. packet \in Seq(Byte) /\ Len(packet) = 64
    BY Zenon DEF PacketInv, Bytes
  <2>2. 12 \in Nat /\ \A k \in 1..12 : k \in 1..64
    OBVIOUS
  <2>3. \A k \in 1..12 : packet[k] \in Byte
    <3>1. packet \in [1..Len(packet) -> Byte]
      BY <2>1, LenProperties, Zenon
    <3>2. packet \in [1..64 -> Byte]
      BY <2>1, <3>1, Zenon
    <3> QED
      BY <2>2, <3>2, Zenon
  <2>4. m \in Seq(Byte)
    BY <2>2, <2>3, Prefix, ZenonT(60)
  <2>5. calcrc(m) = Remainder(m \o Zeros(2))
    <3> HIDE DEF m
    <3> QED
      BY <2>4, ChecksumIsRemainder, Zenon
  <2> QED
    BY <2>5, Zenon DEF CrcIsRemainder
<1> QED
  BY <1>1, PacketInvariant, PTL
-----------------------------------------------------------------------------
(***************************************************************************)
(* What the functions of the test return.                                  *)
(***************************************************************************)
\* A list of one argument, as the function sees it.
One(type, v) == <<[type |-> Code[type], value |-> v]>>

\* A function that returns nothing.
LEMMA AppliesNothing ==
    ASSUME NEW f, NEW type, NEW v, Table[f + 1] = Function(type, "nothing")
    PROVE  Apply(f, One(type, v)) = Word(0)
<1> DEFINE args == One(type, v)
<1>1. args # <<>> /\ args[1].type = Code[type]
  BY DEF One
<1> HIDE DEF args
<1>2. Table[f + 1].type = Code[type] /\ Table[f + 1].returns = "nothing"
  BY DEF Function
<1>3. Apply(f, args) = lf_success
  BY <1>1, <1>2, Zenon DEF Apply
<1> QED
  BY <1>3, Zenon DEF args, lf_success

\* A function that returns twice its argument.
GivesTwice(f, type, v, returns) ==
    Apply(f, One(type, v)) = Doubled(v, lf_sizeof(Code[type]), returns = "signed")

\* The function looks at its first argument (extract_arg, tests/fmr_test).
LEMMA AppliesTwice ==
    ASSUME NEW f, NEW type, NEW v, NEW returns, returns # "nothing",
           Table[f + 1] = Function(type, returns)
    PROVE  GivesTwice(f, type, v, returns)
<1> DEFINE args == One(type, v)
<1>1. args # <<>> /\ args[1].type = Code[type] /\ args[1].value = v
  BY DEF One
<1> HIDE DEF args
<1>2. Table[f + 1].type = Code[type] /\ Table[f + 1].returns = returns
  BY DEF Function
<1>3. Apply(f, args) = Doubled(v, lf_sizeof(Code[type]), returns = "signed")
  BY <1>1, <1>2, Zenon DEF Apply
<1> QED
  BY <1>3, Zenon DEF args, GivesTwice

\* What function f returns for an argument of type type and value n.
First(n, z) == [k \in 1..z |-> Word(n)[k]]
Returns(f, type, n, e) == Apply(f, One(type, First(n, lf_sizeof(Code[type])))) = Word(e)
Twice(n, z, returns, e) == Doubled(First(n, z), z, returns = "signed") = Word(e)
Test(f, type, n, e) == [call |-> TestCall(f, type, n), expected |-> e]
Ok(t) ==
    /\ t.call.op = "index" /\ t.call.built = "append"
    /\ \E a : t.call.args = <<a>> /\ Apply(t.call.function, Seen(<<a>>)) = Word(t.expected)

\* It returns twice the number that the bytes of the type hold.
LEMMA ReturnsTwice ==
    ASSUME NEW f, NEW type, NEW n, NEW e, NEW returns, NEW z, Twice(n, z, returns, e),
           lf_sizeof(Code[type]) = z, returns # "nothing", Table[f + 1] = Function(type, returns)
    PROVE  Returns(f, type, n, e)
<1> DEFINE v == First(n, z)
<1>1. GivesTwice(f, type, v, returns)
  BY AppliesTwice, Zenon
<1> HIDE DEF v
<1>2. Apply(f, One(type, v)) = Doubled(v, z, returns = "signed")
  BY <1>1, Zenon DEF GivesTwice
<1> QED
  BY <1>2, Zenon DEF Twice, Returns, v

\* The function of a test sees the bytes of the argument.
LEMMA TestSees ==
    ASSUME NEW f, NEW type, NEW n \in Int, NEW e, Returns(f, type, n, e)
    PROVE  Ok(Test(f, type, n, e))
<1> DEFINE t == Test(f, type, n, e)
           w == Word(n)
           code == Code[type]
           z == lf_sizeof(code)
           a == [type |-> code, value |-> w]
<1>1. /\ t.call.op = "index" /\ t.call.built = "append" /\ t.call.function = f
      /\ t.call.args = <<a>> /\ t.expected = e
  BY ZenonT(60) DEF Test, TestCall
<1>2. \A k \in 1..8 : w[k] \in Byte
  BY DEF Word, Power, Byte
<1>3. z \in Nat /\ \A k \in 1..z : k \in 1..8
  <2>1. z \in 0..8
    BY SizeOf, Zenon
  <2> HIDE DEF z
  <2> QED
    BY <2>1
<1> HIDE DEF w, code
<1>4. SubSeq(w, 1, z) = [k \in 1..z |-> w[k]]
  BY <1>2, <1>3, Prefix, Zenon
<1>5. Seen(<<a>>) = <<[type |-> code, value |-> SubSeq(w, 1, z)]>>
  <2> HIDE DEF a
  <2>1. DOMAIN <<a>> = 1..1 /\ <<a>>[1] = a /\ 1..1 = {1}
    OBVIOUS
  <2>2. a.type = code /\ a.value = w
    BY Zenon DEF a
  <2> DEFINE v == SubSeq(w, 1, z)
             r == [type |-> code, value |-> v]
  <2>3. Seen(<<a>>) = [i \in 1..1 |-> r]
    <3>1. ASSUME NEW i \in 1..1
          PROVE  [type |-> <<a>>[i].type,
                  value |-> SubSeq(<<a>>[i].value, 1, lf_sizeof(<<a>>[i].type))] = r
      <4>1. i = 1
        BY <2>1, <3>1, Zenon
      <4>2. <<a>>[i] = a
        BY <2>1, <4>1, Zenon
      <4> QED
        BY <2>2, <4>2, Zenon
    <3> QED
      BY <2>1, <3>1, Zenon DEF Seen
  <2> HIDE DEF r
  <2>4. [i \in 1..1 |-> r] = <<r>>
    OBVIOUS
  <2> QED
    BY <2>3, <2>4, Zenon DEF r
<1>6. Seen(<<a>>) = One(type, First(n, z))
  BY <1>4, <1>5, Zenon DEF One, First, w, code
<1>7. Apply(f, Seen(<<a>>)) = Word(e)
  BY <1>6, Zenon DEF Returns, z, code
<1> HIDE DEF t, a
<1> QED
  BY <1>1, <1>7, Zenon DEF Ok, t

\* Every function of the test returns what the test expects (tests/fmr_test).
LEMMA TestReturns ==
    ASSUME NEW t \in Tests
    PROVE  Ok(t)
<1>0. \/ t = Test(0, "uint8", 16, 0)
      \/ t = Test(1, "uint16", 4931, 0)
      \/ t = Test(2, "int32", 70000, 0)
      \/ t = Test(3, "int", 111, 0)
      \/ t = Test(4, "uint8", 16, 32)
      \/ t = Test(5, "uint16", 4931, 9862)
      \/ t = Test(6, "uint32", 70000, 140000)
      \/ t = Test(7, "int", 111, 222)
      \/ t = Test(8, "int8", -16, 0)
      \/ t = Test(9, "int8", -16, -32)
      \/ t = Test(10, "int16", -4931, 0)
      \/ t = Test(11, "int16", -4931, -9862)
      \/ t = Test(12, "int32", -70000, 0)
      \/ t = Test(13, "int32", -70000, -140000)
  BY DEF Tests, Test
<1>1. Returns(0, "uint8", 16, 0)
  <2>1. Table[0 + 1] = Function("uint8", "nothing")
    BY DEF Table
  <2> QED
    BY <2>1, AppliesNothing DEF Returns
<1>2. Returns(1, "uint16", 4931, 0)
  <2>1. Table[1 + 1] = Function("uint16", "nothing")
    BY DEF Table
  <2> QED
    BY <2>1, AppliesNothing DEF Returns
<1>3. Returns(2, "int32", 70000, 0)
  <2>1. Table[2 + 1] = Function("int32", "nothing")
    BY DEF Table
  <2> QED
    BY <2>1, AppliesNothing DEF Returns
<1>4. Returns(3, "int", 111, 0)
  <2>1. Table[3 + 1] = Function("int", "nothing")
    BY DEF Table
  <2> QED
    BY <2>1, AppliesNothing, SMTT(60) DEF Returns
<1>5. Returns(4, "uint8", 16, 32)
  <2>1. Table[4 + 1] = Function("uint8", "unsigned")
    BY DEF Table
  <2>2. Twice(16, 1, "unsigned", 32)
    BY DEF Twice, Doubled, First, Word, Power
  <2>3. lf_sizeof(Code["uint8"]) = 1 /\ "unsigned" # "nothing"
    BY DEF lf_sizeof, Code
  <2> QED
    BY <2>1, <2>2, <2>3, ReturnsTwice, SMTT(60)
<1>6. Returns(5, "uint16", 4931, 9862)
  <2>1. Table[5 + 1] = Function("uint16", "unsigned")
    BY DEF Table
  <2>2. Twice(4931, 2, "unsigned", 9862)
    BY DEF Twice, Doubled, First, Word, Power
  <2>3. lf_sizeof(Code["uint16"]) = 2 /\ "unsigned" # "nothing"
    BY DEF lf_sizeof, Code
  <2> QED
    BY <2>1, <2>2, <2>3, ReturnsTwice, SMTT(60)
<1>7. Returns(6, "uint32", 70000, 140000)
  <2>1. Table[6 + 1] = Function("uint32", "unsigned")
    BY DEF Table
  <2>2. Twice(70000, 4, "unsigned", 140000)
    BY DEF Twice, Doubled, First, Word, Power
  <2>3. lf_sizeof(Code["uint32"]) = 4 /\ "unsigned" # "nothing"
    BY DEF lf_sizeof, Code
  <2> QED
    BY <2>1, <2>2, <2>3, ReturnsTwice, SMTT(60)
<1>8. Returns(7, "int", 111, 222)
  <2>1. Table[7 + 1] = Function("int", "unsigned")
    BY DEF Table
  <2>2. Twice(111, 4, "unsigned", 222)
    BY DEF Twice, Doubled, First, Word, Power
  <2>3. lf_sizeof(Code["int"]) = 4 /\ "unsigned" # "nothing"
    BY DEF lf_sizeof, Code
  <2> QED
    BY <2>1, <2>2, <2>3, ReturnsTwice, SMTT(60)
<1>9. Returns(8, "int8", -16, 0)
  <2>1. Table[8 + 1] = Function("int8", "nothing")
    BY DEF Table
  <2> QED
    BY <2>1, AppliesNothing DEF Returns
<1>10. Returns(9, "int8", -16, -32)
  <2>1. Table[9 + 1] = Function("int8", "signed")
    BY DEF Table
  <2>2. Twice(-16, 1, "signed", -32)
    BY DEF Twice, Doubled, First, Word, Power
  <2>3. lf_sizeof(Code["int8"]) = 1 /\ "signed" # "nothing"
    BY DEF lf_sizeof, Code
  <2> QED
    BY <2>1, <2>2, <2>3, ReturnsTwice, SMTT(60)
<1>11. Returns(10, "int16", -4931, 0)
  <2>1. Table[10 + 1] = Function("int16", "nothing")
    BY DEF Table
  <2> QED
    BY <2>1, AppliesNothing DEF Returns
<1>12. Returns(11, "int16", -4931, -9862)
  <2>1. Table[11 + 1] = Function("int16", "signed")
    BY DEF Table
  <2>2. Twice(-4931, 2, "signed", -9862)
    BY DEF Twice, Doubled, First, Word, Power
  <2>3. lf_sizeof(Code["int16"]) = 2 /\ "signed" # "nothing"
    BY DEF lf_sizeof, Code
  <2> QED
    BY <2>1, <2>2, <2>3, ReturnsTwice, SMTT(60)
<1>13. Returns(12, "int32", -70000, 0)
  <2>1. Table[12 + 1] = Function("int32", "nothing")
    BY DEF Table
  <2> QED
    BY <2>1, AppliesNothing, SMTT(60) DEF Returns
<1>14. Returns(13, "int32", -70000, -140000)
  <2>1. Table[13 + 1] = Function("int32", "signed")
    BY DEF Table
  <2>2. Twice(-70000, 4, "signed", -140000)
    BY DEF Twice, Doubled, First, Word, Power
  <2>3. lf_sizeof(Code["int32"]) = 4 /\ "signed" # "nothing"
    BY DEF lf_sizeof, Code
  <2> QED
    BY <2>1, <2>2, <2>3, ReturnsTwice, SMTT(60)
<1> QED
  BY <1>0, <1>1, <1>2, <1>3, <1>4, <1>5, <1>6, <1>7, <1>8, <1>9, <1>10, <1>11, <1>12, <1>13, <1>14, TestSees, SMTT(60)

\* The length of a call with one argument does not exceed the packet.
LEMMA OneFits ==
    ASSUME NEW a, <<a>> \in Seq(Argument)
    PROVE  IndexLength(<<a>>) <= 64
<1> DEFINE args == <<a>>
           z == Size(args)
           off == Offsets(Types(args))
<1>1. Len(args) = 1 /\ 1 \in Nat /\ 1 \in 1..1 /\ 1 - 1 = 0
  OBVIOUS
<1>2. args \in Seq(Argument)
  BY Zenon
<1> HIDE DEF args
<1>3. Len(Types(args)) = 1
  BY <1>1, <1>2, TypesIs, ZenonT(60)
<1>4. /\ off[0] = 0
      /\ \A i \in 1..1 : off[i] = off[i - 1] + lf_sizeof(Types(args)[i])
  BY <1>1, <1>3, OffsetsIs, ZenonT(60)
<1>5. off[1] = 0 + lf_sizeof(Types(args)[1])
  BY <1>1, <1>4, ZenonT(60)
<1>6. z = 0 + lf_sizeof(Types(args)[1]) /\ lf_sizeof(Types(args)[1]) \in 0..8
  BY <1>1, <1>5, SizeOf, ZenonT(60) DEF Size
<1> HIDE DEF z
<1>7. z \in 0..8
  BY <1>6
<1>8. HeaderSize + CallSize = 26
  BY DEF HeaderSize, CallSize, FMR_MAX_ARGC
<1>9. IndexLength(args) = 26 + 1 + z
  BY <1>1, <1>8, ZenonT(60) DEF IndexLength, z
<1>10. 26 + 1 + z <= 64
  BY <1>7, SMTT(60)
<1> QED
  BY <1>9, <1>10, ZenonT(60) DEF args

\* Every call of the repository's test that the device performs returns what
\* the test expects (tests/fmr_test).
THEOREM EveryTestPasses == Spec => []TestsPass
<1>1. PacketInv => TestsPass
  <2> SUFFICES ASSUME PacketInv, outcome.kind = "performed", NEW t \in Tests, call = t.call
               PROVE  outcome.value = Word(t.expected)
    BY Zenon DEF TestsPass
  <2>1. PICK a : t.call.args = <<a>> /\ Apply(t.call.function, Seen(<<a>>)) = Word(t.expected)
    BY TestReturns, Zenon DEF Ok
  <2>2. call.op = "index" /\ call.built = "append"
    BY TestReturns, Zenon DEF Ok
  <2>3. Passed(call) = <<a>>
    <3>1. call.built # "lf_args"
      BY <2>2
    <3> QED
      BY <2>1, <3>1, ZenonT(60) DEF Passed
  <2>4. Checked(call)
    <3>1. call.args \in Seq(Argument)
      <4>1. call \in Call
        BY CallsAssumption, Zenon DEF PacketInv
      <4> QED
        BY <4>1 DEF Call
    <3>2. <<a>> \in Seq(Argument)
      BY <2>1, <3>1, ZenonT(60)
    <3>3. IndexLength(<<a>>) <= 64
      BY <3>2, OneFits, ZenonT(60)
    <3> QED
      BY <2>2, <2>3, <3>3, ZenonT(60) DEF Checked, FMR_PACKET_SIZE
  <2>5. outcome.function = call.function /\ outcome.args = Seen(Passed(call))
    <3>1. Len(<<a>>) = 1 /\ 1 <= 16
      OBVIOUS
    <3>2. Len(Passed(call)) <= 16
      BY <2>3, <3>1, ZenonT(60)
    <3> QED
      BY <2>4, <3>2, Zenon DEF PacketInv, CallArrivesIntact, FMR_MAX_ARGC
  <2>6. outcome.value = Apply(outcome.function, outcome.args)
    BY Zenon DEF PacketInv, Answer
  <2> QED
    BY <2>1, <2>3, <2>5, <2>6, ZenonT(60)
<1> QED
  BY <1>1, PacketInvariant, PTL
==============================================================================
