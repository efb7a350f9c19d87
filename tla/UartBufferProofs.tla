------------------------- MODULE UartBufferProofs -------------------------
(***************************************************************************)
(* For every size of the buffer, of the index and of the length: the index *)
(* of uart0_buffer and the length of a read stay in bounds, whatever the   *)
(* receive interrupt does in between, except in the two named cases.  The  *)
(* bytes reach the callers in order and complete, and a reset forgets what *)
(* came before it, except after the things that each property names.       *)
(***************************************************************************)
EXTENDS UartBuffer, TLAPS

\* The ranges of the three integers that uart0_read computes with.
Ranges ==
    /\ idx \in 0 .. IndexMod - 1
    /\ n \in 0 .. IndexMod - 1
    /\ length \in 0 .. LengthMod - 1

\* What the copy n of the index promises while the buffer was not started
\* again inside a call: a short read asks for less than n bytes, and the index
\* has only grown since it was read.
ShortRead ==
    /\ pc \in {"part", "move", "load", "store"} => length < n
    /\ pc \in {"all", "part", "advance", "clear", "move", "load", "store"} => n <= idx

\* The index is in the buffer unless a call was torn.
IndexInv == "torn" \notin harm => idx <= Size /\ pc # "runaway" /\ ShortRead

\* A read of the whole buffer asks for at least what is copied, and the loop
\* is only entered with something left.
LengthInv ==
    /\ pc \in {"all", "advance"} => n <= length
    /\ pc \in {"poll", "take"} => length # 0

Inv == Ranges /\ IndexInv /\ LengthInv

\* A harm that is not "torn" does not make a call torn.
LEMMA HarmsKeeps ==
    ASSUME NEW h, h # "torn", NEW c, Harms(h, c)
    PROVE  "torn" \notin harm' => "torn" \notin harm
BY Zenon DEF Harms

\* The remainder of a number that is already in range.
LEMMA InRange ==
    ASSUME NEW m \in Nat \ {0}, NEW k \in 0 .. m - 1
    PROVE  k % m = k
OBVIOUS

\* A remainder is in range.
LEMMA Wrapped ==
    ASSUME NEW m \in Nat \ {0}, NEW k \in Int
    PROVE  k % m \in 0 .. m - 1
OBVIOUS

\* The head of the loop only polls with something left.
LEMMA LoopLeft ==
    ASSUME NEW l, NEW d, Loop(l, d)
    PROVE  pc' \in {"idle", "poll"} /\ (pc' = "poll" => l # 0)
BY Zenon DEF Loop, Return

\* Every statement of uart0_read and uart0_reset, and the receive interrupt,
\* keeps the index and the length in bounds.
LEMMA NextInv ==
    ASSUME Inv, Next
    PROVE  Inv'
<1> USE UartAssumption
<1>t. Ranges /\ IndexInv /\ LengthInv
  BY Zenon DEF Inv
<1>1. CASE \E l \in Lengths : Read(l)
  <2>1. PICK l \in Lengths : Read(l)
    BY <1>1, Zenon
  <2>2. /\ pc = "idle" /\ length' = l /\ n' = idx /\ idx' = idx /\ harm' = harm
        /\ pc' = CASE idx = 0 -> "poll" [] idx # 0 /\ l >= idx -> "all" [] OTHER -> "part"
    BY <2>1, Zenon DEF Read
  <2>3. l \in 1 .. LengthMod - 1
    BY Zenon
  <2>4. /\ idx = 0 => pc' = "poll"
        /\ idx # 0 /\ l >= idx => pc' = "all"
        /\ idx # 0 /\ ~(l >= idx) => pc' = "part"
    BY <2>2, Zenon
  <2> QED
    BY <1>t, <2>2, <2>3, <2>4 DEF Inv, Ranges, IndexInv, ShortRead, LengthInv
<1>2. CASE Copy
  BY <1>t, <1>2, Zenon DEF Copy, Inv, Ranges, IndexInv, ShortRead, LengthInv
<1>3. CASE Advance
  <2>1. PICK k \in {n, idx} : length' = (length - k) % LengthMod
    BY <1>3, Zenon DEF Advance
  <2>2. length' \in 0 .. LengthMod - 1
    BY <1>t, <2>1, Wrapped DEF Ranges
  <2>3. "torn" \notin harm' => "torn" \notin harm
    BY <1>3, HarmsKeeps, Zenon DEF Advance
  <2> QED
    BY <1>t, <1>3, <2>2, <2>3, Zenon DEF Advance, Inv, Ranges, IndexInv, ShortRead, LengthInv
<1>4. CASE Clear
  <2>1. pc' \in {"idle", "poll"} /\ (pc' = "poll" => length # 0)
    BY <1>4, LoopLeft, Zenon DEF Clear
  <2>2. "torn" \notin harm' => "torn" \notin harm
    BY <1>4, HarmsKeeps, Zenon DEF Clear
  <2>3. idx' = 0 /\ n' = n /\ length' = length
    BY <1>4, Zenon DEF Clear
  <2> QED
    BY <1>t, <2>1, <2>2, <2>3 DEF Inv, Ranges, IndexInv, ShortRead, LengthInv
<1>5. CASE Move
  <2>1. PICK m \in {n, idx} : /\ n' = m
                              /\ \/ m >= length /\ pc' = "load"
                                 \/ m < length /\ pc' = "runaway"
    BY <1>5, Zenon DEF Move
  <2>2. pc = "move" /\ idx' = idx /\ length' = length /\ harm' = harm
    BY <1>5, Zenon DEF Move
  <2> QED
    BY <1>t, <2>1, <2>2 DEF Inv, Ranges, IndexInv, ShortRead, LengthInv
<1>6. CASE Load
  <2>1. "torn" \notin harm' => "torn" \notin harm
    BY <1>6, HarmsKeeps, Zenon DEF Load
  <2> QED
    BY <1>t, <1>6, <2>1 DEF Load, Inv, Ranges, IndexInv, ShortRead, LengthInv
<1>7. CASE Store
  <2>1. "torn" \notin harm' => "torn" \notin harm
    BY <1>7, HarmsKeeps, Zenon DEF Store
  <2>2. /\ pc = "store" /\ pc' = "idle" /\ idx' = (n - length) % IndexMod
        /\ n' = n /\ length' = length
    BY <1>7, Zenon DEF Store, Return
  <2>3. idx' \in 0 .. IndexMod - 1
    BY <1>t, <2>2, Wrapped DEF Ranges
  <2>4. "torn" \notin harm => idx' <= Size
    <3> SUFFICES ASSUME "torn" \notin harm
                 PROVE  idx' <= Size
      BY Zenon
    <3>1. length < n /\ n <= idx /\ idx <= Size
      BY <1>t, <2>2, Zenon DEF IndexInv, ShortRead
    <3>2. n - length \in 0 .. IndexMod - 1 /\ n - length <= Size
      BY <1>t, <3>1 DEF Ranges
    <3> QED
      BY <2>2, <3>2, InRange
  <2> QED
    BY <1>t, <2>1, <2>2, <2>3, <2>4, Zenon DEF Inv, Ranges, IndexInv, ShortRead, LengthInv
<1>8. CASE Poll
  <2>1. pc = "poll" /\ pc' \in {"take", "idle"}
    BY <1>8, Zenon DEF Poll, Return
  <2> QED
    BY <1>t, <1>8, <2>1, Zenon DEF Poll, Inv, Ranges, IndexInv, ShortRead, LengthInv
<1>9. CASE Take
  <2>1. pc' \in {"idle", "poll"} /\ (pc' = "poll" => length - 1 # 0)
    BY <1>9, LoopLeft, Zenon DEF Take
  <2>2. pc = "take" /\ length' = length - 1 /\ idx' = idx /\ n' = n
    BY <1>9, Zenon DEF Take
  <2>3. "torn" \notin harm' => "torn" \notin harm
    BY <1>9, Zenon DEF Take
  <2> QED
    BY <1>t, <2>1, <2>2, <2>3 DEF Inv, Ranges, IndexInv, ShortRead, LengthInv
<1>10. CASE Reset
  BY <1>t, <1>10 DEF Reset, Inv, Ranges, IndexInv, ShortRead, LengthInv
<1>11. CASE Drain
  <2>1. pc = "drain" /\ pc' \in {"drain", "idle"}
    BY <1>11, Zenon DEF Drain
  <2> QED
    BY <1>t, <1>11, <2>1, Zenon DEF Drain, Inv, Ranges, IndexInv, ShortRead, LengthInv
<1>12. CASE ISR
  <2> DEFINE at == IF idx = Size THEN 0 ELSE idx
  <2>1. idx' = at \/ idx' = (at + 1) % IndexMod
    BY <1>12, Zenon DEF ISR
  <2>2. /\ pc' = pc /\ n' = n /\ length' = length
        /\ "torn" \notin harm' => "torn" \notin harm /\ ~(idx = Size /\ pc # "idle")
    BY <1>12, Zenon DEF ISR, Disturbs
  <2>3. at \in 0 .. IndexMod - 1
    BY <1>t DEF Ranges
  <2>4. idx' \in 0 .. IndexMod - 1
    <3> HIDE DEF at
    <3>1. at + 1 \in Int /\ IndexMod \in Nat \ {0}
      BY <2>3
    <3>2. (at + 1) % IndexMod \in 0 .. IndexMod - 1
      BY <3>1, Wrapped, Zenon
    <3> QED
      BY <2>1, <2>3, <3>2, Zenon
  <2>5. ASSUME "torn" \notin harm'
        PROVE  idx' <= Size /\ (pc # "idle" => idx <= idx')
    <3>1. idx <= Size
      BY <1>t, <2>2, <2>5, Zenon DEF IndexInv
    <3>2. at < Size /\ (pc # "idle" => at = idx)
      <4>1. idx \in Nat /\ (pc # "idle" => idx # Size)
        BY <1>t, <2>2, <2>5 DEF Ranges
      <4> QED
        BY <3>1, <4>1
    <3>3. at + 1 \in 0 .. IndexMod - 1
      BY <2>3, <3>2
    <3>4. (at + 1) % IndexMod = at + 1
      BY <3>3, InRange
    <3> QED
      BY <1>t, <2>1, <2>3, <3>2, <3>4 DEF Ranges
  <2> HIDE DEF at
  <2> QED
    BY <1>t, <2>2, <2>4, <2>5 DEF Inv, Ranges, IndexInv, ShortRead, LengthInv
<1>13. CASE Arrive
  <2>1. "torn" \notin harm' => "torn" \notin harm
    BY <1>13, HarmsKeeps, Zenon DEF Arrive
  <2> QED
    BY <1>t, <1>13, <2>1, Zenon DEF Arrive, Inv, Ranges, IndexInv, ShortRead, LengthInv
<1> QED
  BY <1>1, <1>2, <1>3, <1>4, <1>5, <1>6, <1>7, <1>8, <1>9, <1>10, <1>11, <1>12, <1>13, Zenon
  DEF Next

\* The bounds hold in every reachable state.
LEMMA InvHolds == Spec => []Inv
<1>1. Init => Inv
  BY UartAssumption DEF Init, Inv, Ranges, IndexInv, ShortRead, LengthInv
<1>2. Inv /\ UNCHANGED vars => Inv'
  BY Zenon DEF vars, Inv, Ranges, IndexInv, ShortRead, LengthInv
<1> QED
  BY <1>1, <1>2, NextInv, PTL DEF Spec

\* The index and the memmove of uart0_read stay in the buffer, for every size
\* of it, unless the interrupt starts the buffer again inside a call.
THEOREM IndexStaysInBounds == Spec => []InBounds
<1>1. Inv => InBounds
  BY Zenon DEF Inv, IndexInv, InBounds
<1> QED
  BY <1>1, InvHolds, PTL

\* A call of uart0_read never stores more than was asked for, unless a byte
\* was stored between its memcpy and length -= idx.
THEOREM ReadsNoMore == Spec => NoMoreThanAsked
<1>1. Inv /\ [Next]_vars
        => [length' > length => pc = "idle" \/ "gap" \in harm']_vars
  <2> SUFFICES ASSUME Inv, Next, pc # "idle", length' # length, "gap" \notin harm'
               PROVE  ~(length' > length)
    BY DEF vars, Inv, Ranges
  <2> USE UartAssumption
  <2>1. Ranges /\ LengthInv
    BY Zenon DEF Inv
  <2>2. Advance \/ Take
    BY Zenon DEF Next, Read, Copy, Clear, Move, Load, Store, Poll, Reset, Drain, ISR, Arrive
  <2>3. CASE Advance
    <3>1. PICK k \in {n, idx} : length' = (length - k) % LengthMod /\ Harms("gap", k # n)
      BY <2>3, Zenon DEF Advance
    <3>2. k = n /\ n <= length
      BY <2>1, <2>3, <3>1, Zenon DEF Harms, Advance, LengthInv
    <3>3. length - n \in 0 .. LengthMod - 1
      BY <2>1, <3>2 DEF Ranges
    <3> QED
      BY <2>1, <3>1, <3>2, <3>3, InRange DEF Ranges
  <2>4. CASE Take
    BY <2>1, <2>4 DEF Take, Ranges
  <2> QED
    BY <2>2, <2>3, <2>4, Zenon
<1> QED
  BY <1>1, InvHolds, PTL DEF Spec, NoMoreThanAsked

-----------------------------------------------------------------------------
(***************************************************************************)
(* What happens to the bytes.  A byte is followed through four places: it  *)
(* is taken by an earlier call, stored for the present one, in a live cell *)
(* of the buffer, or in the register.                                      *)
(***************************************************************************)
\* The bytes of a sequence.
Bytes(s) == {s[i] : i \in 1 .. Len(s)}

\* The cells that hold bytes nobody has got: those behind the ones that were
\* copied while a call is under way, and, once the memmove is done, those
\* that were moved and those that the interrupt has filled since.
Live ==
    CASE pc \in {"advance", "clear"} -> n .. idx - 1
      [] pc = "move" -> length .. idx - 1
      [] pc \in {"load", "store"} -> (0 .. n - length - 1) \union (n .. idx - 1)
      [] OTHER -> 0 .. idx - 1

\* The bytes that the buffer still holds for a caller.
Buffered == {buffer[i] : i \in Live}

\* The buffer holds them in the order of their arrival.
Sorted == \A i, j \in Live : i < j => buffer[i] < buffer[j]

\* The bytes of S arrived before those of T.
Before(S, T) == \A x \in S, y \in T : x < y

\* The bytes of t, d, S and u arrived in this order, and none after the a-th.
Chain(t, d, S, u, a) ==
    /\ Increasing(t) /\ Increasing(d) /\ Increasing(u)
    /\ Before(Bytes(t), Bytes(d))
    /\ Before(Bytes(t) \union Bytes(d), S)
    /\ Before(Bytes(t) \union Bytes(d) \union S, Bytes(u))
    /\ Before(Bytes(t) \union Bytes(d) \union S \union Bytes(u), {a + 1})

\* The types of the stream, and the caller's part of it at each statement.
Data ==
    /\ UDR1 \in Seq(Nat) /\ Len(UDR1) <= Depth
    /\ dst \in Seq(Nat) /\ taken \in Seq(Nat)
    /\ buffer \in [0 .. IndexMod - 1 -> Nat]
    /\ arrived \in Nat /\ mark \in Nat /\ mark <= arrived
    /\ pc = "part" => length < n
    /\ pc = "advance" => Len(dst) = n
    /\ pc \in {"idle", "all", "part", "drain"} => dst = <<>>

\* The stream is in order, wherever the call is.
Ordered ==
    harm \intersect {"gap", "hole", "stale", "overtake", "torn"} = {} =>
        Chain(taken, dst, Buffered, UDR1, arrived) /\ Sorted

\* No byte is missing, wherever the call is.
Kept ==
    harm \subseteq {"late"} =>
        Bytes(taken) \union Bytes(dst) \union Buffered \union Bytes(UDR1) \union gone = 1 .. arrived

\* What the last reset was to forget is neither in the buffer nor in the
\* register; while the register is drained the buffer is empty.
Forgotten ==
    harm \intersect {"late", "torn"} = {} =>
        /\ pc = "drain" => idx = 0
        /\ pc # "drain" => Before({mark}, Bytes(UDR1)) /\ \A i \in 0 .. idx - 1 : mark < buffer[i]

\* Where every byte that arrived is, and in which order.
Flow == Data /\ Ordered /\ Kept /\ Forgotten

\* What \o does to the bytes of two sequences and to their order.
LEMMA Joined ==
    ASSUME NEW s \in Seq(Nat), NEW t \in Seq(Nat)
    PROVE  /\ s \o t \in Seq(Nat) /\ Bytes(s \o t) = Bytes(s) \union Bytes(t)
           /\ Increasing(s) /\ Increasing(t) /\ Before(Bytes(s), Bytes(t)) => Increasing(s \o t)
<1>1. /\ s \o t \in Seq(Nat) /\ Len(s \o t) = Len(s) + Len(t) /\ Len(s) \in Nat /\ Len(t) \in Nat
      /\ \A i \in 1 .. Len(s) : (s \o t)[i] = s[i]
      /\ \A i \in Len(s) + 1 .. Len(s) + Len(t) : (s \o t)[i] = t[i - Len(s)]
  OBVIOUS
<1>2. Bytes(s \o t) \subseteq Bytes(s) \union Bytes(t)
  BY <1>1 DEF Bytes
<1>3. Bytes(s) \subseteq Bytes(s \o t)
  BY <1>1 DEF Bytes
<1>4. Bytes(t) \subseteq Bytes(s \o t)
  <2> SUFFICES ASSUME NEW i \in 1 .. Len(t)
               PROVE  t[i] \in Bytes(s \o t)
    BY Zenon DEF Bytes
  <2>1. Len(s) + i \in 1 .. Len(s \o t) /\ (s \o t)[Len(s) + i] = t[i]
    BY <1>1
  <2> QED
    BY <2>1, Zenon DEF Bytes
<1>5. ASSUME Increasing(s), Increasing(t), Before(Bytes(s), Bytes(t))
      PROVE  Increasing(s \o t)
  <2> SUFFICES ASSUME NEW i \in 1 .. Len(s \o t), NEW j \in 1 .. Len(s \o t), i < j
               PROVE  (s \o t)[i] < (s \o t)[j]
    BY Zenon DEF Increasing
  <2>1. CASE j <= Len(s)
    BY <1>1, <1>5, <2>1 DEF Increasing
  <2>2. CASE i > Len(s)
    <3>1. /\ i - Len(s) \in 1 .. Len(t) /\ (s \o t)[i] = t[i - Len(s)]
          /\ j - Len(s) \in 1 .. Len(t) /\ (s \o t)[j] = t[j - Len(s)]
          /\ i - Len(s) < j - Len(s)
      BY <1>1, <2>2, SMTT(60)
    <3> QED
      BY <1>5, <3>1, Zenon DEF Increasing
  <2>3. CASE i <= Len(s) /\ j > Len(s)
    <3>1. s[i] \in Bytes(s) /\ t[j - Len(s)] \in Bytes(t)
      BY <1>1, <2>3, SMTT(60) DEF Bytes
    <3> QED
      BY <1>1, <1>5, <2>3, <3>1, SMTT(60) DEF Before
  <2> QED
    BY <1>1, <2>1, <2>2, <2>3, SMTT(60)
<1> QED
  BY <1>1, <1>2, <1>3, <1>4, <1>5, Zenon

\* The same for Append.
LEMMA Appended ==
    ASSUME NEW s \in Seq(Nat), NEW b \in Nat
    PROVE  /\ Append(s, b) \in Seq(Nat) /\ Bytes(Append(s, b)) = Bytes(s) \union {b}
           /\ Increasing(s) /\ Before(Bytes(s), {b}) => Increasing(Append(s, b))
<1>1. <<b>> \in Seq(Nat) /\ Append(s, b) = s \o <<b>> /\ Len(<<b>>) = 1 /\ <<b>>[1] = b
  OBVIOUS
<1>2. Bytes(<<b>>) = {b} /\ Increasing(<<b>>)
  BY <1>1 DEF Bytes, Increasing
<1> QED
  BY <1>1, <1>2, Joined, Zenon

\* The same for Head and Tail.
LEMMA Split ==
    ASSUME NEW s \in Seq(Nat), s # <<>>
    PROVE  /\ Head(s) \in Nat /\ Tail(s) \in Seq(Nat)
           /\ Bytes(s) = Bytes(Tail(s)) \union {Head(s)}
           /\ Increasing(s) => Increasing(Tail(s)) /\ Before({Head(s)}, Bytes(Tail(s)))
<1>1. /\ Head(s) \in Nat /\ Tail(s) \in Seq(Nat) /\ Len(s) \in Nat \ {0} /\ Head(s) = s[1]
      /\ Len(Tail(s)) = Len(s) - 1 /\ \A i \in 1 .. Len(Tail(s)) : Tail(s)[i] = s[i + 1]
  OBVIOUS
<1>2. Bytes(s) \subseteq Bytes(Tail(s)) \union {Head(s)}
  <2> SUFFICES ASSUME NEW i \in 1 .. Len(s), i # 1
               PROVE  s[i] \in Bytes(Tail(s))
    BY <1>1, ZenonT(60) DEF Bytes
  <2>1. i - 1 \in 1 .. Len(Tail(s)) /\ Tail(s)[i - 1] = s[i]
    BY <1>1
  <2> QED
    BY <2>1, Zenon DEF Bytes
<1>3. Bytes(Tail(s)) \union {Head(s)} \subseteq Bytes(s)
  BY <1>1, SMTT(60) DEF Bytes
<1>4. Increasing(s) => Increasing(Tail(s)) /\ Before({Head(s)}, Bytes(Tail(s)))
  BY <1>1, SMTT(60) DEF Increasing, Before, Bytes
<1> QED
  BY <1>1, <1>2, <1>3, <1>4, Zenon

\* The empty sequence has no bytes.
LEMMA Empty == <<>> \in Seq(Nat) /\ Bytes(<<>>) = {} /\ Increasing(<<>>)
  BY DEF Bytes, Increasing

\* What the loop of uart0_read does with the bytes it has stored.
LEMMA LoopStores ==
    ASSUME Data, NEW l, NEW d \in Seq(Nat), Loop(l, d)
    PROVE  /\ pc' \in {"idle", "poll"} /\ dst' \in Seq(Nat) /\ taken' \in Seq(Nat)
           /\ \/ pc' = "idle" /\ dst' = <<>> /\ taken' = taken \o d
              \/ pc' = "poll" /\ dst' = d /\ taken' = taken
BY Joined, Empty, ZenonT(60) DEF Loop, Return, Data

\* What memcpy copies.
LEMMA FirstBytes ==
    ASSUME Data, NEW k \in 0 .. IndexMod - 1
    PROVE  /\ First(k) \in Seq(Nat) /\ Len(First(k)) = k
           /\ \A i \in 1 .. k : First(k)[i] = buffer[i - 1]
           /\ Bytes(First(k)) = {buffer[i] : i \in 0 .. k - 1}
<1>1. /\ First(k) \in Seq(Nat) /\ Len(First(k)) = k
      /\ \A i \in 1 .. k : First(k)[i] = buffer[i - 1]
  <2>1. First(k) \in Seq(Nat) /\ Len(First(k)) = k
    BY UartAssumption DEF First, Data
  <2> QED
    BY <2>1, Zenon DEF First
<1>2. ASSUME NEW i \in 1 .. k
      PROVE  First(k)[i] \in {buffer[j] : j \in 0 .. k - 1}
  <2>1. i - 1 \in 0 .. k - 1 /\ First(k)[i] = buffer[i - 1]
    BY <1>1
  <2> QED
    BY <2>1, Zenon
<1>3. ASSUME NEW i \in 0 .. k - 1
      PROVE  buffer[i] \in Bytes(First(k))
  <2>1. i + 1 \in 1 .. k /\ First(k)[i + 1] = buffer[i]
    BY <1>1
  <2> QED
    BY <1>1, <2>1, Zenon DEF Bytes
<1> QED
  BY <1>1, <1>2, <1>3, ZenonT(60) DEF Bytes

\* Every step of uart0_read, uart0_reset and the interrupt keeps the types.
LEMMA DataStep ==
    ASSUME Inv, Data, Next
    PROVE  Data'
<1> USE UartAssumption
<1>t. Ranges
  BY Zenon DEF Inv
<1>u. RXC1 => Tail(UDR1) \in Seq(Nat) /\ Len(Tail(UDR1)) <= Depth /\ Head(UDR1) \in Nat
  BY SMTT(60) DEF RXC1, Data
<1>1. CASE \E l \in Lengths : Read(l)
  <2>1. PICK l \in Lengths : Read(l)
    BY <1>1, Zenon
  <2>2. l \in Nat /\ idx \in Nat
    BY <1>t DEF Ranges
  <2>3. pc' \in {"all", "poll", "part"} /\ (pc' = "part" => length' < n')
    BY <2>1, <2>2 DEF Read
  <2> QED
    BY <2>1, <2>3, Zenon DEF Read, Data
<1>2. CASE Copy
  <2>1. CASE pc = "all"
    BY <1>t, <1>2, <2>1, FirstBytes, Zenon DEF Copy, Data, Ranges
  <2>2. CASE pc = "part"
    <3>1. length \in 0 .. IndexMod - 1
      BY <1>t, <2>2 DEF Ranges, Data
    <3> QED
      BY <1>2, <2>2, <3>1, FirstBytes, Zenon DEF Copy, Data
  <2> QED
    BY <1>2, <2>1, <2>2, Zenon DEF Copy
<1>3. CASE Advance
  <2>1. PICK k \in {n, idx} : dst' = [i \in 1 .. k |-> IF i <= n THEN dst[i] ELSE 0]
    BY <1>3, Zenon DEF Advance
  <2>2. k \in Nat /\ n \in Nat /\ Len(dst) = n /\ dst \in Seq(Nat)
    BY <1>t, <1>3 DEF Ranges, Data, Advance
  <2>3. \A i \in 1 .. k : (IF i <= n THEN dst[i] ELSE 0) \in Nat
    BY <2>2
  <2>4. dst' \in Seq(Nat)
    BY <2>1, <2>2, <2>3
  <2> QED
    BY <1>3, <2>4, Zenon DEF Advance, Data
<1>4. CASE Clear
  <2>1. /\ pc' \in {"idle", "poll"} /\ dst' \in Seq(Nat) /\ taken' \in Seq(Nat)
        /\ pc' = "idle" => dst' = <<>>
    BY <1>4, LoopStores, Zenon DEF Clear, Data
  <2> QED
    BY <1>4, <2>1, Zenon DEF Clear, Data
<1>5. CASE Move
  <2>1. PICK m \in {n, idx} :
               \/ buffer' = [i \in DOMAIN buffer |-> IF i < m - length THEN buffer[i + length]
                                                                       ELSE buffer[i]]
               \/ UNCHANGED buffer
    BY <1>5, Zenon DEF Move
  <2>2. \A i \in 0 .. IndexMod - 1 : (IF i < m - length THEN buffer[i + length] ELSE buffer[i]) \in Nat
    <3> TAKE i \in 0 .. IndexMod - 1
    <3>1. i < m - length => i + length \in 0 .. IndexMod - 1
      BY <1>t DEF Ranges
    <3> QED
      BY <3>1, Zenon DEF Data
  <2>3. buffer' \in [0 .. IndexMod - 1 -> Nat]
    BY <2>1, <2>2, Zenon DEF Data
  <2> QED
    BY <1>5, <2>3, Zenon DEF Move, Data
<1>6. CASE Load
  BY <1>6, Zenon DEF Load, Data
<1>7. CASE Store \/ Poll
  <2>1. \/ pc' = "idle" /\ dst' = <<>> /\ taken' = taken \o dst
        \/ pc' = "take" /\ dst' = dst /\ taken' = taken
    BY <1>7, Zenon DEF Store, Poll, Return
  <2>2. dst' \in Seq(Nat) /\ taken' \in Seq(Nat)
    BY <2>1, Joined, Empty, ZenonT(60) DEF Data
  <2> QED
    BY <1>7, <2>1, <2>2, Zenon DEF Store, Poll, Data
<1>8. CASE Take
  <2>1. Append(dst, IF RXC1 THEN Head(UDR1) ELSE 0) \in Seq(Nat)
    BY Appended, Split, Zenon DEF RXC1, Data
  <2>2. /\ pc' \in {"idle", "poll"} /\ dst' \in Seq(Nat) /\ taken' \in Seq(Nat)
        /\ pc' = "idle" => dst' = <<>>
    BY <1>8, <2>1, LoopStores, Zenon DEF Take
  <2>3. UDR1' \in Seq(Nat) /\ Len(UDR1') <= Depth
    BY <1>u, <1>8, Zenon DEF Take, Data
  <2> QED
    BY <1>8, <2>2, <2>3, Zenon DEF Take, Data
<1>9. CASE Reset
  BY <1>9 DEF Reset, Data
<1>10. CASE Drain
  <2>1. UDR1' \in Seq(Nat) /\ Len(UDR1') <= Depth
    BY <1>u, <1>10, Zenon DEF Drain, Data
  <2> QED
    BY <1>10, <2>1, Zenon DEF Drain, Data
<1>11. CASE ISR
  <2>1. UDR1' \in Seq(Nat) /\ Len(UDR1') <= Depth /\ Head(UDR1) \in Nat
    BY <1>u, <1>11, Zenon DEF ISR
  <2>2. buffer' \in [0 .. IndexMod - 1 -> Nat]
    BY <1>11, <2>1, Zenon DEF ISR, Data
  <2> QED
    BY <1>11, <2>1, <2>2, Zenon DEF ISR, Data
<1>12. CASE Arrive
  <2>1. arrived' = arrived + 1 /\ arrived + 1 \in Nat /\ mark <= arrived + 1
    BY <1>12 DEF Arrive, Data
  <2>2. UDR1' \in Seq(Nat) /\ Len(UDR1') <= Depth
    BY <1>12, <2>1 DEF Arrive, Data
  <2> QED
    BY <1>12, <2>1, <2>2, Zenon DEF Arrive, Data
<1> QED
  BY <1>1, <1>2, <1>3, <1>4, <1>5, <1>6, <1>7, <1>8, <1>9, <1>10, <1>11, <1>12, Zenon
  DEF Next

\* No step repairs what an earlier one has damaged.
LEMMA HarmGrows ==
    ASSUME Next
    PROVE  harm \subseteq harm'
<1>1. ASSUME NEW h, NEW c, Harms(h, c)
      PROVE  harm \subseteq harm'
  BY <1>1, Zenon DEF Harms
<1>2. CASE Advance \/ Clear \/ Load \/ Store \/ Arrive
  BY <1>1, <1>2, Zenon DEF Advance, Clear, Load, Store, Arrive
<1>3. CASE ISR
  BY <1>3, Zenon DEF ISR, Disturbs
<1>4. CASE Take
  BY <1>4, Zenon DEF Take
<1>5. CASE harm' = harm
  BY <1>5, Zenon
<1> QED
  BY <1>2, <1>3, <1>4, <1>5, Zenon DEF Next, Read, Copy, Move, Poll, Reset, Drain

\* Where the interrupt finds room for a byte.
At == IF idx = Size THEN 0 ELSE idx

\* What the interrupt does with a byte, when it does not start the buffer again
\* inside a call.
LEMMA IsrStep ==
    ASSUME Inv, ISR, "torn" \notin harm'
    PROVE  /\ At \in 0 .. Size - 1 /\ (pc # "idle" => At = idx)
           /\ RXC1 /\ UDR1' = Tail(UDR1)
           /\ UNCHANGED <<pc, length, n, dst, taken, arrived, mark>>
           /\ idx = Size => "wrap" \in harm'
           /\ \/ idx' = At /\ buffer' = buffer /\ gone' = gone \union {Head(UDR1)}
              \/ /\ idx' = At + 1 /\ buffer' = [buffer EXCEPT ![At] = Head(UDR1)] /\ gone' = gone
                 /\ pc = "drain" => "late" \in harm'
<1> USE UartAssumption
<1>1. /\ RXC1 /\ UDR1' = Tail(UDR1)
      /\ UNCHANGED <<pc, length, n, dst, taken, arrived, mark>>
  BY Zenon DEF ISR
<1>2. \/ /\ idx' = At /\ buffer' = buffer /\ gone' = gone \union {Head(UDR1)} /\ Disturbs(FALSE)
      \/ /\ idx' = (At + 1) % IndexMod /\ buffer' = [buffer EXCEPT ![At] = Head(UDR1)] /\ gone' = gone
         /\ Disturbs(TRUE)
  BY Zenon DEF ISR, At
<1>3. /\ idx = Size => "wrap" \in harm' /\ pc = "idle"
      /\ "torn" \notin harm
      /\ Disturbs(TRUE) /\ pc = "drain" => "late" \in harm'
  BY <1>2, Zenon DEF Disturbs
<1>4. idx \in Nat /\ idx <= Size
  BY <1>3 DEF Inv, Ranges, IndexInv
<1>5. At \in 0 .. Size - 1 /\ (pc # "idle" => At = idx)
  BY <1>3, <1>4 DEF At
<1>6. (At + 1) % IndexMod = At + 1
  <2>1. At + 1 \in 0 .. IndexMod - 1
    BY <1>5
  <2> HIDE DEF At
  <2> QED
    BY <2>1, InRange
<1> QED
  BY <1>1, <1>2, <1>3, <1>5, <1>6, Zenon

\* No step brings back what uart0_reset was to forget.
LEMMA ForgottenStep ==
    ASSUME Inv, Data, Forgotten, Next
    PROVE  Forgotten'
<1> USE UartAssumption
<1> SUFFICES ASSUME harm' \intersect {"late", "torn"} = {}
             PROVE  /\ pc' = "drain" => idx' = 0
                    /\ pc' # "drain" => /\ Before({mark'}, Bytes(UDR1'))
                                        /\ \A i \in 0 .. idx' - 1 : mark' < buffer'[i]
  BY Zenon DEF Forgotten, Bytes
<1>h. harm \intersect {"late", "torn"} = {}
  BY HarmGrows, Zenon
<1>t. Ranges /\ ShortRead
  BY <1>h, Zenon DEF Inv, IndexInv
<1>d. /\ UDR1 \in Seq(Nat) /\ buffer \in [0 .. IndexMod - 1 -> Nat]
      /\ arrived \in Nat /\ mark \in Nat /\ mark <= arrived
  BY Zenon DEF Data
<1>f. /\ pc = "drain" => idx = 0
      /\ pc # "drain" => Before({mark}, Bytes(UDR1)) /\ \A i \in 0 .. idx - 1 : mark < buffer[i]
  BY <1>h, Zenon DEF Forgotten
<1>1. CASE (\E l \in Lengths : Read(l)) \/ Copy \/ Advance \/ Poll \/ Load
  <2>1. UNCHANGED <<idx, buffer, mark, UDR1>> /\ pc # "drain" /\ pc' # "drain"
    BY <1>1, Zenon DEF Read, Copy, Advance, Poll, Load, Return
  <2> QED
    BY <1>f, <2>1, Zenon
<1>2. CASE Clear
  <2>1. UNCHANGED <<mark, UDR1>> /\ idx' = 0 /\ pc = "clear" /\ pc' # "drain"
    BY <1>2, LoopLeft, Zenon DEF Clear
  <2> QED
    BY <1>f, <2>1
<1>3. CASE Move
  <2>1. /\ UNCHANGED <<mark, UDR1, idx>> /\ pc = "move" /\ pc' # "drain"
        /\ \/ UNCHANGED buffer
           \/ \E m \in {n, idx} :
                 buffer' = [i \in DOMAIN buffer |-> IF i < m - length THEN buffer[i + length]
                                                                      ELSE buffer[i]]
    BY <1>3, Zenon DEF Move
  <2>2. ASSUME NEW i \in 0 .. idx - 1
        PROVE  mark < buffer'[i]
    <3>1. CASE UNCHANGED buffer
      BY <1>f, <2>1, <3>1, Zenon
    <3>2. ASSUME NEW m \in {n, idx},
                 buffer' = [k \in DOMAIN buffer |-> IF k < m - length THEN buffer[k + length]
                                                                      ELSE buffer[k]]
          PROVE  mark < buffer'[i]
      <4>1. i \in DOMAIN buffer /\ i + length \in Nat /\ (i < m - length => i + length \in 0 .. idx - 1)
        BY <1>t, <1>d, <2>1 DEF Ranges, ShortRead
      <4>2. buffer'[i] = IF i < m - length THEN buffer[i + length] ELSE buffer[i]
        BY <3>2, <4>1, Zenon
      <4> QED
        BY <1>f, <2>1, <4>1, <4>2, Zenon
    <3> QED
      BY <2>1, <3>1, <3>2, Zenon
  <2> QED
    BY <1>f, <2>1, <2>2, Zenon
<1>4. CASE Store
  <2>1. /\ UNCHANGED <<mark, UDR1, buffer>> /\ pc = "store" /\ pc' = "idle"
        /\ idx' = (n - length) % IndexMod
    BY <1>4, Zenon DEF Store, Return
  <2>2. n - length \in 0 .. IndexMod - 1 /\ n - length <= idx
    BY <1>t, <2>1 DEF Ranges, ShortRead
  <2>3. idx' <= idx /\ idx' \in Nat
    BY <2>1, <2>2, InRange
  <2> QED
    BY <1>t, <1>f, <2>1, <2>3 DEF Ranges
<1>5. CASE Take
  <2>1. UNCHANGED <<mark, idx, buffer>> /\ pc = "take" /\ pc' # "drain"
    BY <1>5, LoopLeft, Zenon DEF Take
  <2>2. Bytes(UDR1') \subseteq Bytes(UDR1)
    BY <1>d, <1>5, Split, Zenon DEF Take, RXC1
  <2> QED
    BY <1>f, <2>1, <2>2, Zenon DEF Before
<1>6. CASE Reset
  BY <1>6, Zenon DEF Reset
<1>7. CASE Drain
  <2>1. UNCHANGED <<mark, idx, buffer>> /\ pc = "drain"
    BY <1>7, Zenon DEF Drain
  <2>2. pc' # "drain" => UDR1' = <<>>
    BY <1>7, Zenon DEF Drain, RXC1
  <2> QED
    BY <1>f, <2>1, <2>2, Empty DEF Before
<1>8. CASE ISR
  <2>1. Bytes(UDR1) = Bytes(UDR1') \union {Head(UDR1)} /\ Head(UDR1) \in Nat
    BY <1>d, <1>8, IsrStep, Split, Zenon DEF RXC1
  <2>2. pc' = pc /\ mark' = mark /\ At \in 0 .. IndexMod - 1 /\ At <= idx
    BY <1>8, <1>t, IsrStep DEF Ranges, At
  <2>3. CASE idx' = At /\ buffer' = buffer
    BY <1>t, <1>f, <2>1, <2>2, <2>3 DEF At, Ranges, Before
  <2>4. CASE idx' = At + 1 /\ buffer' = [buffer EXCEPT ![At] = Head(UDR1)] /\ pc # "drain"
    <3>1. \A i \in 0 .. At : buffer'[i] = IF i = At THEN Head(UDR1) ELSE buffer[i]
      BY <1>d, <2>2, <2>4
    <3>2. mark < Head(UDR1)
      BY <1>f, <2>1, <2>4, Zenon DEF Before
    <3> QED
      BY <1>t, <1>f, <2>1, <2>2, <2>4, <3>1, <3>2 DEF Ranges, Before
  <2> QED
    BY <1>8, <2>3, <2>4, IsrStep, Zenon
<1>9. CASE Arrive
  <2>1. /\ UNCHANGED <<pc, idx, buffer, mark>>
        /\ UDR1' = UDR1 \/ UDR1' = Append(UDR1, arrived + 1)
    BY <1>9, Zenon DEF Arrive
  <2>2. Bytes(UDR1') \subseteq Bytes(UDR1) \union {arrived + 1}
    <3>1. arrived + 1 \in Nat
      BY <1>d
    <3> QED
      BY <1>d, <2>1, <3>1, Appended, Zenon
  <2> QED
    BY <1>d, <1>f, <2>1, <2>2 DEF Before
<1> QED
  BY <1>1, <1>2, <1>3, <1>4, <1>5, <1>6, <1>7, <1>8, <1>9, Zenon DEF Next

\* How a chain changes when a call returns, when bytes leave the register for
\* nobody, for the buffer or for a caller, and when the buffer shrinks.
LEMMA ChainMoves ==
    ASSUME NEW t \in Seq(Nat), NEW d \in Seq(Nat), NEW S, NEW u \in Seq(Nat), NEW a, Chain(t, d, S, u, a)
    PROVE  /\ Chain(t \o d, <<>>, S, u, a)
           /\ \A T : T \subseteq S => Chain(t, d, T, u, a)
           /\ u # <<>> => /\ Chain(t, d, S, Tail(u), a)
                          /\ Chain(t, d, S \union {Head(u)}, Tail(u), a)
                          /\ S = {} => Chain(t, Append(d, Head(u)), S, Tail(u), a)
<1>1. Chain(t \o d, <<>>, S, u, a)
  BY Joined, Empty, Zenon DEF Chain, Before
<1>2. ASSUME NEW T, T \subseteq S
      PROVE  Chain(t, d, T, u, a)
  BY <1>2, Zenon DEF Chain, Before
<1>3. ASSUME u # <<>>
      PROVE  /\ Chain(t, d, S, Tail(u), a)
             /\ Chain(t, d, S \union {Head(u)}, Tail(u), a)
             /\ S = {} => Chain(t, Append(d, Head(u)), S, Tail(u), a)
  <2>1. /\ Head(u) \in Nat /\ Tail(u) \in Seq(Nat)
        /\ Bytes(u) = Bytes(Tail(u)) \union {Head(u)}
        /\ Increasing(Tail(u)) /\ Before({Head(u)}, Bytes(Tail(u)))
    BY <1>3, Split, Zenon DEF Chain
  <2>2. Chain(t, d, S, Tail(u), a)
    BY <2>1, Zenon DEF Chain, Before
  <2>3. Chain(t, d, S \union {Head(u)}, Tail(u), a)
    BY <2>1, Zenon DEF Chain, Before
  <2>4. ASSUME S = {}
        PROVE  Chain(t, Append(d, Head(u)), S, Tail(u), a)
    <3>1. Before(Bytes(d), {Head(u)})
      BY <2>1, Zenon DEF Chain, Before
    <3>2. Increasing(Append(d, Head(u))) /\ Bytes(Append(d, Head(u))) = Bytes(d) \union {Head(u)}
      BY <2>1, <3>1, Appended, Zenon DEF Chain
    <3> QED
      BY <2>1, <2>4, <3>2, Zenon DEF Chain, Before
  <2> QED
    BY <2>2, <2>3, <2>4, Zenon
<1> QED
  BY <1>1, <1>2, <1>3, Zenon

\* How a chain changes when some bytes of S are copied for a caller.
LEMMA ChainCopy ==
    ASSUME NEW t, NEW d, NEW S, NEW T, NEW u, NEW a, Chain(t, <<>>, S, u, a),
           Bytes(d) \union T = S, Increasing(d), Before(Bytes(d), T)
    PROVE  Chain(t, d, T, u, a)
<1>1. /\ Increasing(t) /\ Increasing(u) /\ Before(Bytes(t), S)
      /\ Before(Bytes(t) \union S, Bytes(u)) /\ Before(Bytes(t) \union S \union Bytes(u), {a + 1})
  BY Empty, Zenon DEF Chain
<1> QED
  BY <1>1, Zenon DEF Chain, Before

\* Which cells of the buffer hold bytes that are still to be read, by the
\* statement that uart0_read is at, before and after a step.
LEMMA LiveCells ==
    /\ pc \in {"advance", "clear"} => Live = n .. idx - 1
    /\ pc = "move" => Live = length .. idx - 1
    /\ pc \in {"load", "store"} => Live = (0 .. n - length - 1) \union (n .. idx - 1)
    /\ pc \notin {"advance", "clear", "move", "load", "store"} => Live = 0 .. idx - 1
    /\ pc' \in {"advance", "clear"} => Live' = n' .. idx' - 1
    /\ pc' = "move" => Live' = length' .. idx' - 1
    /\ pc' \in {"load", "store"} => Live' = (0 .. n' - length' - 1) \union (n' .. idx' - 1)
    /\ pc' \notin {"advance", "clear", "move", "load", "store"} => Live' = 0 .. idx' - 1
BY Zenon DEF Live

\* They are cells of the array.
LEMMA LiveRange ==
    ASSUME Inv
    PROVE  \A i \in Live : i \in 0 .. IndexMod - 1
BY UartAssumption, LiveCells DEF Inv, Ranges

\* memcpy splits the live cells into those it has copied and the rest.
LEMMA CopyCells ==
    ASSUME Inv, Data, Copy, "torn" \notin harm
    PROVE  /\ dst = <<>> /\ dst' \in Seq(Nat) /\ Bytes(dst') \union Buffered' = Buffered
           /\ Sorted => Increasing(dst') /\ Sorted' /\ Before(Bytes(dst'), Buffered')
<1> USE UartAssumption
<1>t. Ranges /\ ShortRead
  BY Zenon DEF Inv, IndexInv
<1>1. PICK k \in {n, length} :
           /\ pc' \in {"advance", "move"} /\ dst' = First(k) /\ UNCHANGED <<idx, buffer, length, n>>
           /\ pc' = "advance" => pc = "all" /\ k = n
           /\ pc' = "move" => pc = "part" /\ k = length
  BY Zenon DEF Copy
<1>2. k \in 0 .. IndexMod - 1 /\ k <= idx /\ idx \in Nat
  BY <1>t, <1>1 DEF Ranges, ShortRead
<1>3. Live = 0 .. idx - 1 /\ Live' = k .. idx - 1
  BY <1>1, LiveCells, Zenon
<1>4. /\ dst' \in Seq(Nat) /\ Len(dst') = k /\ \A i \in 1 .. k : dst'[i] = buffer[i - 1]
      /\ Bytes(dst') = {buffer[i] : i \in 0 .. k - 1}
  BY <1>1, <1>2, FirstBytes, Zenon
<1>5. Bytes(dst') \union Buffered' = Buffered
  BY <1>1, <1>2, <1>3, <1>4 DEF Buffered
<1>6. ASSUME Sorted
      PROVE  Increasing(dst') /\ Sorted' /\ Before(Bytes(dst'), Buffered')
  <2>1. ASSUME NEW i \in 0 .. idx - 1, NEW j \in 0 .. idx - 1, i < j
        PROVE  buffer[i] < buffer[j]
    BY <1>3, <1>6, <2>1, Zenon DEF Sorted
  <2>2. Increasing(dst')
    <3> SUFFICES ASSUME NEW i \in 1 .. k, NEW j \in 1 .. k, i < j
                 PROVE  dst'[i] < dst'[j]
      BY <1>4, Zenon DEF Increasing
    <3>1. i - 1 \in 0 .. idx - 1 /\ j - 1 \in 0 .. idx - 1 /\ i - 1 < j - 1
      BY <1>2
    <3>2. buffer[i - 1] < buffer[j - 1]
      BY <2>1, <3>1, Zenon
    <3> QED
      BY <1>4, <3>2, Zenon
  <2>3. Sorted'
    BY <1>1, <1>2, <1>3, <2>1 DEF Sorted
  <2>4. Before(Bytes(dst'), Buffered')
    BY <1>1, <1>2, <1>3, <1>4, <2>1 DEF Before, Buffered
  <2> QED
    BY <2>2, <2>3, <2>4, Zenon
<1> QED
  BY <1>1, <1>4, <1>5, <1>6, Zenon DEF Copy, Data

\* memmove keeps the live bytes and their order.
LEMMA MoveCells ==
    ASSUME Inv, Data, Move, "torn" \notin harm
    PROVE  Buffered' = Buffered /\ (Sorted => Sorted')
<1> USE UartAssumption
<1>t. Ranges /\ ShortRead /\ pc = "move"
  BY Zenon DEF Inv, IndexInv, Move
<1>1. length < n /\ n <= idx /\ n \in Nat /\ length \in Nat /\ idx \in Nat /\ idx < IndexMod
  BY <1>t DEF Ranges, ShortRead
<1>2. PICK m \in {n, idx} :
           /\ n' = m /\ pc' = "load" /\ UNCHANGED <<idx, length>>
           /\ buffer' = [i \in DOMAIN buffer |-> IF i < m - length THEN buffer[i + length] ELSE buffer[i]]
  BY <1>1 DEF Move
<1>3. /\ Live = length .. idx - 1
      /\ Live' = (0 .. m - length - 1) \union (m .. idx - 1)
  BY <1>t, <1>2, LiveCells, Zenon
<1> DEFINE from(i) == IF i < m - length THEN i + length ELSE i
<1>4. ASSUME NEW i \in Live'
      PROVE  from(i) \in Live /\ buffer'[i] = buffer[from(i)]
  <2>1. i \in 0 .. IndexMod - 1 /\ from(i) \in Live
    BY <1>1, <1>2, <1>3
  <2>2. i \in DOMAIN buffer
    BY <2>1, Zenon DEF Data
  <2> QED
    BY <1>2, <2>1, <2>2, Zenon
<1>5. ASSUME NEW j \in Live
      PROVE  \E i \in Live' : from(i) = j
  <2>1. CASE j < m
    <3>1. j - length \in Live' /\ from(j - length) = j
      BY <1>1, <1>2, <1>3, <2>1
    <3> QED
      BY <3>1, Zenon
  <2>2. CASE j >= m
    <3>1. j \in Live' /\ from(j) = j
      BY <1>1, <1>2, <1>3, <2>2
    <3> QED
      BY <3>1, Zenon
  <2> QED
    BY <1>1, <1>2, <1>3, <2>1, <2>2
<1>6. ASSUME NEW i \in Live', NEW j \in Live', i < j
      PROVE  from(i) < from(j)
  BY <1>1, <1>2, <1>3, <1>6
<1> HIDE DEF from
<1>7. Buffered' = Buffered
  <2>1. Buffered' \subseteq Buffered
    BY <1>4, Zenon DEF Buffered
  <2>2. ASSUME NEW j \in Live
        PROVE  buffer[j] \in Buffered'
    <3>1. PICK i \in Live' : from(i) = j
      BY <1>5, Zenon
    <3>2. buffer'[i] = buffer[j]
      BY <1>4, <3>1, Zenon
    <3> QED
      BY <3>2, Zenon DEF Buffered
  <2> QED
    BY <2>1, <2>2, Zenon DEF Buffered
<1>8. Sorted => Sorted'
  BY <1>4, <1>6, Zenon DEF Sorted
<1> QED
  BY <1>7, <1>8, Zenon

\* The interrupt adds its byte to the live ones or leaves them alone, unless it
\* starts a full buffer again, which forgets them.
LEMMA IsrCells ==
    ASSUME Inv, Data, ISR, "torn" \notin harm'
    PROVE  /\ \/ Buffered' \subseteq Buffered \union {Head(UDR1)} /\ gone' = gone
              \/ Buffered' \subseteq Buffered /\ gone' = gone \union {Head(UDR1)}
           /\ "wrap" \notin harm' => Buffered' \union gone' = Buffered \union gone \union {Head(UDR1)}
           /\ Sorted /\ Before(Buffered, {Head(UDR1)}) => Sorted'
<1> USE UartAssumption
<1>0. "torn" \notin harm
  BY HarmGrows, Zenon DEF Next
<1>t. Ranges /\ ShortRead /\ idx <= Size
  BY <1>0, Zenon DEF Inv, IndexInv
<1>1. /\ At \in 0 .. Size - 1 /\ (pc # "idle" => At = idx) /\ UNCHANGED <<pc, length, n>>
      /\ idx = Size => "wrap" \in harm'
  BY IsrStep, Zenon
<1>2. At = idx \/ (At = 0 /\ pc = "idle" /\ "wrap" \in harm')
  BY <1>1, Zenon DEF At
<1>3. idx \in Nat /\ n \in Nat /\ length \in Nat
  BY <1>t DEF Ranges
<1>4. \A i \in Live : i \in 0 .. IndexMod - 1 /\ (At = idx => i # At)
  BY <1>t, <1>3, LiveCells DEF ShortRead, Ranges
<1>5. CASE idx' = At /\ buffer' = buffer /\ gone' = gone \union {Head(UDR1)}
  <2>1. Live' \subseteq Live /\ (At = idx => Live' = Live)
    <3>1. CASE At = idx
      BY <1>1, <1>5, <3>1, Zenon DEF Live
    <3>2. CASE At = 0 /\ pc = "idle"
      <4>1. Live' = {}
        BY <1>1, <1>5, <3>2, LiveCells
      <4>2. Live = 0 .. idx - 1
        BY <3>2, LiveCells, Zenon
      <4> QED
        BY <1>3, <3>2, <4>1, <4>2
    <3> QED
      BY <1>2, <3>1, <3>2, Zenon
  <2> QED
    BY <1>2, <1>5, <2>1, Zenon DEF Buffered, Sorted
<1>6. CASE idx' = At + 1 /\ buffer' = [buffer EXCEPT ![At] = Head(UDR1)] /\ gone' = gone
  <2>1. /\ Live' \subseteq Live \union {At} /\ (At = idx => Live' = Live \union {At})
        /\ \A i \in Live' : i <= At /\ (At # idx => i = At)
    BY <1>t, <1>1, <1>2, <1>3, <1>6, LiveCells DEF ShortRead
  <2>2. At \in 0 .. IndexMod - 1
    BY <1>1
  <2>3. \A i \in 0 .. IndexMod - 1 : buffer'[i] = IF i = At THEN Head(UDR1) ELSE buffer[i]
    BY <1>6, <2>2, Zenon DEF Data
  <2> HIDE DEF At
  <2>4. Buffered' \subseteq Buffered \union {Head(UDR1)}
    BY <1>4, <2>1, <2>2, <2>3, Zenon DEF Buffered
  <2>5. At = idx => Buffered' = Buffered \union {Head(UDR1)}
    BY <1>4, <2>1, <2>2, <2>3, Zenon DEF Buffered
  <2>6. ASSUME Sorted, Before(Buffered, {Head(UDR1)}), NEW i \in Live', NEW j \in Live', i < j
        PROVE  buffer'[i] < buffer'[j]
    <3>1. At = idx /\ i # At /\ i \in Live /\ buffer'[i] = buffer[i]
      BY <1>4, <2>1, <2>2, <2>3, <2>6, SMTT(60)
    <3>2. CASE j = At
      BY <2>2, <2>3, <2>6, <3>1, <3>2, ZenonT(60) DEF Before, Buffered
    <3>3. CASE j # At
      BY <1>4, <2>1, <2>3, <2>6, <3>1, <3>3, ZenonT(60) DEF Sorted
    <3> QED
      BY <3>2, <3>3, Zenon
  <2> QED
    BY <1>2, <1>6, <2>4, <2>5, <2>6, ZenonT(60) DEF Sorted
<1> QED
  BY <1>5, <1>6, IsrStep, Zenon

\* The steps that neither move a byte nor change which cells are live.
LEMMA QuietCells ==
    ASSUME Inv, Data,
           \/ \E l \in Lengths : Read(l)
           \/ Advance /\ "gap" \notin harm'
           \/ Load /\ "hole" \notin harm'
    PROVE  UNCHANGED <<taken, dst, UDR1, arrived, gone, buffer, Live>>
<1>1. CASE \E l \in Lengths : Read(l)
  <2>1. /\ pc \notin {"advance", "clear", "move", "load", "store"}
        /\ pc' \notin {"advance", "clear", "move", "load", "store"} /\ idx' = idx
    BY <1>1, Zenon DEF Read
  <2> QED
    BY <1>1, <2>1, LiveCells, Zenon DEF Read
<1>2. CASE Advance /\ "gap" \notin harm'
  <2>1. /\ UNCHANGED <<taken, UDR1, arrived, gone, buffer, idx, n>> /\ pc = "advance" /\ pc' = "clear"
        /\ dst' = [i \in 1 .. n |-> IF i <= n THEN dst[i] ELSE 0]
    BY <1>2, Zenon DEF Advance, Harms
  <2>2. dst' = dst
    <3>1. dst \in Seq(Nat) /\ Len(dst) = n
      BY <2>1, Zenon DEF Data
    <3> QED
      BY <2>1, <3>1
  <2> QED
    BY <2>1, <2>2, LiveCells, Zenon
<1>3. CASE Load /\ "hole" \notin harm'
  <2>1. /\ UNCHANGED <<taken, dst, UDR1, arrived, gone, buffer, idx, length, n>>
        /\ pc = "load" /\ pc' = "store"
    BY <1>3, Zenon DEF Load, Harms
  <2> QED
    BY <2>1, LiveCells, Zenon
<1> QED
  BY <1>1, <1>2, <1>3, Zenon

\* A short read ends with the cells that were moved.
LEMMA StoreCells ==
    ASSUME Inv, Data, Store, "torn" \notin harm
    PROVE  /\ buffer' = buffer /\ Live' \subseteq Live /\ ("update" \notin harm' => Live' = Live)
           /\ dst' = <<>> /\ taken' = taken \o dst /\ UNCHANGED <<UDR1, arrived, gone>>
<1> USE UartAssumption
<1>1. /\ pc = "store" /\ pc' = "idle" /\ idx' = (n - length) % IndexMod
      /\ dst' = <<>> /\ taken' = taken \o dst /\ UNCHANGED <<UDR1, arrived, gone, buffer>>
      /\ "update" \notin harm' => idx = n
  BY Zenon DEF Store, Return, Harms
<1>2. n \in Nat /\ idx \in Nat /\ length \in Nat /\ n - length \in 0 .. IndexMod - 1 /\ n <= idx
  BY <1>1 DEF Inv, Ranges, IndexInv, ShortRead
<1>3. idx' = n - length
  <2>1. IndexMod \in Nat \ {0}
    OBVIOUS
  <2> QED
    BY <1>1, <1>2, <2>1, InRange, Zenon
<1>4. Live = (0 .. n - length - 1) \union (n .. idx - 1) /\ Live' = 0 .. n - length - 1
  BY <1>1, <1>3, LiveCells, Zenon
<1> QED
  BY <1>1, <1>2, <1>4

\* The other steps leave the cells alone or empty the buffer.
LEMMA OtherCells ==
    /\ Clear \/ Reset => Live' = {}
    /\ Clear /\ "discard" \notin harm' /\ Inv => Live = {}
    /\ Reset => Live = 0 .. idx - 1
    /\ Poll \/ Take \/ Drain \/ Arrive => buffer' = buffer /\ Live' = Live
    /\ Take /\ idx = 0 => Live = {}
<1>1. Clear \/ Reset => Live' = {}
  <2>1. Clear \/ Reset => idx' = 0 /\ pc' \in {"idle", "poll", "drain"}
    BY LoopLeft, Zenon DEF Clear, Reset
  <2> QED
    BY <2>1, LiveCells
<1>2. Clear /\ "discard" \notin harm' /\ Inv => Live = {}
  <2>1. Clear /\ "discard" \notin harm' => idx = n /\ pc = "clear"
    BY Zenon DEF Clear, Harms
  <2>2. Inv => n \in Nat
    BY UartAssumption DEF Inv, Ranges
  <2> QED
    BY <2>1, <2>2, LiveCells
<1>3. Reset => Live = 0 .. idx - 1
  BY LiveCells, Zenon DEF Reset
<1>4. Poll \/ Take \/ Drain \/ Arrive => buffer' = buffer /\ Live' = Live
  <2>1. CASE Poll \/ Take \/ Drain
    <3>1. /\ buffer' = buffer /\ idx' = idx /\ pc \in {"poll", "take", "drain"}
          /\ pc' \in {"idle", "poll", "take", "drain"}
      BY <2>1, LoopLeft, Zenon DEF Poll, Take, Drain, Return
    <3> QED
      BY <3>1, LiveCells, Zenon
  <2>2. CASE Arrive
    BY <2>2, Zenon DEF Arrive, Live
  <2> QED
    BY <2>1, <2>2, Zenon
<1>5. Take /\ idx = 0 => Live = {}
  BY LiveCells DEF Take
<1> QED
  BY <1>1, <1>2, <1>3, <1>4, <1>5, Zenon

\* A byte that was polled goes to the caller, one that arrives to the register.
LEMMA TakeBytes ==
    ASSUME Data, Take, "stale" \notin harm', "overtake" \notin harm'
    PROVE  /\ UDR1 # <<>> /\ UDR1' = Tail(UDR1) /\ idx = 0 /\ UNCHANGED <<arrived, gone>>
           /\ Append(dst, Head(UDR1)) \in Seq(Nat)
           /\ \/ dst' = <<>> /\ taken' = taken \o Append(dst, Head(UDR1))
              \/ dst' = Append(dst, Head(UDR1)) /\ taken' = taken
<1>1. /\ UDR1 # <<>> /\ UDR1' = Tail(UDR1) /\ idx = 0 /\ UNCHANGED <<arrived, gone>>
      /\ Loop(length - 1, Append(dst, Head(UDR1)))
  BY Zenon DEF Take, RXC1
<1>2. Append(dst, Head(UDR1)) \in Seq(Nat)
  BY <1>1, Split, Appended, Zenon DEF Data
<1> QED
  BY <1>1, <1>2, LoopStores, Zenon

\* A byte that arrives is put behind the others in the register, or is lost in
\* an overrun.
LEMMA ArriveBytes ==
    ASSUME Data, Arrive
    PROVE  /\ UNCHANGED <<taken, dst, gone>> /\ arrived' = arrived + 1 /\ arrived + 1 \in Nat
           /\ \/ UDR1' = UDR1 /\ "overrun" \in harm'
              \/ UDR1' = Append(UDR1, arrived + 1)
<1>1. /\ UNCHANGED <<taken, dst, gone>> /\ arrived' = arrived + 1 /\ arrived + 1 \in Nat
      /\ Len(UDR1) \in Nat /\ Len(UDR1) <= Depth
      /\ UDR1' = IF Len(UDR1) < Depth THEN Append(UDR1, arrived + 1) ELSE UDR1
      /\ Harms("overrun", Len(UDR1) = Depth)
  BY DEF Arrive, Data
<1> QED
  BY <1>1, UartAssumption DEF Harms, Data

\* Every step keeps the bytes in order.
LEMMA OrderedStep ==
    ASSUME Inv, Data, Ordered, Next
    PROVE  Ordered'
<1> USE UartAssumption
<1> DEFINE Bad == {"gap", "hole", "stale", "overtake", "torn"}
<1> SUFFICES ASSUME harm' \intersect Bad = {}
             PROVE  Chain(taken', dst', Buffered', UDR1', arrived') /\ Sorted'
  BY ZenonT(60) DEF Ordered, Chain, Increasing, Bytes
<1>h. harm \intersect Bad = {} /\ "torn" \notin harm /\ "torn" \notin harm'
  BY HarmGrows, Zenon
<1>d. UDR1 \in Seq(Nat) /\ dst \in Seq(Nat) /\ taken \in Seq(Nat) /\ arrived \in Nat
  BY Zenon DEF Data
<1>o. Chain(taken, dst, Buffered, UDR1, arrived) /\ Sorted
  BY <1>h, Zenon DEF Ordered
<1>s. ASSUME buffer' = buffer, Live' \subseteq Live
      PROVE  Buffered' \subseteq Buffered /\ Sorted'
  BY <1>o, <1>s, Zenon DEF Buffered, Sorted
<1>1. CASE (\E l \in Lengths : Read(l)) \/ Advance \/ Load
  <2>1. UNCHANGED <<taken, dst, UDR1, arrived, buffer, Live>>
    BY <1>1, QuietCells, Zenon
  <2> QED
    BY <1>o, <2>1, Zenon DEF Buffered, Sorted
<1>2. CASE Copy
  <2>1. /\ dst = <<>> /\ dst' \in Seq(Nat) /\ Bytes(dst') \union Buffered' = Buffered
        /\ Increasing(dst') /\ Sorted' /\ Before(Bytes(dst'), Buffered')
    BY <1>h, <1>o, <1>2, CopyCells, Zenon
  <2>2. UNCHANGED <<taken, UDR1, arrived>>
    BY <1>2, Zenon DEF Copy
  <2> QED
    BY <1>o, <2>1, <2>2, ChainCopy, Zenon
<1>3. CASE Clear
  <2>1. Live' = {} /\ UNCHANGED <<buffer, UDR1, arrived>>
    BY <1>3, OtherCells, Zenon DEF Clear
  <2>2. Buffered' \subseteq Buffered /\ Sorted'
    BY <1>s, <2>1, Zenon
  <2>3. \/ dst' = <<>> /\ taken' = taken \o dst
        \/ dst' = dst /\ taken' = taken
    <3>1. Loop(length, dst)
      BY <1>3, Zenon DEF Clear
    <3> QED
      BY <1>d, <3>1, LoopStores, Zenon
  <2>4. Chain(taken, dst, Buffered', UDR1, arrived)
    BY <1>d, <1>o, <2>2, ChainMoves, Zenon
  <2>5. Chain(taken \o dst, <<>>, Buffered', UDR1, arrived)
    BY <1>d, <2>4, ChainMoves, Zenon
  <2> QED
    BY <2>1, <2>2, <2>3, <2>4, <2>5, Zenon
<1>4. CASE Move
  <2>1. Buffered' = Buffered /\ Sorted'
    BY <1>h, <1>o, <1>4, MoveCells, Zenon
  <2> QED
    BY <1>o, <1>4, <2>1, Zenon DEF Move
<1>5. CASE Store
  <2>1. /\ buffer' = buffer /\ Live' \subseteq Live
        /\ dst' = <<>> /\ taken' = taken \o dst /\ UNCHANGED <<UDR1, arrived>>
    BY <1>h, <1>5, StoreCells, Zenon
  <2>2. Buffered' \subseteq Buffered /\ Sorted'
    BY <1>s, <2>1, Zenon
  <2>3. Chain(taken, dst, Buffered', UDR1, arrived)
    BY <1>d, <1>o, <2>2, ChainMoves, Zenon
  <2> QED
    BY <1>d, <2>1, <2>2, <2>3, ChainMoves, Zenon
<1>6. CASE Poll
  <2>1. /\ buffer' = buffer /\ Live' = Live /\ UNCHANGED <<UDR1, arrived>>
        /\ \/ dst' = dst /\ taken' = taken
           \/ dst' = <<>> /\ taken' = taken \o dst
    BY <1>6, OtherCells, Zenon DEF Poll, Return
  <2>2. Buffered' = Buffered /\ Sorted'
    BY <1>o, <2>1, Zenon DEF Buffered, Sorted
  <2>3. Chain(taken \o dst, <<>>, Buffered, UDR1, arrived)
    BY <1>d, <1>o, ChainMoves, Zenon
  <2> QED
    BY <1>o, <2>1, <2>2, <2>3, Zenon
<1>7. CASE Take
  <2>1. /\ UDR1 # <<>> /\ UDR1' = Tail(UDR1) /\ arrived' = arrived
        /\ Append(dst, Head(UDR1)) \in Seq(Nat)
        /\ \/ dst' = <<>> /\ taken' = taken \o Append(dst, Head(UDR1))
           \/ dst' = Append(dst, Head(UDR1)) /\ taken' = taken
    BY <1>7, TakeBytes, Zenon
  <2>2. Buffered = {} /\ Buffered' = {} /\ Sorted'
    <3>1. Live = {} /\ Live' = {}
      BY <1>7, TakeBytes, OtherCells, Zenon
    <3> QED
      BY <3>1, Zenon DEF Buffered, Sorted
  <2>3. Chain(taken, Append(dst, Head(UDR1)), {}, Tail(UDR1), arrived) /\ Tail(UDR1) \in Seq(Nat)
    BY <1>d, <1>o, <2>1, <2>2, ChainMoves, Split, Zenon
  <2>4. Chain(taken \o Append(dst, Head(UDR1)), <<>>, {}, Tail(UDR1), arrived)
    BY <1>d, <2>1, <2>3, ChainMoves, Zenon
  <2> QED
    BY <2>1, <2>2, <2>3, <2>4, Zenon
<1>8. CASE Reset
  <2>1. Live' = {} /\ UNCHANGED <<taken, dst, UDR1, arrived, buffer>>
    BY <1>8, OtherCells, Zenon DEF Reset
  <2>2. Buffered' \subseteq Buffered /\ Sorted'
    BY <1>s, <2>1, Zenon
  <2> QED
    BY <1>d, <1>o, <2>1, <2>2, ChainMoves, Zenon
<1>9. CASE Drain
  <2>1. /\ buffer' = buffer /\ Live' = Live /\ UNCHANGED <<taken, dst, arrived>>
        /\ \/ UDR1' = UDR1
           \/ UDR1 # <<>> /\ UDR1' = Tail(UDR1)
    BY <1>9, OtherCells, Zenon DEF Drain, RXC1
  <2>2. Buffered' = Buffered /\ Sorted'
    BY <1>o, <2>1, Zenon DEF Buffered, Sorted
  <2> QED
    BY <1>d, <1>o, <2>1, <2>2, ChainMoves, ZenonT(60)
<1>10. CASE ISR
  <2>1. UDR1 # <<>> /\ UDR1' = Tail(UDR1) /\ UNCHANGED <<taken, dst, arrived>> /\ UDR1' \in Seq(Nat)
    BY <1>h, <1>d, <1>10, IsrStep, Split, Zenon DEF RXC1
  <2>2. Before(Buffered, {Head(UDR1)})
    BY <1>d, <1>o, <2>1, Split DEF Chain, Before
  <2>3. Buffered' \subseteq Buffered \union {Head(UDR1)} /\ Sorted'
    BY <1>h, <1>o, <1>10, <2>2, IsrCells, Zenon
  <2>4. Chain(taken, dst, Buffered \union {Head(UDR1)}, Tail(UDR1), arrived)
    BY <1>d, <1>o, <2>1, ChainMoves, Zenon
  <2>5. Chain(taken, dst, Buffered', UDR1', arrived)
    BY <1>d, <2>1, <2>3, <2>4, ChainMoves, Zenon
  <2> QED
    BY <2>1, <2>3, <2>5, Zenon
<1>11. CASE Arrive
  <2>1. buffer' = buffer /\ Live' = Live
    BY <1>11, OtherCells, Zenon
  <2>2. Buffered' = Buffered /\ Sorted'
    BY <1>o, <2>1, Zenon DEF Buffered, Sorted
  <2>3. /\ UNCHANGED <<taken, dst>> /\ arrived' = arrived + 1 /\ arrived + 1 \in Nat
        /\ UDR1' = UDR1 \/ UDR1' = Append(UDR1, arrived + 1)
    BY <1>11, ArriveBytes, Zenon
  <2>4. Increasing(UDR1') /\ Bytes(UDR1') \subseteq Bytes(UDR1) \union {arrived + 1}
    <3>1. Increasing(UDR1) /\ Before(Bytes(UDR1), {arrived + 1})
      BY <1>o, Zenon DEF Chain, Before
    <3>2. /\ Increasing(Append(UDR1, arrived + 1))
          /\ Bytes(Append(UDR1, arrived + 1)) = Bytes(UDR1) \union {arrived + 1}
      BY <1>d, <2>3, <3>1, Appended, Zenon
    <3> QED
      BY <2>3, <3>1, <3>2, Zenon
  <2>5. \A x \in Bytes(taken) \union Bytes(dst) \union Buffered \union Bytes(UDR1) : x < arrived + 1
    BY <1>o, Zenon DEF Chain, Before
  <2>6. \A x \in Bytes(taken) \union Bytes(dst) \union Buffered \union Bytes(UDR1) : x \in Nat
    <3>1. \A i \in Live : i \in 0 .. IndexMod - 1
      BY LiveRange, Zenon
    <3>2. \A x \in Buffered : x \in Nat
      BY <3>1, Zenon DEF Buffered, Data
    <3>3. \A x \in Bytes(taken) \union Bytes(dst) \union Bytes(UDR1) : x \in Nat
      BY <1>d DEF Bytes
    <3> QED
      BY <3>2, <3>3, Zenon
  <2>7. Before(Bytes(taken) \union Bytes(dst) \union Buffered \union Bytes(UDR1'), {arrived' + 1})
    BY <1>d, <2>3, <2>4, <2>5, <2>6 DEF Before
  <2>8. Before(Bytes(taken) \union Bytes(dst) \union Buffered, Bytes(UDR1'))
    BY <1>o, <2>4, <2>5, Zenon DEF Chain, Before
  <2> QED
    BY <1>o, <2>2, <2>3, <2>4, <2>7, <2>8, ZenonT(60) DEF Chain
<1> QED
  BY <1>1, <1>2, <1>3, <1>4, <1>5, <1>6, <1>7, <1>8, <1>9, <1>10, <1>11, Zenon DEF Next

\* Every step moves bytes from one place to another, and loses none.
LEMMA KeptStep ==
    ASSUME Inv, Data, Kept, Next
    PROVE  Kept'
<1> USE UartAssumption
<1> SUFFICES ASSUME harm' \subseteq {"late"}
             PROVE  Bytes(taken') \union Bytes(dst') \union Buffered' \union Bytes(UDR1') \union gone'
                        = 1 .. arrived'
  BY Zenon DEF Kept, Bytes
<1>h. harm \subseteq {"late"} /\ "torn" \notin harm /\ "torn" \notin harm'
  BY HarmGrows, Zenon
<1>d. UDR1 \in Seq(Nat) /\ dst \in Seq(Nat) /\ taken \in Seq(Nat) /\ arrived \in Nat
  BY Zenon DEF Data
<1>k. Bytes(taken) \union Bytes(dst) \union Buffered \union Bytes(UDR1) \union gone = 1 .. arrived
  BY <1>h, Zenon DEF Kept
<1>r. Bytes(taken \o dst) = Bytes(taken) \union Bytes(dst) /\ Bytes(<<>>) = {}
  BY <1>d, Joined, Empty, Zenon
<1>u. UDR1 # <<>> => Bytes(UDR1) = Bytes(Tail(UDR1)) \union {Head(UDR1)} /\ Head(UDR1) \in Nat
  BY <1>d, Split, Zenon
<1>1. CASE (\E l \in Lengths : Read(l)) \/ Advance \/ Load
  <2>1. UNCHANGED <<taken, dst, UDR1, arrived, gone, buffer, Live>>
    BY <1>1, QuietCells, Zenon
  <2> QED
    BY <1>k, <2>1, Zenon DEF Buffered
<1>2. CASE Copy
  <2>1. dst = <<>> /\ Bytes(dst') \union Buffered' = Buffered
    BY <1>h, <1>2, CopyCells, Zenon
  <2>2. UNCHANGED <<taken, UDR1, arrived, gone>>
    BY <1>2, Zenon DEF Copy
  <2> QED
    BY <1>k, <1>r, <2>1, <2>2, Zenon
<1>3. CASE Clear
  <2>1. Live = {} /\ Live' = {} /\ UNCHANGED <<UDR1, arrived, gone>> /\ Loop(length, dst)
    BY <1>3, OtherCells, Zenon DEF Clear
  <2>2. Buffered = {} /\ Buffered' = {}
    BY <2>1, Zenon DEF Buffered
  <2>3. \/ dst' = <<>> /\ taken' = taken \o dst
        \/ dst' = dst /\ taken' = taken
    BY <1>d, <2>1, LoopStores, Zenon
  <2> QED
    BY <1>k, <1>r, <2>1, <2>2, <2>3, Zenon
<1>4. CASE Move
  <2>1. Buffered' = Buffered
    BY <1>h, <1>4, MoveCells, Zenon
  <2> QED
    BY <1>k, <1>4, <2>1, Zenon DEF Move
<1>5. CASE Store
  <2>1. /\ buffer' = buffer /\ Live' = Live
        /\ dst' = <<>> /\ taken' = taken \o dst /\ UNCHANGED <<UDR1, arrived, gone>>
    BY <1>h, <1>5, StoreCells, Zenon
  <2>2. Buffered' = Buffered
    BY <2>1, Zenon DEF Buffered
  <2> QED
    BY <1>k, <1>r, <2>1, <2>2, Zenon
<1>6. CASE Poll
  <2>1. /\ buffer' = buffer /\ Live' = Live /\ UNCHANGED <<UDR1, arrived, gone>>
        /\ \/ dst' = dst /\ taken' = taken
           \/ dst' = <<>> /\ taken' = taken \o dst
    BY <1>6, OtherCells, Zenon DEF Poll, Return
  <2>2. Buffered' = Buffered
    BY <2>1, Zenon DEF Buffered
  <2> QED
    BY <1>k, <1>r, <2>1, <2>2, Zenon
<1>7. CASE Take
  <2> DEFINE d == Append(dst, Head(UDR1))
  <2>1. /\ UDR1 # <<>> /\ UDR1' = Tail(UDR1) /\ UNCHANGED <<arrived, gone>> /\ d \in Seq(Nat)
        /\ \/ dst' = <<>> /\ taken' = taken \o d
           \/ dst' = d /\ taken' = taken
    BY <1>7, TakeBytes, Zenon
  <2>2. buffer' = buffer /\ Live' = Live
    BY <1>7, OtherCells, Zenon
  <2>3. Buffered' = Buffered
    BY <2>2, Zenon DEF Buffered
  <2>4. Bytes(d) = Bytes(dst) \union {Head(UDR1)}
    BY <1>d, <1>u, <2>1, Appended, Zenon
  <2> HIDE DEF d
  <2>5. Bytes(taken \o d) = Bytes(taken) \union Bytes(d)
    BY <1>d, <2>1, Joined, Zenon
  <2> QED
    BY <1>k, <1>r, <1>u, <2>1, <2>3, <2>4, <2>5, Zenon
<1>8. CASE Reset
  <2>1. /\ Live = 0 .. idx - 1 /\ Live' = {} /\ UNCHANGED <<taken, dst, UDR1, arrived>>
        /\ gone' = gone \union {buffer[i] : i \in 0 .. idx - 1}
    BY <1>8, OtherCells, Zenon DEF Reset
  <2>2. gone' = gone \union Buffered /\ Buffered' = {}
    BY <2>1, Zenon DEF Buffered
  <2> QED
    BY <1>k, <2>1, <2>2, Zenon
<1>9. CASE Drain
  <2>1. /\ buffer' = buffer /\ Live' = Live /\ UNCHANGED <<taken, dst, arrived>>
        /\ \/ UDR1' = UDR1 /\ gone' = gone
           \/ UDR1 # <<>> /\ UDR1' = Tail(UDR1) /\ gone' = gone \union {Head(UDR1)}
    BY <1>9, OtherCells, Zenon DEF Drain, RXC1
  <2>2. Buffered' = Buffered
    BY <2>1, Zenon DEF Buffered
  <2> QED
    BY <1>k, <1>u, <2>1, <2>2, Zenon
<1>10. CASE ISR
  <2>1. UDR1 # <<>> /\ UDR1' = Tail(UDR1) /\ UNCHANGED <<taken, dst, arrived>>
    BY <1>h, <1>10, IsrStep, Zenon DEF RXC1
  <2>2. Buffered' \union gone' = Buffered \union gone \union {Head(UDR1)}
    BY <1>h, <1>10, IsrCells, Zenon
  <2> QED
    BY <1>k, <1>u, <2>1, <2>2, Zenon
<1>11. CASE Arrive
  <2>1. buffer' = buffer /\ Live' = Live
    BY <1>11, OtherCells, Zenon
  <2>2. Buffered' = Buffered
    BY <2>1, Zenon DEF Buffered
  <2>3. /\ UNCHANGED <<taken, dst, gone>> /\ arrived' = arrived + 1 /\ arrived + 1 \in Nat
        /\ UDR1' = Append(UDR1, arrived + 1)
    BY <1>11, ArriveBytes, Zenon
  <2>4. Bytes(UDR1') = Bytes(UDR1) \union {arrived + 1}
    BY <1>d, <2>3, Appended, Zenon
  <2>5. 1 .. arrived + 1 = (1 .. arrived) \union {arrived + 1}
    BY <1>d
  <2> QED
    BY <1>k, <2>2, <2>3, <2>4, <2>5, Zenon
<1> QED
  BY <1>1, <1>2, <1>3, <1>4, <1>5, <1>6, <1>7, <1>8, <1>9, <1>10, <1>11, Zenon DEF Next

\* The invariant of the stream holds in every reachable state.
LEMMA FlowHolds == Spec => []Flow
<1>1. Init => Flow
  <2> SUFFICES ASSUME Init
               PROVE  Flow
    BY Zenon
  <2>1. Live = {} /\ Buffered = {}
    BY LiveCells DEF Init, Buffered
  <2>2. Data
    BY UartAssumption, Empty DEF Init, Data
  <2>3. Ordered
    BY <2>1, Empty, Zenon DEF Init, Ordered, Chain, Before, Sorted
  <2>4. Kept
    BY <2>1, Empty DEF Init, Kept
  <2>5. Forgotten
    BY Empty DEF Init, Forgotten, Before
  <2> QED
    BY <2>2, <2>3, <2>4, <2>5, Zenon DEF Flow
<1>2. Inv /\ Flow /\ [Next]_vars => Flow'
  <2>1. Inv /\ Flow /\ Next => Flow'
    BY DataStep, OrderedStep, KeptStep, ForgottenStep, Zenon DEF Flow
  <2>2. ASSUME Flow, UNCHANGED vars
        PROVE  Flow'
    <3>1. Live' = Live
      BY <2>2, Zenon DEF vars, Live
    <3>2. Buffered' = Buffered /\ (Sorted => Sorted')
      BY <2>2, <3>1, Zenon DEF vars, Buffered, Sorted
    <3>3. /\ Bytes(taken)' = Bytes(taken) /\ Bytes(dst)' = Bytes(dst) /\ Bytes(UDR1)' = Bytes(UDR1)
          /\ Chain(taken, dst, Buffered, UDR1, arrived)' <=> Chain(taken, dst, Buffered, UDR1, arrived)
      BY <2>2, <3>2, Zenon DEF vars, Bytes, Chain, Increasing
    <3>4. Data' /\ Ordered'
      BY <2>2, <3>2, <3>3, Zenon DEF vars, Flow, Data, Ordered
    <3>5. Kept' /\ Forgotten'
      BY <2>2, <3>2, <3>3, Zenon DEF vars, Flow, Kept, Forgotten
    <3> QED
      BY <3>4, <3>5, Zenon DEF Flow
  <2> QED
    BY <2>1, <2>2, Zenon
<1> QED
  BY <1>1, <1>2, InvHolds, PTL DEF Spec

\* In a settled state the four places make up the stream.
LEMMA StreamBytes ==
    ASSUME Inv, Data, Settled
    PROVE  /\ First(idx) \in Seq(Nat) /\ Bytes(First(idx)) = Buffered /\ (Sorted => Increasing(First(idx)))
           /\ Bytes(Stream) = Bytes(taken) \union Bytes(dst) \union Buffered \union Bytes(UDR1)
           /\ Chain(taken, dst, Buffered, UDR1, arrived) /\ Sorted => Increasing(Stream)
<1>1. idx \in 0 .. IndexMod - 1 /\ Live = 0 .. idx - 1
  BY LiveCells, Zenon DEF Inv, Ranges, Settled
<1>2. /\ First(idx) \in Seq(Nat) /\ Len(First(idx)) = idx
      /\ \A i \in 1 .. idx : First(idx)[i] = buffer[i - 1]
      /\ Bytes(First(idx)) = Buffered
  BY <1>1, FirstBytes, Zenon DEF Buffered
<1>3. ASSUME Sorted
      PROVE  Increasing(First(idx))
  <2> SUFFICES ASSUME NEW i \in 1 .. idx, NEW j \in 1 .. idx, i < j
               PROVE  First(idx)[i] < First(idx)[j]
    BY <1>2, Zenon DEF Increasing
  <2>1. i - 1 \in Live /\ j - 1 \in Live /\ i - 1 < j - 1
    BY <1>1
  <2>2. buffer[i - 1] < buffer[j - 1]
    BY <1>3, <2>1, Zenon DEF Sorted
  <2> QED
    BY <1>2, <2>2, Zenon
<1>4. UDR1 \in Seq(Nat) /\ dst \in Seq(Nat) /\ taken \in Seq(Nat)
  BY Zenon DEF Data
<1>5. /\ taken \o dst \in Seq(Nat) /\ Bytes(taken \o dst) = Bytes(taken) \union Bytes(dst)
      /\ Increasing(taken) /\ Increasing(dst) /\ Before(Bytes(taken), Bytes(dst)) => Increasing(taken \o dst)
  BY <1>4, Joined, Zenon
<1> DEFINE s == taken \o dst \o First(idx)
<1>6. /\ s \in Seq(Nat) /\ Bytes(s) = Bytes(taken) \union Bytes(dst) \union Buffered
      /\ Increasing(taken \o dst) /\ Increasing(First(idx)) /\ Before(Bytes(taken \o dst), Buffered)
            => Increasing(s)
  BY <1>2, <1>5, Joined, Zenon
<1> HIDE DEF s
<1>7. /\ Bytes(s \o UDR1) = Bytes(s) \union Bytes(UDR1)
      /\ Increasing(s) /\ Increasing(UDR1) /\ Before(Bytes(s), Bytes(UDR1)) => Increasing(s \o UDR1)
  BY <1>4, <1>6, Joined, Zenon
<1>8. Stream = s \o UDR1
  BY Zenon DEF Stream, s
<1>9. Chain(taken, dst, Buffered, UDR1, arrived) /\ Sorted => Increasing(Stream)
  BY <1>3, <1>5, <1>6, <1>7, <1>8, Zenon DEF Chain
<1> QED
  BY <1>2, <1>3, <1>6, <1>7, <1>8, <1>9, Zenon

\* Callers of uart0_read get the bytes in the order of their arrival, for every
\* size of the buffer and any number of bytes, except after the five things
\* that InOrder names.
THEOREM BytesInOrder == Spec => []InOrder
<1>1. Inv /\ Flow => InOrder
  BY StreamBytes, Zenon DEF Flow, Ordered, InOrder
<1> QED
  BY <1>1, InvHolds, FlowHolds, PTL

\* uart0_read, uart0_reset and the interrupt lose no byte between them, except
\* in the ways that NothingLost names.
THEOREM BytesKept == Spec => []NothingLost
<1>1. Inv /\ Flow => NothingLost
  BY StreamBytes, Zenon DEF Flow, Kept, NothingLost, Bytes
<1> QED
  BY <1>1, InvHolds, FlowHolds, PTL

\* Nothing that arrived before uart0_reset was called can be read after it has
\* returned, except when the interrupt stored it while the register was
\* drained or started the buffer again inside a call.
THEOREM ResetIsClean == Spec => []ResetForgets
<1>1. Inv /\ Flow => ResetForgets
  <2> SUFFICES ASSUME Inv, Flow, pc # "drain", harm \intersect {"late", "torn"} = {}
               PROVE  \A i \in 1 .. Len(First(idx) \o UDR1) : (First(idx) \o UDR1)[i] > mark
    BY Zenon DEF ResetForgets
  <2>1. Before({mark}, Bytes(UDR1)) /\ \A i \in 0 .. idx - 1 : mark < buffer[i]
    BY Zenon DEF Flow, Forgotten
  <2>2. First(idx) \in Seq(Nat) /\ Bytes(First(idx)) = {buffer[i] : i \in 0 .. idx - 1}
    BY FirstBytes, Zenon DEF Inv, Ranges, Flow
  <2>3. Before({mark}, Bytes(First(idx) \o UDR1))
    <3>1. Bytes(First(idx) \o UDR1) = Bytes(First(idx)) \union Bytes(UDR1)
      BY <2>2, Joined, Zenon DEF Flow, Data
    <3> QED
      BY <2>1, <2>2, <3>1, Zenon DEF Before
  <2>4. First(idx) \o UDR1 \in Seq(Nat) /\ mark \in Nat
    BY <2>2, Joined, Zenon DEF Flow, Data
  <2> QED
    BY <2>3, <2>4, Zenon DEF Before, Bytes
<1> QED
  BY <1>1, InvHolds, FlowHolds, PTL
=============================================================================
