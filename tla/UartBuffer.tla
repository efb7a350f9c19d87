---------------------------- MODULE UartBuffer ----------------------------
(***************************************************************************)
(* The receive side of uart0 on the ATmega U2.  Bytes wait in the UDR1     *)
(* register of the controller; the receive interrupt moves them to         *)
(* uart0_buffer, and uart0_read empties the buffer and then polls the      *)
(* register itself.  Interrupts stay enabled in uart0_read and uart0_reset *)
(* and the index is neither volatile nor guarded, so that the interrupt    *)
(* may come between any two steps of theirs.                               *)
(*                                                                         *)
(* A byte is the number of its arrival, 0 a byte that nothing was written  *)
(* to.  The cells of buffer from Size on are the memory behind it.         *)
(***************************************************************************)
EXTENDS Integers, Sequences

CONSTANTS
    Size,        \* sizeof(uart0_buffer)
    IndexMod,    \* idx is an integer modulo IndexMod (uint8_t)
    LengthMod,   \* length is an integer modulo LengthMod (uint32_t)
    Depth,       \* bytes that the controller keeps
    Lengths,     \* lengths that callers ask for
    MaxBytes     \* bound: bytes that arrive

ASSUME UartAssumption ==
    /\ Size \in Nat \ {0} /\ IndexMod \in Nat /\ Size < IndexMod
    /\ LengthMod \in Nat \ {0} /\ Lengths \subseteq 1 .. LengthMod - 1
    /\ Depth \in Nat \ {0} /\ MaxBytes \in Nat

VARIABLES
    UDR1,        \* the bytes in the controller; RXC1 is set while there are any
    idx,
    buffer,      \* uart0_buffer and what lies behind it
    pc,          \* where uart0_read or uart0_reset is; "idle" outside them
    length,      \* its argument length
    n,           \* its register copy of idx
    dst,         \* what it has stored for its caller
    taken,       \* history: what earlier calls stored
    gone,        \* history: bytes sent to the debug endpoint or reset
    arrived,     \* history: bytes that arrived
    mark,        \* history: arrived when uart0_reset was called last
    harm         \* history: the ways in which bytes were lost or mixed up

vars == <<UDR1, idx, buffer, pc, length, n, dst, taken, gone, arrived, mark, harm>>

RXC1 == UDR1 # <<>>

\* The first k bytes of the buffer.
First(k) == [i \in 1 .. k |-> buffer[i - 1]]

Init ==
    /\ UDR1 = <<>>
    /\ idx = 0
    /\ buffer = [i \in 0 .. IndexMod - 1 |-> 0]
    /\ pc = "idle"
    /\ length = 0
    /\ n = 0
    /\ dst = <<>>
    /\ taken = <<>>
    /\ gone = {}
    /\ arrived = 0
    /\ mark = 0
    /\ harm = {}

\* The step damages the stream in the way h if c holds.
Harms(h, c) == harm' = IF c THEN harm \union {h} ELSE harm

\* The call returns, having stored d.
Return(d) ==
    /\ pc' = "idle"
    /\ dst' = <<>>
    /\ taken' = taken \o d

\* The head of while (length--) with l bytes left and d stored.
Loop(l, d) ==
    \/ l = 0 /\ Return(d)
    \/ l # 0 /\ pc' = "poll" /\ dst' = d /\ UNCHANGED taken

\* A careless uart0_read that takes the whole buffer whatever is asked for.
Read_All(l) ==
    /\ pc = "idle"
    /\ length' = l
    /\ n' = idx
    /\ pc' = IF idx = 0 THEN "poll" ELSE "all"
    /\ UNCHANGED <<UDR1, idx, buffer, dst, taken, gone, arrived, mark, harm>>

\* uart0_read with l bytes is called; uart0_get asks for one.
Read(l) ==
    /\ pc = "idle"
    /\ length' = l
    /\ n' = idx
    /\ pc' = CASE idx = 0 -> "poll" [] idx # 0 /\ l >= idx -> "all" [] OTHER -> "part"
    /\ UNCHANGED <<UDR1, idx, buffer, dst, taken, gone, arrived, mark, harm>>

\* memcpy of the whole buffer, or of the part that is asked for.
Copy ==
    /\ \/ pc = "all" /\ dst' = First(n) /\ pc' = "advance"
       \/ pc = "part" /\ dst' = First(length) /\ pc' = "move"
    /\ UNCHANGED <<UDR1, idx, buffer, length, n, taken, gone, arrived, mark, harm>>

\* dst and length are advanced by idx, which the compiler may have kept in a
\* register over the memcpy or read again.
Advance ==
    /\ pc = "advance"
    /\ \E k \in {n, idx} :
          /\ dst' = [i \in 1 .. k |-> IF i <= n THEN dst[i] ELSE 0]
          /\ length' = (length - k) % LengthMod
          /\ Harms("gap", k # n)
    /\ pc' = "clear"
    /\ UNCHANGED <<UDR1, idx, buffer, n, taken, gone, arrived, mark>>

\* A careless uart0_read that leaves the index.
Clear_Keeps ==
    /\ pc = "clear"
    /\ Loop(length, dst)
    /\ UNCHANGED <<UDR1, idx, buffer, length, n, gone, arrived, mark, harm>>

\* idx = 0; what the interrupt has stored since the memcpy is forgotten.
Clear ==
    /\ pc = "clear"
    /\ idx' = 0
    /\ Harms("discard", idx # n)
    /\ Loop(length, dst)
    /\ UNCHANGED <<UDR1, buffer, length, n, gone, arrived, mark>>

\* A careless memmove that forgets the last byte.
Move_Short ==
    /\ pc = "move"
    /\ \E m \in {n, idx} :
          /\ n' = m
          /\ buffer' = [i \in DOMAIN buffer |-> IF i < m - length - 1 THEN buffer[i + length]
                                                                       ELSE buffer[i]]
    /\ pc' = "load"
    /\ UNCHANGED <<UDR1, idx, length, dst, taken, gone, arrived, mark, harm>>

\* memmove of the idx - length bytes that stay.  A negative count is a huge
\* size_t: the call overwrites everything and does not come back.
Move ==
    /\ pc = "move"
    /\ \E m \in {n, idx} :
          /\ n' = m
          /\ \/ m >= length
                /\ pc' = "load"
                /\ buffer' = [i \in DOMAIN buffer |-> IF i < m - length THEN buffer[i + length]
                                                                         ELSE buffer[i]]
             \/ m < length
                /\ pc' = "runaway"
                /\ UNCHANGED buffer
    /\ UNCHANGED <<UDR1, idx, length, dst, taken, gone, arrived, mark, harm>>

\* idx -= length is a load, a subtraction and a store.
Load ==
    /\ pc = "load"
    /\ n' = idx
    /\ Harms("hole", idx # n)
    /\ pc' = "store"
    /\ UNCHANGED <<UDR1, idx, buffer, length, dst, taken, gone, arrived, mark>>

\* The store of idx -= length, modulo the width of the index.
Store ==
    /\ pc = "store"
    /\ idx' = (n - length) % IndexMod
    /\ Harms("update", idx # n)
    /\ Return(dst)
    /\ UNCHANGED <<UDR1, buffer, length, n, gone, arrived, mark>>

\* The loop finds RXC1 set, or gives up LF_UART_TIMEOUT_MS frames after it
\* began to wait.
Poll ==
    /\ pc = "poll"
    /\ \/ RXC1 /\ pc' = "take" /\ UNCHANGED <<dst, taken>>
       \/ ~RXC1 /\ Return(dst)
    /\ UNCHANGED <<UDR1, idx, buffer, length, n, gone, arrived, mark, harm>>

\* *dst++ = UDR1.  The interrupt may have emptied the register since RXC1
\* was seen.
Take ==
    /\ pc = "take"
    /\ UDR1' = IF RXC1 THEN Tail(UDR1) ELSE UDR1
    /\ length' = length - 1
    /\ Loop(length - 1, Append(dst, IF RXC1 THEN Head(UDR1) ELSE 0))
    /\ harm' = harm \union (IF RXC1 THEN {} ELSE {"stale"})
                    \union (IF RXC1 /\ idx # 0 THEN {"overtake"} ELSE {})
    /\ UNCHANGED <<idx, buffer, n, gone, arrived, mark>>

\* uart0_reset: the buffer first, then the register, byte after byte.
Reset ==
    /\ pc = "idle"
    /\ idx' = 0
    /\ gone' = gone \union {buffer[i] : i \in 0 .. idx - 1}
    /\ mark' = arrived
    /\ pc' = "drain"
    /\ UNCHANGED <<UDR1, buffer, length, n, dst, taken, arrived, harm>>

\* A careless reset that only forgets the buffer.
Drain_Skipped ==
    /\ pc = "drain"
    /\ pc' = "idle"
    /\ UNCHANGED <<UDR1, gone, idx, buffer, length, n, dst, taken, arrived, mark, harm>>

Drain ==
    /\ pc = "drain"
    /\ \/ RXC1 /\ UDR1' = Tail(UDR1) /\ gone' = gone \union {Head(UDR1)} /\ UNCHANGED pc
       \/ ~RXC1 /\ pc' = "idle" /\ UNCHANGED <<UDR1, gone>>
    /\ UNCHANGED <<idx, buffer, length, n, dst, taken, arrived, mark, harm>>

\* What the interrupt does to the stream when it finds the buffer at idx and
\* stores the byte, or not.
Disturbs(stores) ==
    harm' = harm \union (IF idx = Size THEN {"wrap"} ELSE {})
                 \union (IF idx = Size /\ pc # "idle" THEN {"torn"} ELSE {})
                 \union (IF stores /\ pc = "drain" THEN {"late"} ELSE {})

\* A careless interrupt handler that starts again one byte too late.
ISR_PastEnd ==
    /\ RXC1
    /\ pc # "runaway"
    /\ UDR1' = Tail(UDR1)
    /\ LET at == IF idx = Size + 1 THEN 0 ELSE idx
       IN /\ buffer' = [buffer EXCEPT ![at] = Head(UDR1)]
          /\ idx' = (at + 1) % IndexMod
    /\ Disturbs(TRUE)
    /\ UNCHANGED <<pc, length, n, dst, taken, gone, arrived, mark>>

\* USART1_RX_vect: a full buffer starts again at its beginning; the byte is
\* for the debug endpoint while the FMR line is high.
ISR ==
    /\ RXC1
    /\ pc # "runaway"
    /\ UDR1' = Tail(UDR1)
    /\ LET at == IF idx = Size THEN 0 ELSE idx
       IN \/ /\ idx' = at
             /\ gone' = gone \union {Head(UDR1)}
             /\ Disturbs(FALSE)
             /\ UNCHANGED buffer
          \/ /\ buffer' = [buffer EXCEPT ![at] = Head(UDR1)]
             /\ idx' = (at + 1) % IndexMod
             /\ Disturbs(TRUE)
             /\ UNCHANGED gone
    /\ UNCHANGED <<pc, length, n, dst, taken, arrived, mark>>

\* A byte arrives on the line; it is lost when the controller has no room.
Arrive ==
    /\ arrived < MaxBytes
    /\ arrived' = arrived + 1
    /\ UDR1' = IF Len(UDR1) < Depth THEN Append(UDR1, arrived') ELSE UDR1
    /\ Harms("overrun", Len(UDR1) = Depth)
    /\ UNCHANGED <<idx, buffer, pc, length, n, dst, taken, gone, mark>>

Next ==
    \/ \E l \in Lengths : Read(l)
    \/ Copy \/ Advance \/ Clear \/ Move \/ Load \/ Store \/ Poll \/ Take
    \/ Reset \/ Drain
    \/ ISR
    \/ Arrive

Spec == Init /\ [][Next]_vars

-----------------------------------------------------------------------------

\* No call is between its memcpy and the update of the index.
Settled == pc \in {"idle", "all", "part", "poll", "take", "drain"}

\* All bytes in the order in which callers get them.
Stream == taken \o dst \o First(idx) \o UDR1

Increasing(s) == \A i, j \in 1 .. Len(s) : i < j => s[i] < s[j]

\* Callers of uart0_read get the bytes in the order in which they arrived, no
\* byte twice and none that was never received, whatever the interrupt does
\* in between, unless one of five things happened: dst was advanced by more
\* than was copied, the memmove missed a byte that had just been stored, a
\* polled byte overtook buffered ones, or was taken from the register after
\* the interrupt had, or the buffer was started again inside a call.
InOrder ==
    Settled /\ harm \intersect {"gap", "hole", "stale", "overtake", "torn"} = {}
        => Increasing(Stream)

\* Each byte that arrived is with a caller, in the buffer or in the register,
\* or was reset or sent to the debug endpoint, unless in addition the
\* controller or the buffer overflowed or a byte was stored between memcpy
\* and idx = 0 or within idx -= length.
NothingLost ==
    Settled /\ harm \subseteq {"late"}
        => {Stream[i] : i \in 1 .. Len(Stream)} \union gone = 1 .. arrived

\* The index stays inside the buffer, and so do the memmove and every store,
\* as long as the interrupt does not start the buffer again inside a call:
\* only then does idx -= length go below zero.
InBounds ==
    "torn" \notin harm => idx <= Size /\ pc # "runaway"

\* A call never stores more than its caller asked for: length never runs below
\* zero, unless a byte was stored between memcpy and length -= idx.
NoMoreThanAsked ==
    [][length' > length => pc = "idle" \/ "gap" \in harm']_vars

\* Once uart0_reset has returned, no byte that arrived before it was called
\* is left to be read, unless the interrupt stored one while the register was
\* drained.
ResetForgets ==
    pc # "drain" /\ harm \intersect {"late", "torn"} = {}
        => \A i \in 1 .. Len(First(idx) \o UDR1) : (First(idx) \o UDR1)[i] > mark
=============================================================================
