------------------------------ MODULE FmrPacket ------------------------------
(***************************************************************************)
(* A remote call on the wire: how lf_invoke_by_index and lf_invoke lay a   *)
(* call out in the 64 bytes of a packet, what the checksum covers, and     *)
(* what fmr_perform and fmr_rpc make of a packet that may have been        *)
(* damaged on the way.  Whether a packet arrives at all is FmrExchange's   *)
(* subject.                                                                *)
(*                                                                         *)
(* Neither function looks at how many types there is room for.  The types  *)
(* lie before the values in the packet, so that the type of an argument    *)
(* beyond the sixteenth is stored over the values, and a value over it.    *)
(*                                                                         *)
(* The checksum of more bytes than a packet has depends on whatever lies   *)
(* behind the packet, on both sides: it may agree or not.                  *)
(***************************************************************************)
EXTENDS FmrTest, Crc

CONSTANTS
    Calls,     \* the calls that programs make
    Modules,   \* how many modules the device has
    Masks      \* how a byte may be damaged: the sets of bits that flip

\* A call by lf_invoke_by_index or lf_invoke, with a list of arguments that was
\* appended to or made by the macro lf_args.
Argument == [type : Byte, value : [1..8 -> Byte]]
Call == [op : {"index", "invoke"}, built : {"append", "lf_args"}, module : Byte, function : Byte,
         ret : Byte, args : Seq(Argument)]

\* The number of arguments is counted in a byte: longer lists are left out.
ASSUME CallsAssumption ==
    /\ Calls \subseteq Call /\ \A c \in Calls : Len(c.args) \in Byte
    /\ Modules \in Nat /\ Masks \subseteq (SUBSET (0..7)) \ {{}}

FMR_PACKET_SIZE == 64
FMR_MAX_ARGC == 16
FMR_MAGIC_NUMBER == 254
HeaderSize == 6
CallSize == 4 + FMR_MAX_ARGC
Room == FMR_PACKET_SIZE - HeaderSize

VARIABLES
    stage,     \* "idle", "built", "answered"; "overrun" after a write past the packet
    call,      \* the caller's call
    packet,    \* the 64 bytes
    damaged,   \* a byte was changed on the way
    outcome    \* what the device did: refused, or the call it performed

vars == <<stage, call, packet, damaged, outcome>>
-----------------------------------------------------------------------------
(***************************************************************************)
(* The caller.                                                             *)
(***************************************************************************)
Uint16(n) == <<n % 256, (n \div 256) % 256>>
Get16(p, i) == p[i] + 256 * p[i + 1]
Padded(bytes) == bytes \o Zeros(FMR_PACKET_SIZE - Len(bytes))

Types(args) == [i \in DOMAIN args |-> args[i].type]

\* How many bytes the first i arguments have, for each i.
Offsets(types) ==
    LET upto[i \in 0..Len(types)] == IF i = 0 THEN 0 ELSE upto[i - 1] + lf_sizeof(types[i])
    IN  upto
Size(args) == Offsets(Types(args))[Len(args)]

\* call->arg_types[i] = type, which for i > FMR_MAX_ARGC lies among the values.
WriteType(bytes, args, i) ==
    [k \in 1..Room |-> IF k = 4 + i THEN args[i].type ELSE bytes[k]]

\* memcpy of the value, behind those of the arguments before it.
WriteValue(bytes, args, i) ==
    LET argv == CallSize + Offsets(Types(args))[i - 1] IN
    [k \in 1..Room |->
        IF k - argv \in 1..lf_sizeof(args[i].type) THEN args[i].value[k - argv] ELSE bytes[k]]

\* The call behind the header after its first i arguments, for each i.
Filled(fields, args) ==
    LET upto[i \in 0..Len(args)] ==
          IF i = 0 THEN fields \o Zeros(Room - Len(fields))
          ELSE WriteValue(WriteType(upto[i - 1], args, i), args, i)
    IN  upto

Header(crc, len) == <<FMR_MAGIC_NUMBER>> \o CrcBytes(crc) \o Uint16(len) \o <<0>>
Body(c, args) == Filled(<<c.module, c.function, c.ret, Len(args)>>, args)[Len(args)]

\* The packet with its checksum over the first len bytes, in which the
\* checksum itself is 0.
Sealed(body, len) ==
    LET open == Padded(Header({}, len) \o body)
        crc == IF len <= FMR_PACKET_SIZE THEN calcrc(SubSeq(open, 1, len)) ELSE {}
    IN  Padded(Header(crc, len) \o body)

\* fmr_build, behind the macro lf_args: the empty list it starts from is NULL,
\* which it takes for an error.  The list that a caller appends to is sent.
Passed(c) == IF c.built = "lf_args" THEN <<>> ELSE c.args

\* The types and the values of a list lie in the packet.
Fits(args) == 4 + Len(args) <= Room /\ CallSize + Size(args) <= Room

\* Mutant: the length does not count the bytes of the arguments.
IndexLength_NoBytes(args) == HeaderSize + CallSize + Len(args)

\* The length in the header counts every argument once more than its bytes.
IndexLength(args) == HeaderSize + CallSize + Len(args) + Size(args)

NotYet == [kind |-> "none", function |-> 0, args |-> <<>>, value |-> lf_success]

\* lf_invoke_by_index copies the arguments without looking at their number or
\* their size.
InvokeByIndex(c) ==
    LET args == Passed(c) IN
    /\ c.op = "index"
    /\ IF Fits(args)
       THEN /\ stage' = "built"
            /\ packet' = Sealed(Body(c, args), IndexLength(args))
       ELSE stage' = "overrun" /\ UNCHANGED packet

\* lf_create_call refuses a list at the first argument that would not fit; only
\* then does lf_invoke go on and send the packet, as far as it was filled, with
\* the length it had before.  The type of the argument it stops at is stored;
\* that of the first fits, and only a list of up to 38 reaches a second.
Refuses(args, i) == CallSize + Len(args) + Offsets(Types(args))[i] > Room
PartBody(c, args, i) ==
    WriteType(Filled(<<c.module, 0, c.ret, Len(args)>>, args)[i - 1], args, i)
Invoke(c) ==
    LET args == Passed(c)
        over == {i \in DOMAIN args : Refuses(args, i)}
        first == CHOOSE i \in over : \A j \in over : i <= j
    IN  /\ c.op = "invoke"
        /\ IF over = {} THEN stage' = "answered" /\ UNCHANGED packet
           ELSE /\ stage' = "built"
                /\ packet' = Sealed(PartBody(c, args, first), HeaderSize)

Send ==
    /\ stage = "idle"
    /\ \E c \in Calls : call' = c /\ (InvokeByIndex(c) \/ Invoke(c))
    /\ outcome' = IF stage' = "answered" THEN [NotYet EXCEPT !.kind = "notSent"] ELSE NotYet
    /\ damaged' = FALSE

\* A byte changes on its way.
Flipped(byte, mask) == ByteOf(Xor(BitsOf(byte), mask))
Damage ==
    /\ stage = "built" /\ ~damaged
    /\ \E i \in 1..FMR_PACKET_SIZE, m \in Masks : packet' = [packet EXCEPT ![i] = Flipped(@, m)]
    /\ damaged' = TRUE
    /\ UNCHANGED <<stage, call, outcome>>
-----------------------------------------------------------------------------
(***************************************************************************)
(* The device.                                                             *)
(***************************************************************************)
\* Mutant: the checksum is not cleared before it is computed.
Checksum_Uncleared(p) == calcrc(SubSeq(p, 1, Get16(p, 4)))

Checksum(p) == calcrc(SubSeq([p EXCEPT ![2] = 0, ![3] = 0], 1, Get16(p, 4)))

\* Whether fmr_perform accepts a packet.
Accepts(p) ==
    IF p[1] # FMR_MAGIC_NUMBER THEN {FALSE}
    ELSE IF Get16(p, 4) > FMR_PACKET_SIZE THEN BOOLEAN
    ELSE {CrcBytes(Checksum(p)) = <<p[2], p[3]>>}

\* The list of arguments that fmr_rpc reads; behind the packet lies an unknown
\* byte.
At(p, i, unknown) == IF i <= FMR_PACKET_SIZE THEN p[i] ELSE unknown
Arguments(p, unknown) ==
    LET types == [i \in 1..p[10] |-> At(p, 10 + i, unknown)]
        argv(i) == HeaderSize + CallSize + Offsets(types)[i - 1]
    IN  [i \in 1..p[10] |->
            [type |-> types[i],
             value |-> [k \in 1..lf_sizeof(types[i]) |-> At(p, argv(i) + k, unknown)]]]

\* fmr_rpc builds the list of arguments, for which memory may run out, and
\* calls the function.
fmr_rpc(p) ==
    IF p[7] >= Modules \/ p[8] >= Len(Table)
    THEN {[NotYet EXCEPT !.kind = "failed"]}
    ELSE {[kind |-> "performed", function |-> p[8], args |-> Arguments(p, unknown),
           value |-> Apply(p[8], Arguments(p, unknown))] : unknown \in {0, 255}}
         \cup (IF p[10] > 0 THEN {[NotYet EXCEPT !.kind = "failed"]} ELSE {})

Perform ==
    /\ stage = "built" /\ stage' = "answered"
    /\ \E accepted \in Accepts(packet) :
          IF accepted
          THEN IF packet[6] = 0 THEN outcome' \in fmr_rpc(packet)
                                ELSE outcome' = [NotYet EXCEPT !.kind = "other"]
          ELSE outcome' = [NotYet EXCEPT !.kind = "refused"]
    /\ UNCHANGED <<call, packet, damaged>>

Init ==
    /\ stage = "idle" /\ call \in Calls
    /\ packet = Zeros(FMR_PACKET_SIZE) /\ damaged = FALSE /\ outcome = NotYet
Return ==
    /\ stage = "answered" /\ stage' = "idle"
    /\ packet' = Zeros(FMR_PACKET_SIZE) /\ damaged' = FALSE /\ outcome' = NotYet
    /\ UNCHANGED call
Next == Send \/ Damage \/ Perform \/ Return
Spec == Init /\ [][Next]_vars
-----------------------------------------------------------------------------
\* What a function should see of a list: the bytes that each type has.
Seen(args) ==
    [i \in DOMAIN args |-> [type |-> args[i].type,
                            value |-> SubSeq(args[i].value, 1, lf_sizeof(args[i].type))]]
Checked(c) == c.op = "index" /\ IndexLength(Passed(c)) <= FMR_PACKET_SIZE

\* If the device performs a call by index, it performs the function that was
\* called, with as many arguments as were sent, whichever byte of the packet
\* was damaged on the way, the length in the header included; undamaged, this
\* holds even when the length exceeds the packet.  The arguments are those that
\* were sent as long as there are no more of them than FMR_MAX_ARGC, which
\* lib/fmr.h calls the most that a packet can encode and nothing enforces.
CallArrivesIntact ==
    /\ outcome.kind \in {"performed", "other"}
    /\ Checked(call) \/ (call.op = "index" /\ ~damaged)
    => /\ outcome.kind = "performed" /\ outcome.function = call.function
       /\ Len(outcome.args) = Len(Passed(call))
       /\ Len(Passed(call)) <= FMR_MAX_ARGC => outcome.args = Seen(Passed(call))

\* A call by index that was not damaged is not refused for its checksum, as
\* long as its length in the header does not exceed the packet.
IntactIsAccepted == Checked(call) /\ ~damaged => outcome.kind # "refused"

\* The checksum is the remainder, modulo x^16 + x^12 + x^5 + 1, of the message
\* times x^16.
CrcIsRemainder ==
    stage = "built" /\ ~damaged =>
        LET m == SubSeq(packet, 1, 12) IN calcrc(m) = Remainder(m \o Zeros(2))

\* The calls of the repository's own test, each with one argument of type
\* type and value n, and what the test expects them to return.
TestCall(f, type, n) ==
    [op |-> "index", built |-> "append", module |-> 1, function |-> f, ret |-> Code[type],
     args |-> <<[type |-> Code[type], value |-> Word(n)]>>]
Tests ==
    {[call |-> TestCall(0, "uint8", 16),     expected |-> 0],
     [call |-> TestCall(1, "uint16", 4931),  expected |-> 0],
     [call |-> TestCall(2, "int32", 70000),  expected |-> 0],
     [call |-> TestCall(3, "int", 111),      expected |-> 0],
     [call |-> TestCall(4, "uint8", 16),     expected |-> 32],
     [call |-> TestCall(5, "uint16", 4931),  expected |-> 9862],
     [call |-> TestCall(6, "uint32", 70000), expected |-> 140000],
     [call |-> TestCall(7, "int", 111),      expected |-> 222],
     [call |-> TestCall(8, "int8", -16),     expected |-> 0],
     [call |-> TestCall(9, "int8", -16),     expected |-> -32],
     [call |-> TestCall(10, "int16", -4931), expected |-> 0],
     [call |-> TestCall(11, "int16", -4931), expected |-> -9862],
     [call |-> TestCall(12, "int32", -70000), expected |-> 0],
     [call |-> TestCall(13, "int32", -70000), expected |-> -140000]}

\* Every call of the test that the device performs returns what the test
\* expects, through the list of arguments, the packet, the device's list, the
\* function and the 64 bits of the result, damaged packets included.
TestsPass ==
    outcome.kind = "performed" =>
        \A t \in Tests : call = t.call => outcome.value = Word(t.expected)

\* What holds no more once there are more arguments than FMR_MAX_ARGC: the
\* arguments of an undamaged call arrive.
ManyArrive ==
    outcome.kind = "performed" /\ call.op = "index" /\ ~damaged =>
        outcome.args = Seen(Passed(call))

\* What fmr_build says of itself: the arguments passed to lf_args are in the
\* list that is sent.
LfArgsArrive ==
    outcome.kind = "performed" /\ Checked(call) => outcome.args = Seen(call.args)
=============================================================================
