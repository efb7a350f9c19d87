------------------------------- MODULE FmrTest -------------------------------
(***************************************************************************)
(* Argument types, and the functions of the module fmrTest that the        *)
(* repository's tests call (tests/fmr_test).  A value is a sequence of     *)
(* eight bytes, the least significant first, as an lf_arg is in memory; a  *)
(* type of n bytes occupies the first n.                                   *)
(***************************************************************************)
EXTENDS Integers, Sequences

Byte == 0..255

\* The codes of the types in a packet.
Code == [uint  |-> 0,  ptr    |-> 2,  uint64 |-> 3,  int   |-> 4,  void  |-> 6,
         uint8 |-> 16, uint16 |-> 17, uint32 |-> 19,
         int8  |-> 24, int16  |-> 25, int32  |-> 27, int64 |-> 31]

\* A type that is not listed, lf_uint_t among them, has no size.
lf_sizeof(type) ==
    CASE type \in {Code.uint8, Code.int8} -> 1
      [] type \in {Code.uint16, Code.int16} -> 2
      [] type \in {Code.uint32, Code.int, Code.int32} -> 4
      [] type \in {Code.uint64, Code.int64, Code.ptr} -> 8
      [] OTHER -> 0

\* The function table: the type each function expects of its argument and what
\* it returns, nothing or twice the argument, widened with or without its sign.
Function(type, returns) == [type |-> Code[type], returns |-> returns]
Table == <<Function("uint8", "nothing"),  Function("uint16", "nothing"),
           Function("int32", "nothing"),  Function("int", "nothing"),
           Function("uint8", "unsigned"), Function("uint16", "unsigned"),
           Function("uint32", "unsigned"), Function("int", "unsigned"),
           Function("int8", "nothing"),   Function("int8", "signed"),
           Function("int16", "nothing"),  Function("int16", "signed"),
           Function("int32", "nothing"),  Function("int32", "signed")>>

\* Eight bytes for the number n, which is small in absolute value.
Power == <<1, 256, 65536>>
Word(n) == [i \in 1..8 |-> IF i <= 3 THEN (n \div Power[i]) % 256 ELSE IF n < 0 THEN 255 ELSE 0]
lf_success == Word(0)
lf_error == Word(1)

\* Mutant: the result is widened before the sign is looked at.
Doubled_NoSign(v, n, signed) ==
    LET carry(i) == IF i > 1 /\ v[i - 1] >= 128 THEN 1 ELSE 0
    IN  [i \in 1..8 |-> IF i <= n THEN (2 * v[i] + carry(i)) % 256 ELSE 0]

\* Twice the number in the first n bytes of v, in n bytes, widened to eight.
Doubled(v, n, signed) ==
    LET carry(i) == IF i > 1 /\ v[i - 1] >= 128 THEN 1 ELSE 0
        twice == [i \in 1..n |-> (2 * v[i] + carry(i)) % 256]
        fill == IF signed /\ twice[n] >= 128 THEN 255 ELSE 0
    IN  [i \in 1..8 |-> IF i <= n THEN twice[i] ELSE fill]

\* The function's value for a list of arguments: extract_arg looks at the first
\* only and wants its type to be the one expected.
Apply(f, args) ==
    LET want == Table[f + 1] IN
    IF args = <<>> \/ args[1].type # want.type THEN lf_error
    ELSE IF want.returns = "nothing" THEN lf_success
    ELSE Doubled(args[1].value, lf_sizeof(want.type), want.returns = "signed")
=============================================================================
