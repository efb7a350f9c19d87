----------------------------- MODULE MCFmrPacket -----------------------------
(***************************************************************************)
(* The calls of the repository's test, and lists of arguments of no size,  *)
(* of mixed sizes, that just fill the packet, whose length in the header   *)
(* is one more, that do not fit, and of more types than there is room for: *)
(* 17 bytes, whose last type is stored over the first of them; 22 bytes,   *)
(* whose length in the header is more than the packet; and 20 words of 16  *)
(* bits, and 16 bytes and a pointer, which lf_invoke_by_index writes past  *)
(* the packet and lf_create_call refuses.                                  *)
(***************************************************************************)
EXTENDS FmrPacket

Arg(type, n) == [type |-> Code[type], value |-> Word(n)]
Times(k, arg) == [i \in 1..k |-> arg]

Lists == {<<>>,
          <<Arg("uint8", 200), Arg("int32", -2), Arg("ptr", 300)>>,
          <<Arg("uint", 5), Arg("uint8", 7)>>,
          Append(Times(4, Arg("uint64", -1)), Arg("int8", 1)),
          Times(13, Arg("uint16", 258)),
          Append(Times(16, Arg("uint8", 3)), Arg("ptr", 9)),
          Times(17, Arg("uint8", 7)),
          Times(20, Arg("uint16", 7)),
          Times(22, Arg("int8", -1)),
          Times(5, Arg("ptr", 9))}

CallWith(op, built, args) ==
    [op |-> op, built |-> built, module |-> 1, function |-> 4, ret |-> Code.uint8, args |-> args]

TestCalls == {t.call : t \in Tests}
MCCalls == TestCalls \cup {CallWith(op, "append", args) : op \in {"index", "invoke"}, args \in Lists}
                     \cup {CallWith("index", "lf_args", <<Arg("uint8", 200)>>)}
==============================================================================
