----------------------------- MODULE RemoteCall ------------------------------
(***************************************************************************)
(* What a request to a device promises, without sockets, packets or the    *)
(* device: a client has one request under way at most, the device performs *)
(* it at most once, and the client goes on with the answer to it.  Clients *)
(* move independently of each other.  A request or its answer may be lost, *)
(* and then the client waits for ever; nothing is promised to a client     *)
(* that strayed, for one of whose requests an answer was left unread or    *)
(* came twice.                                                             *)
(***************************************************************************)
CONSTANT Clients
VARIABLE stage  \* how far each client is with its request

Stages == {"ready", "asked", "answered", "lost", "stray"}

Init == stage = [c \in Clients |-> "ready"]

Move(c, from, to) == stage[c] \in from /\ stage' = [stage EXCEPT ![c] = to]

Ask(c) == Move(c, {"ready"}, "asked")
Perform(c) == Move(c, {"asked"}, "answered")
Take(c) == Move(c, {"answered"}, "ready")
Lose(c) == Move(c, {"asked", "answered"}, "lost")
Stray(c) == Move(c, Stages \ {"stray"}, "stray")

Next == \E c \in Clients : Ask(c) \/ Perform(c) \/ Take(c) \/ Lose(c) \/ Stray(c)

Spec == Init /\ [][Next]_stage
==============================================================================
