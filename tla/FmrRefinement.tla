---------------------------- MODULE FmrRefinement ----------------------------
(***************************************************************************)
(* The exchange of module FmrExchange, seen as the remote calls of module  *)
(* RemoteCall: how far a client is with its request shows in its datagrams *)
(* and in what it waits for.                                               *)
(***************************************************************************)
EXTENDS FmrExchange

Awaits(c) == pc[c] \in {"lookup", "relookup", "call"}

StageOf(c) ==
    IF c \in strayed THEN "stray"
    ELSE IF Requests(c) # {} THEN "asked"
    ELSE IF Answers(c) # {} THEN "answered"
    ELSE IF Awaits(c) THEN "lost" ELSE "ready"

Stage == [c \in Clients |-> StageOf(c)]
Calls == INSTANCE RemoteCall WITH stage <- Stage

\* Every step of the hosts, of the network and of the device is a step of one
\* client's remote call, or changes no call: lf_network_write and
\* lf_network_read with their callers (lib/dyld.c, lib/libflipper.c), and
\* fmr_perform, which answers every packet once.
ImplementsRemoteCall == Calls!Spec
==============================================================================
