------------------------------ MODULE FmrServer ------------------------------
(***************************************************************************)
(* The virtual device on its own (FmrDevice), performing whatever packets  *)
(* reach its socket: well formed or damaged, of every class, in any order. *)
(***************************************************************************)
EXTENDS FmrDevice

CONSTANT Inputs   \* the packets that may arrive

ASSUME InputsAssumption == Inputs \subseteq Packet

VARIABLE last     \* the last packet performed and the outcome of fmr_perform

serverVars == <<devVars, last>>

ServerInit ==
    /\ DevInit
    /\ last = [p |-> [magic |-> TRUE, crc |-> TRUE, type |-> "dyld", module |-> 0, function |-> 0,
                      args |-> "none"],
               o |-> Refused("E_OK", "E_OK")]

BootStep == Boot /\ UNCHANGED last

Perform ==
    \E p \in Inputs, sent \in BOOLEAN : \E o \in fmr_perform(p) :
        /\ Serve(p, o, sent)
        /\ last' = [p |-> p, o |-> o]

\* fmr_free hands free() a pointer that malloc never returned: the C library
\* aborts the process.
FreeAborts ==
    /\ phase = "serve"
    /\ \E p \in Inputs : p.magic /\ p.crc /\ p.type = "free"
    /\ phase' = "aborted"
    /\ UNCHANGED <<toLoad, modules, registry, lf_err, blocks, last>>

ServerNext == BootStep \/ Perform \/ FreeAborts

ServerSpec == ServerInit /\ [][ServerNext]_serverVars
-----------------------------------------------------------------------------
\* The error that fmr_perform sends depends on the packet it answers and never
\* on an error that an earlier packet left in _lf_err: a checksum error only
\* for a damaged packet, E_FMR only for an unknown class, E_NULL for a call to a
\* module beyond the list and, besides, only for a call whose arguments fmr_rpc
\* found no memory for, which then ran no function.
ErrorIsOfThisPacket ==
    LET p == last.p  o == last.o IN
    /\ o.error = "E_CHECKSUM" <=> Damaged(p)
    /\ o.error = "E_FMR" <=> ~Damaged(p) /\ p.type = UnknownClass
    /\ ~Damaged(p) /\ p.type = "rpc" /\ p.module >= Len(modules) => o.error = "E_NULL"
    /\ o.error = "E_NULL" => /\ ~Damaged(p) /\ p.type = "rpc" /\ o.called = NoCall
                             /\ p.module >= Len(modules) \/ p.args = "some"

\* What ErrorIsOfThisPacket rests on, besides the device's own invariant: no
\* packet is performed before the device serves.
NotBeforeBoot ==
    phase \in {"create", "fmr_init", "load"} =>
        ~Damaged(last.p) /\ last.p.type = "dyld" /\ last.o.error = "E_OK"

ErrorInv == DevInv /\ NotBeforeBoot /\ ErrorIsOfThisPacket

\* A packet whose magic byte or checksum is wrong leaves the modules, their
\* state and the device's memory alone, and no function runs for it.
DamageIsHarmless ==
    [][Damaged(last'.p) => /\ last'.o.called = NoCall
                           /\ UNCHANGED <<modules, blocks>>]_last

\* What the code that handles a failed dispatch says (lib/fmr.c, lines 77-79:
\* "Dispatcher for type %d failed", result.error = E_FMR): a handler that
\* failed is reported to the host as an error.
FailureIsReported ==
    last.o.dispatched /\ ~last.o.ok => last.o.error # "E_OK"
==============================================================================
