------------------------------ MODULE FmrDevice ------------------------------
(***************************************************************************)
(* The device side of the Flipper Message Runtime: the module registry of  *)
(* a device (lib/dyld.c), the dispatcher fmr_perform with its built-in     *)
(* handlers (lib/fmr.c), and the boot sequence of the virtual device that  *)
(* runs them (utils/fvm/src/main.c).                                       *)
(*                                                                         *)
(* A packet is abstracted to what fmr_perform tells apart: whether the     *)
(* magic byte and the checksum are right, its class, and the call or the   *)
(* module name it carries.  Contents of memory that the code reads beyond  *)
(* the end of the packet are a nondeterministic choice.                    *)
(***************************************************************************)
EXTENDS Integers, Sequences, FiniteSets

CONSTANTS Names,     \* module names
          NoName,    \* a string that is the name of no module
          Images,    \* the modules the device registers at boot, in order
          Returns,   \* the values that the modules' functions return
          MaxBlocks  \* bound: blocks of device memory allocated at a time

UINT8_MAX == 255
UINT16_MAX == 65535

\* The packet classes of fmr.h, and one that has no dispatcher.
Classes == {"rpc", "push", "pull", "dyld", "malloc", "free"}
UnknownClass == "unknown"

Errors == {"E_OK", "E_NULL", "E_FMR", "E_CHECKSUM", "E_COMMUNICATION"}

\* struct _lf_module: an index of UINT16_MAX stands for "the next position".
State == {"none", "initial", "written"}
Module == [name : Names, idx : 0..UINT16_MAX, length : Nat, state : State]

ASSUME DeviceAssumption ==
    /\ NoName \notin Names
    /\ Images \in Seq(Module)
    /\ Len(Images) \in 1..UINT16_MAX
    /\ Returns \subseteq Nat
    /\ MaxBlocks \in Nat

\* The images of the repository all leave their index to dyld_register.
ASSUME AutoIndexAssumption == \A i \in DOMAIN Images : Images[i].idx = UINT16_MAX

\* Of the arguments of a call, args says whether there are any (call->argc).
Carried == {"none", "some"}
Packet == [magic : BOOLEAN, crc : BOOLEAN, type : Classes \cup {UnknownClass},
           module : 0..UINT8_MAX, function : 0..UINT8_MAX, args : Carried]

VARIABLES
    phase,      \* where the virtual device's main() stands
    toLoad,     \* the images that are still to be registered
    modules,    \* device->modules
    registry,   \* the classes that have a dispatcher in fmr_registry
    lf_err,     \* _lf_err, the library's global error
    blocks      \* the number of blocks allocated by fmr_malloc

devVars == <<phase, toLoad, modules, registry, lf_err, blocks>>

-----------------------------------------------------------------------------
(***************************************************************************)
(* Registration and boot.                                                  *)
(***************************************************************************)

\* lf_module_get_by_name: the positions of the modules with this name.
lf_module_get_by_name(name) == {i \in DOMAIN modules : modules[i].name = name}

\* Mutant: the index counts the module that is being registered.
dyld_register_CountsItself(image) ==
    IF lf_module_get_by_name(image.name) # {}
    THEN modules' = modules
    ELSE modules' = Append(modules, [image EXCEPT !.idx = Len(modules) + 1])

\* A name that is already registered is left alone.
dyld_register(image) ==
    IF lf_module_get_by_name(image.name) # {}
    THEN modules' = modules
    ELSE modules' = Append(modules,
             IF image.idx = UINT16_MAX THEN [image EXCEPT !.idx = Len(modules)]
                                       ELSE image)

DevInit ==
    /\ phase = "create"
    /\ toLoad = Images
    /\ modules = <<>>
    /\ registry = {}
    /\ lf_err = "E_OK"
    /\ blocks = 0

\* main() registers dac_module first, then calls fmr_init.
RegisterDac ==
    /\ phase = "create"
    /\ dyld_register(Head(toLoad))
    /\ toLoad' = Tail(toLoad)
    /\ phase' = "fmr_init"
    /\ UNCHANGED <<registry, lf_err, blocks>>

fmr_init ==
    /\ phase = "fmr_init"
    /\ registry' = Classes
    /\ phase' = "load"
    /\ UNCHANGED <<toLoad, modules, lf_err, blocks>>

\* The modules named on the command line are registered one after another.
LoadModule ==
    /\ phase = "load" /\ toLoad # <<>>
    /\ dyld_register(Head(toLoad))
    /\ toLoad' = Tail(toLoad)
    /\ UNCHANGED <<phase, registry, lf_err, blocks>>

\* dlopen or dlsym fails for a module of the command line: main() returns.
LoadFails ==
    /\ phase = "load" /\ toLoad # <<>>
    /\ phase' = "exited"
    /\ UNCHANGED <<toLoad, modules, registry, lf_err, blocks>>

AwaitPackets ==
    /\ phase = "load" /\ toLoad = <<>>
    /\ phase' = "serve"
    /\ UNCHANGED <<toLoad, modules, registry, lf_err, blocks>>

Boot == RegisterDac \/ fmr_init \/ LoadModule \/ LoadFails \/ AwaitPackets
-----------------------------------------------------------------------------
(***************************************************************************)
(* The handlers.  Each is the set of its outcomes: the return code, the    *)
(* value and _lf_err it leaves, the function it called, the datagrams it   *)
(* wrote itself, the module (counted from 1) whose state it wrote and the  *)
(* change in the number of allocated blocks.                               *)
(***************************************************************************)
NoCall == <<>>

Outcome(ok, value, err) ==
    [blocks |-> 0, error |-> err, called |-> NoCall, dispatched |-> TRUE, ok |-> ok,
     value |-> value, err |-> err, wrote |-> 0, pushed |-> 0]

\* fmr_rpc looks the module up by its position in the list.  lf_ll_item
\* raises E_NULL past the end of the list; a function index that is out of
\* range raises nothing.  Each argument is copied into memory that may run out:
\* fmr_rpc raises E_NULL when its own malloc fails, and nothing when that of
\* lf_ll_append does.
OutOfMemory(p, err) ==
    IF p.args = "some" THEN {Outcome(FALSE, 0, "E_NULL"), Outcome(FALSE, 0, err)} ELSE {}
fmr_rpc(p, err) ==
    IF p.module >= Len(modules) THEN {Outcome(FALSE, 0, "E_NULL")}
    ELSE IF p.function >= modules[p.module + 1].length THEN {Outcome(FALSE, 0, err)}
    ELSE {[Outcome(TRUE, r, err) EXCEPT !.called = <<p.module, p.function>>] : r \in Returns}
         \cup OutOfMemory(p, err)

\* fmr_dyld takes the name at `packet + 1', past the end of the packet.
fmr_dyld(err) ==
    {IF lf_module_get_by_name(name) = {} THEN Outcome(FALSE, 0, err)
     ELSE Outcome(TRUE, modules[CHOOSE i \in lf_module_get_by_name(name) : TRUE].idx, err)
        : name \in Names \cup {NoName}}

\* fmr_push and fmr_pull take the module index from past the packet as well;
\* fmr_pull writes the module's state to the host itself, and fails when the
\* socket refuses the write (-1 stands for the all-ones 64-bit value).
WithState == {i \in DOMAIN modules : modules[i].state # "none"}
fmr_push(err) ==
    {Outcome(FALSE, 0, err)} \cup
    {[Outcome(TRUE, 0, err) EXCEPT !.pushed = i] : i \in WithState}
fmr_pull(err) ==
    {Outcome(FALSE, 0, err)} \cup
    UNION {{[Outcome(TRUE, 0, err) EXCEPT !.wrote = 1],
            Outcome(FALSE, -1, "E_COMMUNICATION")} : i \in WithState}

\* The length given to malloc, and the pointer given to free, lie past the
\* packet: the allocation may fail, and the pointer may be NULL.
fmr_malloc(err) ==
    {Outcome(FALSE, 0, err)} \cup
    {[Outcome(TRUE, r, err) EXCEPT !.blocks = 1] : r \in IF blocks < MaxBlocks THEN Returns ELSE {}}
\* Mutant: a block is released although none is allocated.
fmr_free_Unpaired(err) == {[Outcome(TRUE, 0, err) EXCEPT !.blocks = -1]}
fmr_free(err) ==
    {[Outcome(TRUE, 0, err) EXCEPT !.blocks = -b] : b \in IF blocks > 0 THEN {0, 1} ELSE {0}}

Dispatch(p, err) ==
    CASE p.type = "rpc"    -> fmr_rpc(p, err)
      [] p.type = "push"   -> fmr_push(err)
      [] p.type = "pull"   -> fmr_pull(err)
      [] p.type = "dyld"   -> fmr_dyld(err)
      [] p.type = "malloc" -> fmr_malloc(err)
      [] p.type = "free"   -> fmr_free(err)

\* The paths of fmr_perform that reach no handler.
Refused(error, err) ==
    [Outcome(FALSE, 0, err) EXCEPT !.dispatched = FALSE, !.error = error]

Damaged(p) == ~p.magic \/ ~p.crc

\* Mutants: _lf_err is not reset; the checksum is not compared.
fmr_perform_KeepsError(p) ==
    IF Damaged(p) THEN {Refused("E_CHECKSUM", "E_CHECKSUM")}
    ELSE IF p.type = UnknownClass THEN {Refused("E_FMR", "E_FMR")}
    ELSE Dispatch(p, lf_err)
fmr_perform_NoChecksum(p) ==
    IF ~p.magic THEN {Refused("E_CHECKSUM", "E_CHECKSUM")}
    ELSE IF p.type = UnknownClass THEN {Refused("E_FMR", "E_FMR")}
    ELSE Dispatch(p, "E_OK")

\* fmr_perform: _lf_err is reset once the checksum is right.  A dispatch runs
\* on into the label `fail', so that the error of the result is _lf_err,
\* whatever the handler returned.
fmr_perform(p) ==
    IF Damaged(p) THEN {Refused("E_CHECKSUM", "E_CHECKSUM")}
    ELSE IF p.type = UnknownClass THEN {Refused("E_FMR", "E_FMR")}
    ELSE IF modules = <<>> THEN {Refused("E_NULL", "E_OK")}
    ELSE IF p.type \notin registry THEN {Refused("E_FMR", "E_OK")}
    ELSE Dispatch(p, "E_OK")

\* One turn of main()'s loop, with a packet p and an outcome o of fmr_perform,
\* whose result the socket takes (sent) or refuses.
Serve(p, o, sent) ==
    /\ phase = "serve"
    /\ o \in fmr_perform(p)
    /\ lf_err' = IF sent THEN o.err ELSE "E_COMMUNICATION"
    /\ blocks' = blocks + o.blocks
    /\ modules' = IF o.pushed = 0 THEN modules
                  ELSE [modules EXCEPT ![o.pushed].state = "written"]
    /\ UNCHANGED <<phase, toLoad, registry>>
-----------------------------------------------------------------------------
(***************************************************************************)
(* The device's invariant, whatever environment sends it packets.          *)
(***************************************************************************)
Phases == {"create", "fmr_init", "load", "serve", "exited", "aborted"}

\* Type invariant of the registry, the dispatcher table and the global error.
DevTypeOK ==
    /\ phase \in Phases
    /\ toLoad \in Seq(Module)
    /\ modules \in Seq(Module)
    /\ registry \in SUBSET Classes
    /\ lf_err \in Errors
    /\ blocks \in 0..MaxBlocks

\* Module names are unique in device->modules, and the index that dyld_register
\* gave a module, which fmr_dyld reports to the host, is the position at which
\* fmr_rpc will look for it.
RegistryConsistent ==
    /\ \A i, j \in DOMAIN modules : modules[i].name = modules[j].name => i = j
    /\ \A i \in DOMAIN modules : modules[i].idx = i - 1

\* The part of the inductive invariant that bounds the indices dyld_register
\* assigns: the images still to come, all of which leave their index open, fit
\* behind the modules already registered.
LoadingConsistent ==
    /\ phase = "create" => toLoad = Images
    /\ Len(modules) + Len(toLoad) <= Len(Images)
    /\ \A i \in DOMAIN toLoad : toLoad[i].idx = UINT16_MAX

\* Packets are performed only when every built-in handler is registered and
\* the list of modules is not empty, so the two early exits of fmr_perform
\* (lib/fmr.c, lines 61-71) are never taken.
DispatchReady ==
    /\ phase \in {"load", "serve"} => registry = Classes
    /\ phase # "create" => modules # <<>>

DevInv == DevTypeOK /\ LoadingConsistent /\ RegistryConsistent /\ DispatchReady
==============================================================================
