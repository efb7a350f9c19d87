-------------------------- MODULE FmrExchangeSteps ---------------------------
(***************************************************************************)
(* The two ends of the message runtime.  First the device, for every list  *)
(* of images that leave their index to dyld_register: the boot sequence    *)
(* establishes its invariant, every packet that is performed keeps it, and *)
(* the theorems about the device on its own follow, for every set of       *)
(* packets.  Then what a step of the hosts, of the network or of the       *)
(* device does to each client, for any number of clients, operations and   *)
(* faults: it keeps the types, and keeps a client that has not strayed in  *)
(* step and in range.                                                      *)
(***************************************************************************)
EXTENDS FmrExchange, FmrServer, TLAPS

\* The largest 16-bit index is an integer (uint16_t idx, lib/module.h).
LEMMA Uint16IsInt == UINT16_MAX \in Int
BY SMTT(60) DEF UINT16_MAX

\* A device registers fewer modules than there are 16-bit indices.
LEMMA ImagesBound == Len(Images) \in 1..UINT16_MAX /\ Images \in Seq(Module)
BY DeviceAssumption, Zenon DEF DeviceAssumption

\* Registering an image keeps the registry well typed and consistent: the new
\* module's index is its position, and its name was not there before
\* (dyld_register, lib/dyld.c).
LEMMA RegisterConsistent ==
    ASSUME modules \in Seq(Module), RegistryConsistent,
           NEW image \in Module, image.idx = UINT16_MAX,
           Len(modules) < Len(Images), dyld_register(image)
    PROVE  /\ modules' \in Seq(Module)
           /\ Len(modules') <= Len(modules) + 1
           /\ RegistryConsistent'
<1>1. CASE lf_module_get_by_name(image.name) # {}
  BY <1>1 DEF dyld_register, RegistryConsistent
<1>2. CASE lf_module_get_by_name(image.name) = {}
  <2> DEFINE n == Len(modules)
  <2> DEFINE new == [image EXCEPT !.idx = n]
  <2>1. n \in 0..UINT16_MAX
    BY ImagesBound, Uint16IsInt
  <2>2. /\ new \in Module
        /\ new.name = image.name
        /\ new.idx = n
    BY <2>1, Zenon DEF Module
  <2>3. modules' = Append(modules, new)
    BY <1>2, Zenon DEF dyld_register
  <2>4. /\ modules' \in Seq(Module)
        /\ Len(modules') = n + 1
        /\ modules'[n + 1] = new
        /\ \A i \in 1..n : modules'[i] = modules[i]
    BY <2>2, <2>3
  <2>5. \A i \in 1..n : modules[i].name # new.name
    BY <1>2, <2>2 DEF lf_module_get_by_name
  <2>6. \A i, j \in 1..n : modules[i].name = modules[j].name => i = j
    BY DEF RegistryConsistent
  <2>7. \A i \in 1..n : modules[i].idx = i - 1
    BY DEF RegistryConsistent
  <2>8. DOMAIN modules' = 1..(n + 1) /\ n \in Nat
    BY <2>4
  <2> HIDE DEF n, new
  <2>9. \A i, j \in 1..(n + 1) : modules'[i].name = modules'[j].name => i = j
    BY <2>2, <2>4, <2>5, <2>6, <2>8
  <2>10. \A i \in 1..(n + 1) : modules'[i].idx = i - 1
    BY <2>2, <2>4, <2>7, <2>8
  <2> QED
    BY <2>4, <2>8, <2>9, <2>10 DEF RegistryConsistent, n
<1> QED
  BY <1>1, <1>2, Zenon

\* After dyld_register the list of modules is not empty.
LEMMA RegisterNonempty ==
    ASSUME modules \in Seq(Module), NEW image, dyld_register(image)
    PROVE  modules' # <<>>
<1>1. CASE lf_module_get_by_name(image.name) # {}
  BY <1>1 DEF dyld_register, lf_module_get_by_name
<1>2. CASE lf_module_get_by_name(image.name) = {}
  BY <1>2 DEF dyld_register
<1> QED
  BY <1>1, <1>2, Zenon

\* A handler's outcome is well typed: the error it leaves is one of the
\* library's, it writes the state of a registered module only, and it neither
\* releases a block that is not allocated nor allocates past the bound
\* (fmr_perform and the handlers, lib/fmr.c).
LEMMA OutcomeTyped ==
    ASSUME DevTypeOK, NEW p \in Packet, NEW o \in fmr_perform(p)
    PROVE  /\ o.err \in Errors
           /\ o.pushed \in {0} \cup DOMAIN modules
           /\ blocks + o.blocks \in 0..MaxBlocks
<1>1. MaxBlocks \in Nat
  BY DeviceAssumption, Zenon DEF DeviceAssumption
<1>2. CASE \E e, r \in Errors : o = Refused(r, e)
  BY <1>1, <1>2 DEF Refused, Outcome, DevTypeOK, Errors
<1>3. CASE p.type \in Classes /\ o \in Dispatch(p, "E_OK")
  <2>1. CASE p.type = "rpc"
    <3>1. CASE o \in {Outcome(FALSE, 0, "E_NULL"), Outcome(FALSE, 0, "E_OK")}
      BY <1>1, <3>1 DEF Outcome, DevTypeOK, Errors
    <3>2. CASE \E r \in Returns :
                 o = [Outcome(TRUE, r, "E_OK") EXCEPT !.called = <<p.module, p.function>>]
      BY <1>1, <3>2 DEF Outcome, DevTypeOK, Errors
    <3> QED
      BY <1>3, <2>1, <3>1, <3>2, Zenon DEF Dispatch, fmr_rpc, OutOfMemory
  <2>2. CASE p.type = "push"
    <3>1. CASE o = Outcome(FALSE, 0, "E_OK")
      BY <1>1, <3>1 DEF Outcome, DevTypeOK, Errors
    <3>2. CASE \E i \in WithState : o = [Outcome(TRUE, 0, "E_OK") EXCEPT !.pushed = i]
      BY <1>1, <3>2 DEF Outcome, DevTypeOK, Errors, WithState
    <3> QED
      BY <1>3, <2>2, <3>1, <3>2, Zenon DEF Dispatch, fmr_push
  <2>3. CASE p.type = "pull"
    BY <1>1, <1>3, <2>3 DEF Dispatch, fmr_pull, WithState, Outcome, DevTypeOK, Errors
  <2>4. CASE p.type = "dyld"
    BY <1>1, <1>3, <2>4 DEF Dispatch, fmr_dyld, Outcome, DevTypeOK, Errors
  <2>5. CASE p.type = "malloc"
    <3>1. CASE o = Outcome(FALSE, 0, "E_OK")
      BY <1>1, <3>1 DEF Outcome, DevTypeOK, Errors
    <3>2. CASE blocks < MaxBlocks /\ \E r \in Returns : o = [Outcome(TRUE, r, "E_OK") EXCEPT !.blocks = 1]
      BY <1>1, <3>2 DEF Outcome, DevTypeOK, Errors
    <3> QED
      BY <1>3, <2>5, <3>1, <3>2, Zenon DEF Dispatch, fmr_malloc
  <2>6. CASE p.type = "free"
    BY <1>1, <1>3, <2>6 DEF Dispatch, fmr_free, Outcome, DevTypeOK, Errors
  <2> QED
    BY <1>3, <2>1, <2>2, <2>3, <2>4, <2>5, <2>6, Zenon DEF Classes
<1> QED
  BY <1>2, <1>3, Zenon DEF fmr_perform, Errors, Packet

\* What fmr_perform answers when the handlers are registered and the list is
\* not empty: the error is a function of the packet and of the number of
\* modules (fmr_perform and the handlers, lib/fmr.c), except that fmr_pull may
\* report that the socket refused its write, and fmr_rpc that it found no
\* memory for the arguments of a call.
LEMMA AnswerError ==
    ASSUME DevTypeOK, registry = Classes, modules # <<>>,
           NEW p \in Packet, NEW o \in fmr_perform(p)
    PROVE  /\ o.error = "E_CHECKSUM" <=> Damaged(p)
           /\ o.error = "E_FMR" <=> ~Damaged(p) /\ p.type = UnknownClass
           /\ ~Damaged(p) /\ p.type = "rpc" /\ p.module >= Len(modules) => o.error = "E_NULL"
           /\ o.error = "E_NULL" => /\ ~Damaged(p) /\ p.type = "rpc" /\ o.called = NoCall
                                    /\ p.module >= Len(modules) \/ p.args = "some"
<1> USE DEF Damaged
<1>1. CASE Damaged(p)
  BY <1>1, Zenon DEF fmr_perform, Refused, Outcome
<1>2. CASE ~Damaged(p) /\ p.type = UnknownClass
  BY <1>2, Zenon DEF fmr_perform, Refused, Outcome, UnknownClass
<1>3. CASE ~Damaged(p) /\ p.type \in Classes
  <2>1. o \in Dispatch(p, "E_OK") /\ p.type # UnknownClass
    BY <1>3, Zenon DEF fmr_perform, Classes, UnknownClass
  <2>2. CASE p.type = "rpc"
    <3>1. CASE p.module >= Len(modules)
      BY <1>3, <2>1, <2>2, <3>1 DEF Dispatch, fmr_rpc, Outcome
    <3>2. CASE ~(p.module >= Len(modules))
      <4>1. o.error = "E_OK" \/ (o.error = "E_NULL" /\ o.called = NoCall /\ p.args = "some")
        <5>1. CASE o = Outcome(FALSE, 0, "E_OK")
          BY <5>1, Zenon DEF Outcome
        <5>2. CASE \E r \in Returns :
                     o = [Outcome(TRUE, r, "E_OK") EXCEPT !.called = <<p.module, p.function>>]
          BY <5>2, Zenon DEF Outcome
        <5>3. CASE o = Outcome(FALSE, 0, "E_NULL") /\ p.args = "some"
          BY <5>3, Zenon DEF Outcome
        <5> QED
          BY <2>1, <2>2, <3>2, <5>1, <5>2, <5>3, Zenon DEF Dispatch, fmr_rpc, OutOfMemory
      <4> QED
        BY <1>3, <2>1, <2>2, <3>2, <4>1, Zenon
    <3> QED
      BY <3>1, <3>2, Zenon
  <2>3. CASE p.type # "rpc"
    <3>1. o.error \in {"E_OK", "E_COMMUNICATION"}
      <4>1. CASE p.type = "push"
        BY <2>1, <4>1 DEF Dispatch, fmr_push, Outcome
      <4>2. CASE p.type = "pull"
        BY <2>1, <4>2 DEF Dispatch, fmr_pull, Outcome
      <4>3. CASE p.type = "dyld"
        BY <2>1, <4>3 DEF Dispatch, fmr_dyld, Outcome
      <4>4. CASE p.type = "malloc"
        <5>1. CASE o = Outcome(FALSE, 0, "E_OK")
          BY <5>1, Zenon DEF Outcome
        <5>2. CASE \E r \in Returns : o = [Outcome(TRUE, r, "E_OK") EXCEPT !.blocks = 1]
          BY <5>2, Zenon DEF Outcome
        <5> QED
          BY <2>1, <4>4, <5>1, <5>2, Zenon DEF Dispatch, fmr_malloc
      <4>5. CASE p.type = "free"
        BY <2>1, <4>5, Zenon DEF Dispatch, fmr_free, Outcome
      <4> QED
        BY <1>3, <2>3, <4>1, <4>2, <4>3, <4>4, <4>5, Zenon DEF Classes
    <3> QED
      BY <1>3, <2>1, <2>3, <3>1, Zenon
  <2> QED
    BY <2>2, <2>3, Zenon
<1> QED
  BY <1>1, <1>2, <1>3, Zenon DEF Packet

\* The device starts in its invariant.
LEMMA DevInvInit == DevInit => DevInv
BY ImagesBound, AutoIndexAssumption, DeviceAssumption
   DEF DevInit, DevInv, DevTypeOK, LoadingConsistent, RegistryConsistent, DispatchReady,
       Phases, Errors, AutoIndexAssumption, DeviceAssumption

\* Every step of the boot sequence (utils/fvm/src/main.c) keeps the invariant.
LEMMA BootKeepsInv ==
    ASSUME DevInv, Boot
    PROVE  DevInv'
<1> USE DEF DevInv
<1>1. CASE RegisterDac \/ LoadModule
  <2>1. toLoad # <<>>
    BY <1>1, ImagesBound DEF RegisterDac, LoadModule, LoadingConsistent
  <2>2. /\ Head(toLoad) \in Module
        /\ Head(toLoad).idx = UINT16_MAX
        /\ toLoad' = Tail(toLoad)
        /\ toLoad' \in Seq(Module)
        /\ Len(toLoad') = Len(toLoad) - 1
        /\ \A i \in DOMAIN toLoad' : toLoad'[i].idx = UINT16_MAX
    <3>1. /\ toLoad' = Tail(toLoad)
          /\ toLoad \in Seq(Module)
          /\ \A i \in 1..Len(toLoad) : toLoad[i].idx = UINT16_MAX
      BY <1>1 DEF RegisterDac, LoadModule, DevTypeOK, LoadingConsistent
    <3>2. /\ Head(toLoad) = toLoad[1]
          /\ Len(toLoad) \in Nat \ {0}
          /\ Head(toLoad) \in Module
          /\ toLoad' \in Seq(Module)
          /\ Len(toLoad') = Len(toLoad) - 1
          /\ DOMAIN toLoad' = 1..Len(toLoad')
          /\ \A i \in 1..Len(toLoad') : toLoad'[i] = toLoad[i + 1]
      BY <2>1, <3>1
    <3> QED
      BY <3>1, <3>2
  <2>3. Len(modules) < Len(Images)
    BY <2>1, ImagesBound DEF DevTypeOK, LoadingConsistent
  <2>4. /\ modules' \in Seq(Module)
        /\ Len(modules') <= Len(modules) + 1
        /\ RegistryConsistent'
    BY <1>1, <2>2, <2>3, RegisterConsistent, ZenonT(60) DEF RegisterDac, LoadModule, DevTypeOK
  <2>5. LoadingConsistent'
    BY <1>1, <2>2, <2>4, ImagesBound DEF RegisterDac, LoadModule, LoadingConsistent, DevTypeOK
  <2>6. DispatchReady'
    BY <1>1, RegisterNonempty, Zenon DEF RegisterDac, LoadModule, DispatchReady, DevTypeOK
  <2> QED
    BY <1>1, <2>2, <2>4, <2>5, <2>6, Zenon DEF RegisterDac, LoadModule, DevTypeOK, Phases
<1>2. CASE fmr_init
  BY <1>2, Zenon DEF fmr_init, DevTypeOK, Phases, LoadingConsistent, RegistryConsistent, DispatchReady
<1>3. CASE LoadFails \/ AwaitPackets
  BY <1>3, ZenonT(60) DEF LoadFails, AwaitPackets, DevTypeOK, Phases, LoadingConsistent,
              RegistryConsistent, DispatchReady
<1> QED
  BY <1>1, <1>2, <1>3, Zenon DEF Boot

\* Performing a packet keeps the invariant and the number of modules.
LEMMA ServeKeepsInv ==
    ASSUME DevInv, NEW p \in Packet, NEW o \in fmr_perform(p), NEW sent \in BOOLEAN,
           Serve(p, o, sent)
    PROVE  DevInv' /\ Len(modules') = Len(modules)
<1> USE DEF DevInv
<1>1. /\ o.err \in Errors
      /\ o.pushed \in {0} \cup DOMAIN modules
      /\ blocks + o.blocks \in 0..MaxBlocks
  BY OutcomeTyped, Zenon
<1>2. /\ modules' \in Seq(Module)
      /\ Len(modules') = Len(modules)
      /\ \A i \in DOMAIN modules : /\ modules'[i].name = modules[i].name
                                   /\ modules'[i].idx = modules[i].idx
  <2>1. CASE o.pushed = 0
    BY <2>1, Zenon DEF Serve, DevTypeOK
  <2>2. CASE o.pushed \in DOMAIN modules
    <3> DEFINE k == o.pushed
    <3>1. modules' = [modules EXCEPT ![k] = [modules[k] EXCEPT !.state = "written"]]
      BY <2>2 DEF Serve, DevTypeOK
    <3>2. /\ modules \in Seq(Module)
          /\ k \in 1..Len(modules)
          /\ modules[k] \in Module
      BY <2>2 DEF DevTypeOK
    <3> HIDE DEF k
    <3> DEFINE m == [modules[k] EXCEPT !.state = "written"]
    <3>3. m \in Module /\ m.name = modules[k].name /\ m.idx = modules[k].idx
      BY <3>2, Zenon DEF Module, State
    <3> HIDE DEF m
    <3>4. modules' \in Seq(Module) /\ Len(modules') = Len(modules)
      BY <3>1, <3>2, <3>3 DEF m
    <3>5. \A i \in 1..Len(modules) : modules'[i] = IF i = k THEN m ELSE modules[i]
      BY <3>1, <3>2 DEF m
    <3> QED
      BY <3>2, <3>3, <3>4, <3>5
  <2> QED
    BY <1>1, <2>1, <2>2, Zenon
<1>3. RegistryConsistent'
  <2>1. DOMAIN modules' = DOMAIN modules
    BY <1>2 DEF DevTypeOK
  <2> QED
    BY <1>2, <2>1, ZenonT(60) DEF RegistryConsistent
<1> QED
  BY <1>1, <1>2, <1>3 DEF Serve, DevTypeOK, LoadingConsistent, DispatchReady, Errors
-----------------------------------------------------------------------------
\* The device's invariant holds whatever packets arrive.
THEOREM DeviceInvariant == ServerSpec => []DevInv
<1>1. ServerInit => DevInv
  BY DevInvInit, Zenon DEF ServerInit
<1>2. DevInv /\ [ServerNext]_serverVars => DevInv'
  <2> SUFFICES ASSUME DevInv, [ServerNext]_serverVars
               PROVE  DevInv'
    BY Zenon
  <2>1. CASE BootStep
    BY <2>1, BootKeepsInv, Zenon DEF BootStep
  <2>2. CASE Perform
    BY <2>2, ServeKeepsInv, InputsAssumption, Zenon DEF Perform, InputsAssumption
  <2>3. CASE FreeAborts
    BY <2>3, Zenon DEF FreeAborts, DevInv, DevTypeOK, Phases, LoadingConsistent, RegistryConsistent,
                DispatchReady
  <2>4. CASE UNCHANGED serverVars
    BY <2>4, Zenon DEF serverVars, devVars, DevInv, DevTypeOK, LoadingConsistent, RegistryConsistent,
                DispatchReady
  <2> QED
    BY <2>1, <2>2, <2>3, <2>4, Zenon DEF ServerNext
<1> QED
  BY <1>1, <1>2, PTL DEF ServerSpec

\* Every reachable state of the device is well typed; in particular fmr_free
\* never makes the number of allocated blocks negative.
THEOREM TypeCorrect == ServerSpec => []DevTypeOK
BY DeviceInvariant, PTL DEF DevInv

\* The registry stays consistent whatever packets arrive: names are unique and
\* every index that fmr_dyld can report is the position at which fmr_rpc looks.
THEOREM RegistryAlwaysConsistent == ServerSpec => []RegistryConsistent
BY DeviceInvariant, PTL DEF DevInv

\* The error of an answer is about the packet it answers, for every sequence
\* of packets: an error that an earlier packet, or a refused write, left in
\* _lf_err never shows in a later answer (lib/fmr.c, lines 58 and 86).
THEOREM ErrorsAreOfTheirPacket == ServerSpec => []ErrorIsOfThisPacket
<1>1. ServerInit => NotBeforeBoot /\ ErrorIsOfThisPacket
  <2> SUFFICES ASSUME ServerInit PROVE NotBeforeBoot /\ ErrorIsOfThisPacket
    BY Zenon
  <2>1. /\ last.p.magic /\ last.p.crc
        /\ last.p.type = "dyld"
        /\ last.o.error = "E_OK"
        /\ phase = "create"
    BY Zenon DEF ServerInit, DevInit, Refused, Outcome
  <2> QED
    BY <2>1, Zenon DEF NotBeforeBoot, ErrorIsOfThisPacket, Damaged, UnknownClass
<1>2. ASSUME DevInv, NotBeforeBoot, ErrorIsOfThisPacket, [ServerNext]_serverVars
      PROVE  NotBeforeBoot' /\ ErrorIsOfThisPacket'
  <2> USE <1>2
  <2>1. CASE BootStep
    <3>1. last' = last /\ phase \in {"create", "fmr_init", "load"}
      BY <2>1, Zenon DEF BootStep, Boot, RegisterDac, fmr_init, LoadModule, LoadFails, AwaitPackets
    <3> QED
      BY <3>1, Zenon DEF NotBeforeBoot, ErrorIsOfThisPacket, Damaged, UnknownClass
  <2>2. CASE Perform
    <3>1. PICK p \in Inputs, sent \in BOOLEAN :
                 \E o \in fmr_perform(p) : Serve(p, o, sent) /\ last' = [p |-> p, o |-> o]
      BY <2>2, Zenon DEF Perform
    <3>2. PICK o \in fmr_perform(p) : Serve(p, o, sent) /\ last' = [p |-> p, o |-> o]
      BY <3>1, Zenon
    <3>3. registry = Classes /\ modules # <<>> /\ p \in Packet /\ DevTypeOK
      BY <3>2, InputsAssumption, Zenon DEF Serve, DispatchReady, InputsAssumption, DevInv
    <3>4. Len(modules') = Len(modules)
      BY <3>2, <3>3, ServeKeepsInv, Zenon
    <3>5. ErrorIsOfThisPacket'
      BY <3>2, <3>3, <3>4, AnswerError, Zenon DEF ErrorIsOfThisPacket, Damaged
    <3> QED
      BY <3>2, <3>5, Zenon DEF Serve, NotBeforeBoot
  <2>3. CASE FreeAborts \/ UNCHANGED serverVars
    BY <2>3, ZenonT(60) DEF FreeAborts, serverVars, devVars, NotBeforeBoot, ErrorIsOfThisPacket, Damaged
  <2> QED
    BY <2>1, <2>2, <2>3, Zenon DEF ServerNext
<1> QED
  BY <1>1, <1>2, DeviceInvariant, PTL DEF ServerSpec

\* A damaged packet changes nothing but _lf_err (lib/fmr.c, lines 47-56).
THEOREM DamagedPacketsAreHarmless == ServerSpec => DamageIsHarmless
<1>1. ASSUME DevTypeOK, [ServerNext]_serverVars
      PROVE  [Damaged(last'.p) => /\ last'.o.called = NoCall
                                  /\ UNCHANGED <<modules, blocks>>]_last
  <2> SUFFICES ASSUME last' # last, Damaged(last'.p)
               PROVE  last'.o.called = NoCall /\ UNCHANGED <<modules, blocks>>
    BY Zenon
  <2>1. Perform
    BY <1>1, Zenon DEF ServerNext, BootStep, FreeAborts, serverVars
  <2>2. PICK p \in Inputs, sent \in BOOLEAN :
               \E o \in fmr_perform(p) : Serve(p, o, sent) /\ last' = [p |-> p, o |-> o]
    BY <2>1, Zenon DEF Perform
  <2>3. PICK o \in fmr_perform(p) : Serve(p, o, sent) /\ last' = [p |-> p, o |-> o]
    BY <2>2, Zenon
  <2>4. o = Refused("E_CHECKSUM", "E_CHECKSUM")
    BY <2>3, Zenon DEF fmr_perform, Damaged
  <2>5. o.called = NoCall /\ o.pushed = 0 /\ o.blocks = 0
    BY <2>4, Zenon DEF Refused, Outcome
  <2> QED
    BY <1>1, <2>3, <2>5 DEF Serve, DevTypeOK
<1> QED
  BY <1>1, TypeCorrect, PTL DEF ServerSpec, DamageIsHarmless
-----------------------------------------------------------------------------
\* A conversion to an unsigned type of n values keeps the values that fit.
LEMMA Modulo ==
    ASSUME NEW n \in Nat, n > 0
    PROVE  /\ \A v \in Int : v % n \in 0..n - 1
           /\ \A v \in 0..n - 1 : v % n = v
OBVIOUS

\* The conversions to uint16_t and uint8_t give values of their types, and
\* keep the values that fit (lib/dyld.c, line 174; lib/libflipper.c, line 128).
LEMMA Conversions ==
    /\ \A v \in Int : v % (UINT16_MAX + 1) \in 0..UINT16_MAX
    /\ \A v \in 0..UINT16_MAX : v % (UINT16_MAX + 1) = v
    /\ \A v \in Int : v % (UINT8_MAX + 1) \in 0..UINT8_MAX
    /\ \A v \in 0..UINT8_MAX : v % (UINT8_MAX + 1) = v
<1>1. ASSUME NEW m \in Nat
      PROVE  /\ \A v \in Int : v % (m + 1) \in 0..m
             /\ \A v \in 0..m : v % (m + 1) = v
  <2>1. m + 1 \in Nat /\ m + 1 > 0 /\ (m + 1) - 1 = m
    OBVIOUS
  <2> DEFINE n == m + 1
  <2>2. /\ \A v \in Int : v % n \in 0..n - 1
        /\ \A v \in 0..n - 1 : v % n = v
    <3> HIDE DEF n
    <3> QED BY <2>1, Modulo, Zenon DEF n
  <2> QED
    BY <2>1, <2>2, Zenon
<1>2. UINT16_MAX \in Nat /\ UINT8_MAX \in Nat
  BY DEF UINT16_MAX, UINT8_MAX
<1> QED
  BY <1>1, <1>2, Zenon

\* An answer of fmr_perform is well typed: its value, its error and the call
\* it reports (lib/fmr.c).
LEMMA AnswerTyped ==
    ASSUME DevTypeOK, NEW p \in Packet, NEW o \in fmr_perform(p)
    PROVE  o.value \in Int /\ o.error \in Errors /\ o.called \in Seq(Nat)
<1>1. Returns \subseteq Nat
  BY DeviceAssumption, Zenon DEF DeviceAssumption
<1>2. NoCall \in Seq(Nat)
  BY DEF NoCall
<1>3. CASE \E e, r \in Errors : o = Refused(r, e)
  BY <1>2, <1>3 DEF Refused, Outcome
<1>4. CASE \/ o = Outcome(FALSE, 0, "E_OK") \/ o = Outcome(FALSE, 0, "E_NULL")
           \/ o = Outcome(FALSE, -1, "E_COMMUNICATION")
  BY <1>2, <1>4 DEF Outcome, Errors
<1>5. CASE p.type \in Classes /\ o \in Dispatch(p, "E_OK")
  <2>1. CASE p.type = "rpc"
    <3>2. CASE \E r \in Returns :
                 o = [Outcome(TRUE, r, "E_OK") EXCEPT !.called = <<p.module, p.function>>]
      <4>1. <<p.module, p.function>> \in Seq(Nat)
        BY DEF Packet, UINT8_MAX
      <4> QED
        BY <1>1, <3>2, <4>1 DEF Outcome, Errors
    <3> QED
      BY <1>4, <1>5, <2>1, <3>2, Zenon DEF Dispatch, fmr_rpc, OutOfMemory
  <2>2. CASE p.type = "push"
    <3>1. CASE \E i \in WithState : o = [Outcome(TRUE, 0, "E_OK") EXCEPT !.pushed = i]
      BY <1>2, <3>1 DEF Outcome, Errors
    <3> QED
      BY <1>4, <1>5, <2>2, <3>1, Zenon DEF Dispatch, fmr_push
  <2>3. CASE p.type = "pull"
    <3>1. CASE o = [Outcome(TRUE, 0, "E_OK") EXCEPT !.wrote = 1]
      BY <1>2, <3>1 DEF Outcome, Errors
    <3> QED
      BY <1>4, <1>5, <2>3, <3>1, Zenon DEF Dispatch, fmr_pull
  <2>4. CASE p.type = "dyld"
    <3>1. \A i \in DOMAIN modules : modules[i] \in Module
      BY DEF DevTypeOK
    <3>2. \A m \in Module : m.idx \in Int
      BY Uint16IsInt DEF Module
    <3>3. PICK name \in Names \cup {NoName} :
             o = IF lf_module_get_by_name(name) = {} THEN Outcome(FALSE, 0, "E_OK")
                 ELSE Outcome(TRUE, modules[CHOOSE i \in lf_module_get_by_name(name) : TRUE].idx, "E_OK")
      BY <1>5, <2>4, Zenon DEF Dispatch, fmr_dyld
    <3>4. CASE lf_module_get_by_name(name) # {}
      <4> DEFINE k == CHOOSE i \in lf_module_get_by_name(name) : TRUE
      <4>1. k \in DOMAIN modules
        BY <3>4, Zenon DEF lf_module_get_by_name
      <4>2. modules[k].idx \in Int
        BY <3>1, <3>2, <4>1, Zenon
      <4> QED
        BY <1>2, <3>3, <3>4, <4>2, Zenon DEF Outcome, Errors
    <3> QED
      BY <1>4, <3>3, <3>4, Zenon
  <2>5. CASE p.type = "malloc"
    <3>1. CASE \E r \in Returns : o = [Outcome(TRUE, r, "E_OK") EXCEPT !.blocks = 1]
      BY <1>1, <1>2, <3>1 DEF Outcome, Errors
    <3> QED
      BY <1>4, <1>5, <2>5, <3>1, Zenon DEF Dispatch, fmr_malloc
  <2>6. CASE p.type = "free"
    <3>1. CASE \E b \in {0, 1} : o = [Outcome(TRUE, 0, "E_OK") EXCEPT !.blocks = -b]
      BY <1>2, <3>1 DEF Outcome, Errors
    <3> QED
      BY <1>5, <2>6, <3>1, Zenon DEF Dispatch, fmr_free
  <2> QED
    BY <1>5, <2>1, <2>2, <2>3, <2>4, <2>5, <2>6, Zenon DEF Classes
<1> QED
  BY <1>3, <1>5, Zenon DEF fmr_perform, Errors, Packet

\* A lookup that reaches a device that serves is answered with the index of
\* one of its modules, 0 when the name is not found (fmr_dyld, lib/fmr.c).
LEMMA LookupAnswer ==
    ASSUME DevInv, phase = "serve", NEW p \in Packet, ~Damaged(p), p.type = "dyld",
           NEW o \in fmr_perform(p)
    PROVE  o.value \in 0..Len(modules) - 1
<1>1. registry = Classes /\ modules # <<>> /\ modules \in Seq(Module)
  BY Zenon DEF DevInv, DispatchReady, DevTypeOK
<1>2. Len(modules) \in Nat \ {0}
  BY <1>1
<1>3. o \in fmr_dyld("E_OK")
  BY <1>1, Zenon DEF fmr_perform, Dispatch, Classes, UnknownClass
<1>4. \A i \in DOMAIN modules : modules[i].idx \in 0..Len(modules) - 1
  BY <1>1 DEF DevInv, RegistryConsistent
<1>5. PICK name \in Names \cup {NoName} :
         o = IF lf_module_get_by_name(name) = {} THEN Outcome(FALSE, 0, "E_OK")
             ELSE Outcome(TRUE, modules[CHOOSE i \in lf_module_get_by_name(name) : TRUE].idx, "E_OK")
  BY <1>3, ZenonT(60) DEF fmr_dyld
<1>6. CASE lf_module_get_by_name(name) = {}
  BY <1>2, <1>5, <1>6 DEF Outcome
<1>7. CASE lf_module_get_by_name(name) # {}
  <2> DEFINE k == CHOOSE i \in lf_module_get_by_name(name) : TRUE
  <2>1. k \in DOMAIN modules
    BY <1>7, Zenon DEF lf_module_get_by_name
  <2>2. o.value = modules[k].idx
    BY <1>5, <1>7, Zenon DEF Outcome
  <2> QED
    BY <1>4, <2>1, <2>2, Zenon
<1> QED
  BY <1>6, <1>7, Zenon

-----------------------------------------------------------------------------
\* The packets that a host writes are well typed (lib/dyld.c, lines 130-158;
\* lib/libflipper.c, lines 126-157).
LEMMA HostPackets ==
    /\ LookupPacket \in Packet
    /\ \A idx \in 0..UINT16_MAX, f \in 0..UINT8_MAX, args \in Carried :
          CallPacket(idx, f, args) \in Packet
<1>1. \A idx \in 0..UINT16_MAX : idx % (UINT8_MAX + 1) \in 0..UINT8_MAX
  BY Conversions, Uint16IsInt
<1>2. 0 \in 0..UINT8_MAX
  BY DEF UINT8_MAX
<1> QED
  BY <1>1, <1>2, Zenon DEF LookupPacket, CallPacket, Packet, Classes, Carried

\* A host's list of modules stays well typed when dyld_register adds to it.
LEMMA RegisterTyped ==
    ASSUME TypeOK, NEW c \in Clients, NEW name \in Names \cup {NoName},
           NEW idx \in 0..UINT16_MAX, Register(c, name, idx)
    PROVE  cache' \in [Clients -> Seq([name : Names \cup {NoName}, idx : 0..UINT16_MAX])]
<1> DEFINE E == [name : Names \cup {NoName}, idx : 0..UINT16_MAX]
<1> DEFINE n == IF idx = UINT16_MAX THEN Len(cache[c]) % (UINT16_MAX + 1) ELSE idx
<1>1. cache \in [Clients -> Seq(E)]
  BY Zenon DEF TypeOK
<1>2. Len(cache[c]) \in Int
  BY <1>1
<1>3. n \in 0..UINT16_MAX
  BY <1>2, Conversions, Zenon
<1> HIDE DEF n
<1>4. [name |-> name, idx |-> n] \in E
  BY <1>3, Zenon
<1>5. cache' = [cache EXCEPT ![c] = Append(cache[c], [name |-> name, idx |-> n])]
  BY <1>1, Zenon DEF Register, n
<1> HIDE DEF E
<1>6. Append(cache[c], [name |-> name, idx |-> n]) \in Seq(E)
  BY <1>1, <1>4
<1> QED
  BY <1>1, <1>5, <1>6, Zenon DEF E

\* How an operation goes on or ends is well typed.
LEMMA EndsTyped ==
    ASSUME TypeOK, NEW c \in Clients, job' \in [Clients -> Job]
    PROVE  /\ \A to \in PCs : Goes(c, to) =>
                 pc' \in [Clients -> PCs] /\ done' \in [Clients -> Done]
           /\ \A ret \in {"none", "success", "error"}, e \in Errors, k \in Seq(Nat) :
                 Ends(c, ret, e, k) => pc' \in [Clients -> PCs] /\ done' \in [Clients -> Done]
           /\ Fails(c) => pc' \in [Clients -> PCs] /\ done' \in [Clients -> Done]
           /\ ModuleFound(c) => pc' \in [Clients -> PCs] /\ done' \in [Clients -> Done]
<1>1. \A to \in PCs : Goes(c, to) =>
          pc' \in [Clients -> PCs] /\ done' \in [Clients -> Done]
  BY ZenonT(60) DEF Goes, TypeOK
<1>2. \A ret \in {"none", "success", "error"}, e \in Errors, k \in Seq(Nat) :
          Ends(c, ret, e, k) => pc' \in [Clients -> PCs] /\ done' \in [Clients -> Done]
  BY DEF Ends, TypeOK, Done, PCs
<1>3. NoCall \in Seq(Nat) /\ "E_OK" \in Errors
  BY DEF NoCall, Errors
<1>4. Fails(c) => pc' \in [Clients -> PCs] /\ done' \in [Clients -> Done]
  BY <1>2, <1>3, Zenon DEF Fails
<1> QED
  BY <1>1, <1>2, <1>4, Zenon DEF ModuleFound, PCs

\* What a host writes to and reads from the network keeps the network typed.
LEMMA NetworkTyped ==
    ASSUME TypeOK, NEW c \in Clients
    PROVE  /\ \A p \in Packet : Sends(c, p) =>
                 /\ reqs' \subseteq Request /\ reps' \subseteq Reply
                 /\ seq' \in [Clients -> Nat] /\ faults' \in 0..MaxFaults
           /\ SendFails =>
                 /\ reqs' \subseteq Request /\ reps' \subseteq Reply
                 /\ seq' \in [Clients -> Nat] /\ faults' \in 0..MaxFaults
           /\ \A r \in reps : Reads(c, r) =>
                 /\ reqs' \subseteq Request /\ reps' \subseteq Reply
                 /\ seq' \in [Clients -> Nat] /\ faults' \in 0..MaxFaults
                 /\ strayed' \subseteq Clients /\ crossed' \subseteq Clients
           /\ ReadFails(c) =>
                 /\ reqs' \subseteq Request /\ reps' \subseteq Reply
                 /\ seq' \in [Clients -> Nat] /\ faults' \in 0..MaxFaults
                 /\ strayed' \subseteq Clients /\ crossed' \subseteq Clients
<1> USE ExchangeAssumption DEF ExchangeAssumption
<1>1. \A k : Fault(k) => faults' \in 0..MaxFaults
  BY DEF Fault, TypeOK
<1>2. ASSUME NEW p \in Packet, Sends(c, p)
      PROVE  /\ reqs' \subseteq Request /\ reps' \subseteq Reply
             /\ seq' \in [Clients -> Nat] /\ faults' \in 0..MaxFaults
  <2>1. [from |-> c, seq |-> seq[c] + 1, copy |-> 0, p |-> p] \in Request
    BY DEF TypeOK, Request
  <2> QED
    BY <1>2, <2>1 DEF Sends, TypeOK
<1>3. SendFails => /\ reqs' \subseteq Request /\ reps' \subseteq Reply
                   /\ seq' \in [Clients -> Nat] /\ faults' \in 0..MaxFaults
  BY <1>1, Zenon DEF SendFails, TypeOK
<1>4. ASSUME NEW r \in reps, Reads(c, r)
      PROVE  /\ reqs' \subseteq Request /\ reps' \subseteq Reply
             /\ seq' \in [Clients -> Nat] /\ faults' \in 0..MaxFaults
             /\ strayed' \subseteq Clients /\ crossed' \subseteq Clients
  BY <1>4, Zenon DEF Reads, TypeOK
<1>5. ReadFails(c) => /\ reqs' \subseteq Request /\ reps' \subseteq Reply
                      /\ seq' \in [Clients -> Nat] /\ faults' \in 0..MaxFaults
                      /\ strayed' \subseteq Clients /\ crossed' \subseteq Clients
  BY <1>1, Zenon DEF ReadFails, TypeOK
<1> QED
  BY <1>2, <1>3, <1>4, <1>5, ZenonT(60)

\* The device's answers and the network's faults keep the network typed.
LEMMA EnvironmentKeepsTypes ==
    ASSUME TypeOK, DevInv, Boots \/ Lose \/ Duplicate \/ \E c \in Clients : Serves(c)
    PROVE  TypeOK'
<1> USE ExchangeAssumption DEF ExchangeAssumption
<1>1. CASE Boots
  BY <1>1, Zenon DEF Boots, netVars, hostVars, TypeOK
<1>2. \A k : Fault(k) => faults' \in 0..MaxFaults /\ faults' \in Nat
  BY DEF Fault, TypeOK
<1>3. CASE Lose
  BY <1>2, <1>3, Zenon DEF Lose, hostVars, TypeOK
<1>4. CASE Duplicate
  <2>1. ASSUME NEW r \in reqs, reqs' = reqs \cup {[r EXCEPT !.copy = faults']}
        PROVE  reqs' \subseteq Request /\ r.from \in Clients
    BY <1>2, <1>4, <2>1, ZenonT(60) DEF Duplicate, TypeOK, Request
  <2>2. ASSUME NEW r \in reps, reps' = reps \cup {[r EXCEPT !.copy = faults']}
        PROVE  reps' \subseteq Reply /\ r.to \in Clients
    BY <1>2, <1>4, <2>2, ZenonT(60) DEF Duplicate, TypeOK, Reply
  <2> QED
    BY <1>2, <1>4, <2>1, <2>2, ZenonT(60) DEF Duplicate, hostVars, TypeOK
<1>5. ASSUME NEW c \in Clients, Serves(c)
      PROVE  TypeOK'
  <2>1. PICK r \in reqs, sent \in BOOLEAN : \E o \in fmr_perform(r.p) :
           /\ reqs' = reqs \ {r}
           /\ \/ sent /\ reps' = reps \cup {Answer(r, o)} /\ UNCHANGED faults
              \/ ~sent /\ Fault("loss") /\ UNCHANGED reps
           /\ UNCHANGED <<seq, strayed, hostVars>>
    BY <1>5, ZenonT(60) DEF Serves
  <2>2. PICK o \in fmr_perform(r.p) :
           /\ reqs' = reqs \ {r}
           /\ \/ sent /\ reps' = reps \cup {Answer(r, o)} /\ UNCHANGED faults
              \/ ~sent /\ Fault("loss") /\ UNCHANGED reps
           /\ UNCHANGED <<seq, strayed, hostVars>>
    BY <2>1, Zenon
  <2>3. r \in Request
    BY Zenon DEF TypeOK
  <2>4. r.p \in Packet
    BY <2>3, Zenon DEF Request
  <2>5. o.value \in Int /\ o.error \in Errors /\ o.called \in Seq(Nat)
    BY <2>4, AnswerTyped, Zenon DEF DevInv
  <2>6. Answer(r, o) \in Reply
    BY <2>3, <2>5, Zenon DEF Answer, Request, Reply
  <2> QED
    BY <1>2, <2>2, <2>6, ZenonT(60) DEF hostVars, TypeOK
<1> QED
  BY <1>1, <1>3, <1>4, <1>5, Zenon

\* A step of a lookup that has its answer, or none, is well typed.
LEMMA LookupTyped ==
    ASSUME TypeOK, NEW c \in Clients
    PROVE  /\ LookupFails(c) =>
                 /\ pc' \in [Clients -> PCs] /\ done' \in [Clients -> Done]
                 /\ job' \in [Clients -> Job] /\ cache' = cache
           /\ \A idx \in 0..UINT16_MAX : LookupGives(c, idx) =>
                 /\ pc' \in [Clients -> PCs] /\ done' \in [Clients -> Done]
                 /\ job' \in [Clients -> Job]
                 /\ cache' \in [Clients -> Seq([name : Names \cup {NoName}, idx : 0..UINT16_MAX])]
<1>1. NoCall \in Seq(Nat) /\ "E_OK" \in Errors
  BY DEF NoCall, Errors
<1>2. ASSUME LookupFails(c)
      PROVE  /\ pc' \in [Clients -> PCs] /\ done' \in [Clients -> Done]
             /\ job' \in [Clients -> Job] /\ cache' = cache
  <2>1. job' \in [Clients -> Job] /\ cache' = cache
    BY <1>2, Zenon DEF LookupFails, TypeOK
  <2> QED
    BY <1>1, <1>2, <2>1, EndsTyped, Zenon DEF LookupFails
<1>3. ASSUME NEW idx \in 0..UINT16_MAX, LookupGives(c, idx)
      PROVE  /\ pc' \in [Clients -> PCs] /\ done' \in [Clients -> Done]
             /\ job' \in [Clients -> Job]
             /\ cache' \in [Clients -> Seq([name : Names \cup {NoName}, idx : 0..UINT16_MAX])]
  <2>1. job' \in [Clients -> Job]
    BY <1>3, Zenon DEF LookupGives, TypeOK, Job
  <2>2. job[c].name \in Names \cup {NoName}
    BY Zenon DEF TypeOK, Job
  <2>3. CASE job[c].op = "find"
    BY <1>1, <1>3, <2>1, <2>3, EndsTyped, Zenon DEF LookupGives, TypeOK
  <2>4. CASE job[c].op = "index"
    <3>1. \E to \in PCs : Goes(c, to)
      BY <1>3, <2>4, Zenon DEF LookupGives, PCs
    <3> QED
      BY <1>3, <2>1, <2>4, <3>1, EndsTyped, Zenon DEF LookupGives, TypeOK
  <2>5. CASE job[c].op \notin {"find", "index"}
    <3>1. Register(c, job[c].name, idx) /\ ModuleFound(c)
      BY <1>3, <2>5, Zenon DEF LookupGives
    <3> QED
      BY <2>1, <2>2, <3>1, EndsTyped, RegisterTyped, Zenon
  <2> QED
    BY <2>3, <2>4, <2>5, Zenon
<1> QED
  BY <1>2, <1>3, Zenon

\* An answer is well typed, and so is the index a lookup takes from it.
LEMMA ReplyTyped ==
    ASSUME TypeOK, NEW r \in reps
    PROVE  /\ Index(r) \in 0..UINT16_MAX
           /\ r.error \in Errors /\ r.called \in Seq(Nat)
<1>1. r \in Reply
  BY Zenon DEF TypeOK
<1>2. r.value \in Int /\ r.error \in Errors /\ r.called \in Seq(Nat)
  BY <1>1, Zenon DEF Reply
<1> QED
  BY <1>2, Conversions, Zenon DEF Index

\* Every step of a host keeps the types.
LEMMA HostKeepsTypes ==
    ASSUME TypeOK, NEW c \in Clients, Begin(c) \/ Host(c)
    PROVE  TypeOK'
<1> DEFINE CacheT == Seq([name : Names \cup {NoName}, idx : 0..UINT16_MAX])
<1> USE ExchangeAssumption DEF ExchangeAssumption
<1>t. /\ NoCall \in Seq(Nat) /\ "E_OK" \in Errors
      /\ {"ask", "lookup", "relookup", "send", "call", "push", "drain"} \subseteq PCs
  BY DEF NoCall, Errors, PCs
<1>j. /\ job[c].name \in Names \cup {NoName}
      /\ job[c].idx \in 0..UINT16_MAX
      /\ job[c].function \in 0..UINT8_MAX /\ job[c].args \in Carried
  BY Zenon DEF TypeOK, Job
<1>1. CASE Begin(c)
  <2>1. PICK j \in Jobs :
          /\ job' = [job EXCEPT ![c] = j]
          /\ Goes(c, "ask") \/ ModuleFound(c)
    BY <1>1, Zenon DEF Begin
  <2>2. j \in Job
    <3>1. 0 \in 0..UINT16_MAX /\ 0 \in 0..UINT8_MAX
      BY DEF UINT16_MAX, UINT8_MAX
    <3> QED
      BY <3>1, ZenonT(60) DEF Jobs, Job
  <2>3. job' \in [Clients -> Job]
    BY <2>1, <2>2, Zenon DEF TypeOK
  <2>4. pc' \in [Clients -> PCs] /\ done' \in [Clients -> Done]
    BY <1>t, <2>1, <2>3, EndsTyped, ZenonT(60)
  <2>5. ops' \in [Clients -> 0..MaxOps]
    BY <1>1 DEF Begin, TypeOK
  <2> QED
    BY <1>1, <2>3, <2>4, <2>5, ZenonT(60) DEF Begin, netVars, TypeOK
<1>2. CASE Ask(c)
  <2>1. CASE Sends(c, LookupPacket) /\ Goes(c, "lookup") /\ UNCHANGED <<job, cache>>
    <3>1. job' \in [Clients -> Job]
      BY <2>1, Zenon DEF TypeOK
    <3>2. pc' \in [Clients -> PCs] /\ done' \in [Clients -> Done]
      BY <1>t, <2>1, <3>1, EndsTyped, Zenon
    <3>3. /\ reqs' \subseteq Request /\ reps' \subseteq Reply
          /\ seq' \in [Clients -> Nat] /\ faults' \in 0..MaxFaults
      BY <2>1, NetworkTyped, HostPackets, Zenon
    <3> QED
      BY <1>2, <2>1, <3>2, <3>3, Zenon DEF Ask, TypeOK
  <2>2. CASE SendFails /\ LookupFails(c)
    BY <1>2, <2>2, NetworkTyped, LookupTyped, Zenon DEF Ask, TypeOK
  <2> QED
    BY <1>2, <2>1, <2>2, Zenon DEF Ask
<1>3. CASE Lookup(c)
  <2>1. CASE ReadFails(c) /\ LookupFails(c)
    BY <1>3, <2>1, NetworkTyped, LookupTyped, Zenon DEF Lookup, TypeOK
  <2>2. ASSUME NEW r \in reps, Reads(c, r), LookupGives(c, Index(r)) \/ LookupFails(c)
        PROVE  TypeOK'
    <3>1. Index(r) \in 0..UINT16_MAX
      BY ReplyTyped, Zenon
    <3>2. /\ pc' \in [Clients -> PCs] /\ done' \in [Clients -> Done]
          /\ job' \in [Clients -> Job] /\ cache' \in [Clients -> CacheT]
      BY <2>2, <3>1, LookupTyped, Zenon DEF TypeOK
    <3> QED
      BY <1>3, <2>2, <3>2, NetworkTyped, ZenonT(60) DEF Lookup, TypeOK
  <2> QED
    BY <1>3, <2>1, <2>2, Zenon DEF Lookup
<1>4. CASE Reask(c) \/ Relookup(c)
  <2>1. job' \in [Clients -> Job] /\ ops' = ops
    BY <1>4, Zenon DEF Reask, Relookup, TypeOK
  <2>2. pc' \in [Clients -> PCs] /\ done' \in [Clients -> Done]
    BY <1>t, <1>4, <2>1, EndsTyped, Zenon DEF Reask, Relookup
  <2>3. cache' \in [Clients -> CacheT]
    BY <1>j, <1>4, ReplyTyped, RegisterTyped, Zenon DEF Reask, Relookup, TypeOK
  <2>4. /\ reqs' \subseteq Request /\ reps' \subseteq Reply
        /\ seq' \in [Clients -> Nat] /\ faults' \in 0..MaxFaults
        /\ strayed' \subseteq Clients /\ crossed' \subseteq Clients
    BY <1>4, NetworkTyped, HostPackets, Zenon DEF Reask, Relookup, TypeOK
  <2> QED
    BY <2>1, <2>2, <2>3, <2>4, ZenonT(60) DEF TypeOK
<1>5. CASE SendCall(c) \/ PushCall(c)
  <2>1. job' \in [Clients -> Job] /\ ops' = ops /\ cache' = cache /\ crossed' = crossed
    BY <1>5, Zenon DEF SendCall, PushCall, TypeOK
  <2>2. pc' \in [Clients -> PCs] /\ done' \in [Clients -> Done]
    BY <1>t, <1>5, <2>1, EndsTyped, Zenon DEF SendCall, PushCall
  <2>3. \A i \in Cached(c, job[c].name) : cache[c][i].idx \in 0..UINT16_MAX
    <3> DEFINE E == [name : Names \cup {NoName}, idx : 0..UINT16_MAX]
    <3>1. cache[c] \in Seq(E)
      BY Zenon DEF TypeOK
    <3>2. \A e \in E : e.idx \in 0..UINT16_MAX
      BY Zenon
    <3> HIDE DEF E
    <3>3. \A i \in DOMAIN cache[c] : cache[c][i] \in E
      BY <3>1
    <3> QED
      BY <3>2, <3>3, Zenon DEF Cached
  <2>4. SendFails \/ \E p \in Packet : Sends(c, p)
    <3>1. 0 \in 0..UINT8_MAX
      BY SMTT(60) DEF UINT8_MAX
    <3>2. \A idx \in 0..UINT16_MAX : CallPacket(idx, 0, "some") \in Packet
      BY <3>1, HostPackets, Zenon DEF Carried
    <3>3. CallPacket(job[c].idx, job[c].function, job[c].args) \in Packet
      BY <1>j, HostPackets, Zenon
    <3> QED
      BY <1>5, <2>3, <3>2, <3>3, Zenon DEF SendCall, PushCall
  <2>5. strayed' \subseteq Clients
    BY <1>5, Zenon DEF SendCall, PushCall, TypeOK
  <2> QED
    BY <2>1, <2>2, <2>4, <2>5, NetworkTyped, Zenon DEF TypeOK
<1>6. CASE Call(c) \/ Drain(c)
  <2>1. job' \in [Clients -> Job] /\ ops' = ops /\ cache' = cache
    BY <1>6, Zenon DEF Call, Drain, TypeOK
  <2>2. pc' \in [Clients -> PCs] /\ done' \in [Clients -> Done]
    BY <1>t, <1>6, <2>1, EndsTyped, ReplyTyped, ZenonT(60) DEF Call, Drain
  <2>3. ReadFails(c) \/ \E r \in reps : Reads(c, r)
    BY <1>6, Zenon DEF Call, Drain
  <2> QED
    BY <2>1, <2>2, <2>3, NetworkTyped, ZenonT(60) DEF TypeOK
<1> QED
  BY <1>1, <1>2, <1>3, <1>4, <1>5, <1>6, ZenonT(60) DEF Host
-----------------------------------------------------------------------------
\* The hosts and the network are well typed initially.
LEMMA TypesInit == Init => DevInv /\ TypeOK
<1> SUFFICES ASSUME Init PROVE DevInv /\ TypeOK
  BY Zenon
<1>1. DevInv
  BY DevInvInit, ZenonT(60) DEF Init
<1>2. 0 \in 0..UINT16_MAX /\ 0 \in 0..UINT8_MAX /\ NoCall \in Seq(Nat)
  BY DEF UINT16_MAX, UINT8_MAX, NoCall
<1>3. NoJob \in Job
  BY <1>2, Zenon DEF NoJob, Job, Operations, Carried
<1>4. NotDone \in Done
  BY <1>2, <1>3, Zenon DEF NotDone, Done, Errors
<1>5. TypeOK
  BY <1>3, <1>4, ExchangeAssumption, SMTT(60) DEF Init, TypeOK, PCs, ExchangeAssumption
<1> QED
  BY <1>1, <1>5, Zenon

\* Every step keeps the device's invariant and the types.
LEMMA TypesStep == DevInv /\ TypeOK /\ [Next]_vars => DevInv' /\ TypeOK'
<1> SUFFICES ASSUME DevInv, TypeOK, [Next]_vars PROVE DevInv' /\ TypeOK'
  BY Zenon
<1>1. CASE Boots
  BY <1>1, BootKeepsInv, EnvironmentKeepsTypes, Zenon DEF Boots
<1>2. ASSUME NEW c \in Clients, Serves(c)
      PROVE  DevInv' /\ TypeOK'
  <2>1. \A r \in reqs : r.p \in Packet
    BY Zenon DEF TypeOK, Request
  <2>2. DevInv'
    BY <1>2, <2>1, ServeKeepsInv, Zenon DEF Serves
  <2> QED
    BY <1>2, <2>2, EnvironmentKeepsTypes, Zenon
<1>3. UNCHANGED devVars => DevInv'
  BY Zenon DEF devVars, DevInv, DevTypeOK, LoadingConsistent, RegistryConsistent, DispatchReady
<1>4. CASE Lose \/ Duplicate
  BY <1>3, <1>4, EnvironmentKeepsTypes, Zenon DEF Lose, Duplicate
<1>5. ASSUME NEW c \in Clients, Begin(c) \/ Host(c)
      PROVE  DevInv' /\ TypeOK'
  <2>1. UNCHANGED devVars
    BY <1>5, Zenon DEF Begin, Host, Ask, Lookup, Reask, Relookup, SendCall, Call, PushCall, Drain
  <2> QED
    BY <1>3, <1>5, <2>1, HostKeepsTypes, Zenon
<1>6. CASE UNCHANGED vars
  <2>1. UNCHANGED devVars /\ UNCHANGED netVars /\ UNCHANGED hostVars
    BY <1>6, Zenon DEF vars
  <2>2. TypeOK'
    BY <2>1, Zenon DEF netVars, hostVars, TypeOK
  <2> QED
    BY <1>3, <2>1, <2>2, Zenon
<1> QED
  BY <1>1, <1>2, <1>4, <1>5, <1>6, Zenon DEF Next, Stopped

\* The hosts and the network keep to their types (lib/libflipper.c, lib/dyld.c):
\* the index of a call always fits into its byte.
THEOREM ExchangeTypeCorrect == Spec => []TypeOK
<1> DEFINE I == DevInv /\ TypeOK
<1>1. Init => I
  BY TypesInit, Zenon
<1>2. I /\ [Next]_vars => I'
  BY TypesStep, Zenon
<1>3. I => TypeOK
  BY Zenon
<1> QED
  BY <1>1, <1>2, <1>3, PTL DEF Spec
-----------------------------------------------------------------------------
(***************************************************************************)
(* What a step does to the datagrams of each client.                       *)
(***************************************************************************)
Waiting == {"lookup", "relookup", "call"}
TowardsCall == {"reask", "relookup", "send", "call"}

\* A step leaves client d where it was, and gives it no datagram.
Untouched(d) ==
    /\ Requests(d)' \subseteq Requests(d) /\ Answers(d)' \subseteq Answers(d)
    /\ pc'[d] = pc[d] /\ job'[d] = job[d] /\ seq'[d] = seq[d]

\* Such a step keeps what is known of the client, as long as the device's list
\* of modules does not shrink.
LEMMA UntouchedKeeps ==
    ASSUME NEW d, Untouched(d), InStepOf(d), InRangeOf(d), job[d].idx \in Int,
           Len(modules) \in Nat, Len(modules') \in Nat, Len(modules) <= Len(modules')
    PROVE  InStepOf(d)' /\ InRangeOf(d)'
<1>1. InStepOf(d)'
  BY Zenon DEF Untouched, InStepOf
<1>2. pc'[d] \in TowardsCall => job'[d].idx < Len(modules')
  <2>1. pc'[d] \in TowardsCall => job[d].idx < Len(modules)
    BY Zenon DEF Untouched, InRangeOf, TowardsCall
  <2> QED
    BY <2>1 DEF Untouched
<1>3. \A r \in Requests(d)' : /\ ~Damaged(r.p)
                              /\ IF pc'[d] = "call" THEN /\ r.p.type = "rpc" /\ r.p.module = job'[d].idx
                                                         /\ r.p.args = job'[d].args
                                                    ELSE r.p.type = "dyld"
  BY Zenon DEF Untouched, InRangeOf
<1>4. \A r \in Answers(d)' : IF pc'[d] = "call" THEN r.error = "E_NULL" => job'[d].args = "some"
                                                ELSE r.value \in 0..Len(modules') - 1
  <2>1. \A v : v \in 0..Len(modules) - 1 => v \in 0..Len(modules') - 1
    BY SMTT(60)
  <2> QED
    BY <2>1, Zenon DEF Untouched, InRangeOf
<1> QED
  BY <1>1, <1>2, <1>3, <1>4, Zenon DEF InRangeOf, TowardsCall

\* What the network steps of a host do.
LEMMA Traffic ==
    ASSUME TypeOK, NEW c \in Clients
    PROVE  /\ \A p : Sends(c, p) =>
                 /\ Requests(c)' = Requests(c) \cup
                       {[from |-> c, seq |-> seq[c] + 1, copy |-> 0, p |-> p]}
                 /\ Answers(c)' = Answers(c)
                 /\ seq'[c] = seq[c] + 1
                 /\ \A d \in Clients \ {c} : /\ Requests(d)' = Requests(d)
                                             /\ Answers(d)' = Answers(d)
                                             /\ seq'[d] = seq[d]
           /\ \A r : Reads(c, r) =>
                 /\ r \in Answers(c)
                 /\ Answers(c)' = Answers(c) \ {r}
                 /\ Requests(c)' = Requests(c)
                 /\ seq' = seq
                 /\ \A d \in Clients \ {c} : /\ Requests(d)' = Requests(d)
                                             /\ Answers(d)' = Answers(d)
           /\ SendFails \/ ReadFails(c) \/ UNCHANGED netVars =>
                 /\ seq' = seq
                 /\ \A d \in Clients : /\ Requests(d)' = Requests(d)
                                       /\ Answers(d)' = Answers(d)
<1>1. ASSUME NEW p, Sends(c, p)
      PROVE  /\ Requests(c)' = Requests(c) \cup
                   {[from |-> c, seq |-> seq[c] + 1, copy |-> 0, p |-> p]}
             /\ Answers(c)' = Answers(c)
             /\ seq'[c] = seq[c] + 1
             /\ \A d \in Clients \ {c} : /\ Requests(d)' = Requests(d)
                                         /\ Answers(d)' = Answers(d)
                                         /\ seq'[d] = seq[d]
  <2> DEFINE q == [from |-> c, seq |-> seq[c] + 1, copy |-> 0, p |-> p]
  <2>1. q.from = c
    BY Zenon
  <2>2. reqs' = reqs \cup {q} /\ reps' = reps
    BY <1>1, Zenon DEF Sends
  <2>3. seq'[c] = seq[c] + 1 /\ \A d \in Clients \ {c} : seq'[d] = seq[d]
    BY <1>1, Zenon DEF Sends, TypeOK
  <2> HIDE DEF q
  <2>4. /\ Requests(c)' = Requests(c) \cup {q} /\ Answers(c)' = Answers(c)
        /\ \A d \in Clients \ {c} : /\ Requests(d)' = Requests(d)
                                    /\ Answers(d)' = Answers(d)
    BY <2>1, <2>2, Zenon DEF Requests, Answers
  <2> QED
    BY <2>3, <2>4, ZenonT(60) DEF q
<1>2. ASSUME NEW r, Reads(c, r)
      PROVE  /\ r \in Answers(c)
             /\ Answers(c)' = Answers(c) \ {r}
             /\ Requests(c)' = Requests(c)
             /\ seq' = seq
             /\ \A d \in Clients \ {c} : /\ Requests(d)' = Requests(d)
                                         /\ Answers(d)' = Answers(d)
  <2>1. /\ r \in reps /\ r.to = c /\ reps' = reps \ {r}
        /\ reqs' = reqs /\ seq' = seq
    BY <1>2, Zenon DEF Reads
  <2> QED
    BY <2>1, Zenon DEF Requests, Answers
<1>3. ASSUME SendFails \/ ReadFails(c) \/ UNCHANGED netVars
      PROVE  /\ seq' = seq
             /\ \A d \in Clients : /\ Requests(d)' = Requests(d)
                                   /\ Answers(d)' = Answers(d)
  <2>1. reqs' = reqs /\ reps' = reps /\ seq' = seq
    BY <1>3, Zenon DEF SendFails, ReadFails, netVars
  <2> QED
    BY <2>1, Zenon DEF Requests, Answers
<1> QED
  BY <1>1, <1>2, <1>3, Zenon

\* Where the helpers of the hosts leave a client: only a lookup for a call by
\* index goes on towards a call.
LEMMA WhereHostsGo ==
    ASSUME TypeOK, NEW c \in Clients
    PROVE  /\ \A to : Goes(c, to) => pc'[c] = to /\ done' = done
                                      /\ \A d \in Clients \ {c} : pc'[d] = pc[d]
           /\ \A ret, e, k : Ends(c, ret, e, k) =>
                 /\ pc'[c] = "idle" /\ \A d \in Clients \ {c} : pc'[d] = pc[d]
                 /\ done'[c].ret = ret /\ done'[c].error = e
                 /\ \A d \in Clients \ {c} : done'[d] = done[d]
           /\ Fails(c) => /\ pc'[c] = "idle" /\ \A d \in Clients \ {c} : pc'[d] = pc[d]
                          /\ done'[c].ret = "error"
                          /\ \A d \in Clients \ {c} : done'[d] = done[d]
           /\ ModuleFound(c) => /\ pc'[c] \in {"push", "idle"}
                                /\ \A d \in Clients \ {c} : pc'[d] = pc[d]
                                /\ done' = done \/ done'[c].ret = "error"
                                /\ \A d \in Clients \ {c} : done'[d] = done[d]
<1>1. \A to : Goes(c, to) => pc'[c] = to /\ done' = done
                              /\ \A d \in Clients \ {c} : pc'[d] = pc[d]
  BY Zenon DEF Goes, TypeOK
<1>2. \A ret, e, k : Ends(c, ret, e, k) =>
         /\ pc'[c] = "idle" /\ \A d \in Clients \ {c} : pc'[d] = pc[d]
         /\ done'[c].ret = ret /\ done'[c].error = e
         /\ \A d \in Clients \ {c} : done'[d] = done[d]
  BY DEF Ends, TypeOK
<1>3. Fails(c) => /\ pc'[c] = "idle" /\ \A d \in Clients \ {c} : pc'[d] = pc[d]
                  /\ done'[c].ret = "error"
                  /\ \A d \in Clients \ {c} : done'[d] = done[d]
  BY <1>2, ZenonT(60) DEF Fails
<1>4. ModuleFound(c) => /\ pc'[c] \in {"push", "idle"}
                        /\ \A d \in Clients \ {c} : pc'[d] = pc[d]
                        /\ done' = done \/ done'[c].ret = "error"
                        /\ \A d \in Clients \ {c} : done'[d] = done[d]
  <2>1. CASE Goes(c, "push")
    BY <1>1, <2>1, ZenonT(60)
  <2>2. CASE Fails(c)
    BY <1>3, <2>2, ZenonT(60)
  <2> QED
    BY <2>1, <2>2, Zenon DEF ModuleFound
<1> QED
  BY <1>1, <1>2, <1>3, <1>4, ZenonT(60)

\* A step of one host leaves the other hosts alone.
LEMMA OthersUntouched ==
    ASSUME TypeOK, NEW c \in Clients, Begin(c) \/ Host(c)
    PROVE  /\ modules' = modules
           /\ strayed \subseteq strayed'
           /\ \A d \in Clients \ {c} : Untouched(d)
<1>1. modules' = modules
  BY Zenon DEF Begin, Host, Ask, Lookup, Reask, Relookup, SendCall, Call, PushCall, Drain, devVars
<1>2. strayed \subseteq strayed'
  BY Zenon DEF Begin, Host, Ask, Lookup, Reask, Relookup, SendCall, Call, PushCall, Drain,
         Reads, ReadFails, netVars
<1>3. \A d \in Clients \ {c} : job'[d] = job[d]
  <2>1. \A idx : LookupGives(c, idx) => \A d \in Clients \ {c} : job'[d] = job[d]
    BY Zenon DEF LookupGives, TypeOK
  <2>2. LookupFails(c) => job' = job
    BY Zenon DEF LookupFails
  <2>3. Begin(c) => \A d \in Clients \ {c} : job'[d] = job[d]
    BY Zenon DEF Begin, TypeOK
  <2> QED
    BY <2>1, <2>2, <2>3, Zenon DEF Host, Ask, Lookup, Reask, Relookup, SendCall, Call, PushCall, Drain
<1>4. \A d \in Clients \ {c} : pc'[d] = pc[d]
  <2>1. /\ \A to : Goes(c, to) => \A d \in Clients \ {c} : pc'[d] = pc[d]
        /\ \A ret, e, k : Ends(c, ret, e, k) => \A d \in Clients \ {c} : pc'[d] = pc[d]
        /\ Fails(c) \/ ModuleFound(c) => \A d \in Clients \ {c} : pc'[d] = pc[d]
    BY WhereHostsGo, Zenon
  <2>2. LookupFails(c) => \A d \in Clients \ {c} : pc'[d] = pc[d]
    BY <2>1, Zenon DEF LookupFails
  <2>3. \A idx : LookupGives(c, idx) => \A d \in Clients \ {c} : pc'[d] = pc[d]
    BY <2>1, Zenon DEF LookupGives
  <2>4. Begin(c) => \A d \in Clients \ {c} : pc'[d] = pc[d]
    BY <2>1, Zenon DEF Begin
  <2>5. Ask(c) \/ Lookup(c) => \A d \in Clients \ {c} : pc'[d] = pc[d]
    BY <2>1, <2>2, <2>3, Zenon DEF Ask, Lookup
  <2>6. Reask(c) \/ Relookup(c) => \A d \in Clients \ {c} : pc'[d] = pc[d]
    BY <2>1, ZenonT(60) DEF Reask, Relookup
  <2>7. SendCall(c) \/ Call(c) => \A d \in Clients \ {c} : pc'[d] = pc[d]
    BY <2>1, ZenonT(60) DEF SendCall, Call
  <2>8. PushCall(c) \/ Drain(c) => \A d \in Clients \ {c} : pc'[d] = pc[d]
    BY <2>1, Zenon DEF PushCall, Drain
  <2> QED
    BY <2>4, <2>5, <2>6, <2>7, <2>8, ZenonT(60) DEF Host
<1>5. \/ \E p : Sends(c, p)
      \/ \E r : Reads(c, r)
      \/ SendFails \/ ReadFails(c) \/ UNCHANGED netVars
  BY Zenon DEF Begin, Host, Ask, Lookup, Reask, Relookup, SendCall, Call, PushCall, Drain
<1>6. \A d \in Clients \ {c} : /\ Requests(d)' = Requests(d) /\ Answers(d)' = Answers(d)
                               /\ seq'[d] = seq[d]
  BY <1>5, Traffic, Zenon
<1> QED
  BY <1>1, <1>2, <1>3, <1>4, <1>6, Zenon DEF Untouched
-----------------------------------------------------------------------------
(***************************************************************************)
(* One datagram at a time.                                                 *)
(***************************************************************************)

\* A host that sends while nothing of its own is under way, and then waits,
\* keeps in step; so does one that takes its answer, and one that does nothing
\* on the network while it is not waiting.
LEMMA StaysInStep ==
    ASSUME TypeOK, NEW c \in Clients, InStepOf(c)
    PROVE  /\ pc[c] \notin Waiting /\ pc'[c] \in Waiting =>
                 \A p : Sends(c, p) => InStepOf(c)'
           /\ \A r : Reads(c, r) => InStepOf(c)' /\ r.seq = seq[c]
           /\ pc[c] \notin Waiting =>
                 (SendFails \/ UNCHANGED netVars => InStepOf(c)')
<1>1. ASSUME pc[c] \notin Waiting, pc'[c] \in Waiting, NEW p, Sends(c, p)
      PROVE  InStepOf(c)'
  <2> DEFINE q == [from |-> c, seq |-> seq[c] + 1, copy |-> 0, p |-> p]
  <2>1. q.seq = seq[c] + 1
    BY Zenon
  <2>2. Requests(c)' = Requests(c) \cup {q} /\ Answers(c)' = Answers(c) /\ seq'[c] = seq[c] + 1
    BY <1>1, Traffic, Zenon
  <2>3. Requests(c) = {} /\ Answers(c) = {}
    BY <1>1, Zenon DEF InStepOf, Waiting
  <2> HIDE DEF q
  <2>4. Requests(c)' = {q} /\ Answers(c)' = {}
    BY <2>2, <2>3, Zenon
  <2> QED
    BY <1>1, <2>1, <2>2, <2>4, Zenon DEF InStepOf, Waiting
<1>2. ASSUME NEW r, Reads(c, r)
      PROVE  InStepOf(c)' /\ r.seq = seq[c]
  <2>1. /\ r \in Answers(c) /\ Answers(c)' = Answers(c) \ {r}
        /\ Requests(c)' = Requests(c) /\ seq' = seq
    BY <1>2, Traffic, Zenon
  <2>2. Requests(c)' = {} /\ Answers(c)' = {}
    BY <2>1, Zenon DEF InStepOf
  <2>3. InStepOf(c)'
    BY <2>2, Zenon DEF InStepOf
  <2> QED
    BY <2>1, <2>3, Zenon DEF InStepOf
<1>3. ASSUME pc[c] \notin Waiting, SendFails \/ UNCHANGED netVars
      PROVE  InStepOf(c)'
  <2>1. Requests(c)' = Requests(c) /\ Answers(c)' = Answers(c)
    BY <1>3, Traffic, Zenon
  <2>2. Requests(c)' = {} /\ Answers(c)' = {}
    BY <1>3, <2>1, Zenon DEF InStepOf, Waiting
  <2> QED
    BY <2>2, ZenonT(60) DEF InStepOf
<1> QED
  BY <1>1, <1>2, <1>3, ZenonT(60)

\* A host's step keeps the host in step, or makes it stray.
LEMMA HostStaysInStep ==
    ASSUME TypeOK, NEW c \in Clients, Begin(c) \/ Host(c), InStepOf(c), c \notin strayed'
    PROVE  InStepOf(c)'
<1>1. \A to : Goes(c, to) => pc'[c] = to
  BY WhereHostsGo, Zenon
<1>2. /\ "lookup" \in Waiting /\ "relookup" \in Waiting /\ "call" \in Waiting
      /\ \A s \in {"idle", "ask", "reask", "send", "push", "drain"} : s \notin Waiting
  BY Zenon DEF Waiting
<1>3. ~ReadFails(c)
  BY Zenon DEF ReadFails
<1>4. CASE Begin(c)
  BY <1>2, <1>4, StaysInStep, Zenon DEF Begin
<1>5. CASE Ask(c)
  BY <1>1, <1>2, <1>5, StaysInStep, Zenon DEF Ask
<1>6. CASE Lookup(c)
  BY <1>3, <1>6, StaysInStep, Zenon DEF Lookup
<1>7. CASE Reask(c)
  BY <1>1, <1>2, <1>7, StaysInStep, Zenon DEF Reask
<1>8. CASE Relookup(c)
  BY <1>3, <1>8, StaysInStep, Zenon DEF Relookup
<1>9. CASE SendCall(c)
  BY <1>1, <1>2, <1>9, StaysInStep, Zenon DEF SendCall
<1>10. CASE Call(c)
  BY <1>3, <1>10, StaysInStep, Zenon DEF Call
<1>11. CASE PushCall(c)
  BY <1>2, <1>11, StaysInStep, Zenon DEF PushCall
<1>12. CASE Drain(c)
  BY <1>3, <1>12, StaysInStep, Zenon DEF Drain
<1> QED
  BY <1>4, <1>5, <1>6, <1>7, <1>8, <1>9, <1>10, <1>11, <1>12, ZenonT(60) DEF Host

\* The answer that a host takes is its own, unless it strayed.
LEMMA HostReadsOwnAnswer ==
    ASSUME TypeOK, InStep, ReadsOwnAnswer, NEW c \in Clients, Begin(c) \/ Host(c)
    PROVE  ReadsOwnAnswer'
<1>1. strayed \subseteq strayed'
  BY OthersUntouched, Zenon
<1>2. \A r : Reads(c, r) => crossed' \subseteq strayed'
  <2> SUFFICES ASSUME NEW r, Reads(c, r) PROVE crossed' \subseteq strayed'
    BY Zenon
  <2>1. c \in strayed \/ r.seq = seq[c]
    BY StaysInStep, ZenonT(40) DEF InStep
  <2> QED
    BY <1>1, <2>1, Zenon DEF Reads, ReadsOwnAnswer
<1>3. crossed' = crossed \/ \E r : Reads(c, r)
  BY Zenon DEF Begin, Host, Ask, Lookup, Reask, Relookup, SendCall, Call, PushCall, Drain, ReadFails
<1> QED
  BY <1>1, <1>2, <1>3, Zenon DEF ReadsOwnAnswer
-----------------------------------------------------------------------------
(***************************************************************************)
(* The network and the device.                                             *)
(***************************************************************************)

\* The device boots, stops or has its datagrams lost without touching a
\* client, and duplicates touch only a client that strays by them.
LEMMA NetworkUntouched ==
    ASSUME TypeOK, Boots \/ Lose \/ Duplicate \/ Stopped
    PROVE  /\ strayed \subseteq strayed' /\ crossed' = crossed
           /\ \A d \in Clients \ strayed' : Untouched(d)
<1>1. CASE Boots \/ Stopped
  <2>1. UNCHANGED <<reqs, reps, seq, strayed, pc, job, crossed>>
    BY <1>1, ZenonT(60) DEF Boots, Stopped, vars, netVars, hostVars
  <2> QED
    BY <2>1, Zenon DEF Untouched, Requests, Answers
<1>2. CASE Lose
  <2>1. UNCHANGED <<seq, strayed, pc, job, crossed>>
    BY <1>2, Zenon DEF Lose, hostVars
  <2>2. reqs' \subseteq reqs /\ reps' \subseteq reps
    BY <1>2, Zenon DEF Lose
  <2> QED
    BY <2>1, <2>2, Zenon DEF Untouched, Requests, Answers
<1>3. CASE Duplicate
  <2>1. UNCHANGED <<seq, pc, job, crossed>>
    BY <1>3, Zenon DEF Duplicate, hostVars
  <2>2. ASSUME NEW r \in reqs, reqs' = reqs \cup {[r EXCEPT !.copy = faults']},
               strayed' = strayed \cup {r.from}, reps' = reps
        PROVE  \A d \in Clients \ strayed' : Untouched(d)
    <3> DEFINE q == [r EXCEPT !.copy = faults']
    <3>1. q.from = r.from
      BY Zenon DEF TypeOK, Request
    <3>2. reqs' = reqs \cup {q}
      BY <2>2, Zenon
    <3> HIDE DEF q
    <3> QED
      BY <2>1, <2>2, <3>1, <3>2, Zenon DEF Untouched, Requests, Answers
  <2>3. ASSUME NEW r \in reps, reps' = reps \cup {[r EXCEPT !.copy = faults']},
               strayed' = strayed \cup {r.to}, reqs' = reqs
        PROVE  \A d \in Clients \ strayed' : Untouched(d)
    <3> DEFINE q == [r EXCEPT !.copy = faults']
    <3>1. q.to = r.to
      BY Zenon DEF TypeOK, Reply
    <3>2. reps' = reps \cup {q}
      BY <2>3, Zenon
    <3> HIDE DEF q
    <3> QED
      BY <2>1, <2>3, <3>1, <3>2, Zenon DEF Untouched, Requests, Answers
  <2>4. strayed \subseteq strayed'
    BY <1>3, Zenon DEF Duplicate
  <2> QED
    BY <1>3, <2>1, <2>2, <2>3, <2>4, Zenon DEF Duplicate
<1> QED
  BY <1>1, <1>2, <1>3, Zenon

\* Modules are never taken off the device's list.
LEMMA ModulesGrow ==
    ASSUME DevInv, TypeOK, Next
    PROVE  /\ Len(modules) \in Nat /\ Len(modules') \in Nat
           /\ Len(modules) <= Len(modules')
<1>1. modules \in Seq(Module) /\ Len(modules) \in Nat
  BY DEF DevInv, DevTypeOK
<1>2. CASE Boots
  <2>1. \A image : dyld_register(image) => Len(modules') >= Len(modules)
    BY <1>1 DEF dyld_register
  <2>2. Len(modules') >= Len(modules)
    BY <1>1, <1>2, <2>1 DEF Boots, Boot, RegisterDac, fmr_init, LoadModule, LoadFails, AwaitPackets
  <2>3. modules' \in Seq(Module)
    BY <1>2, BootKeepsInv, Zenon DEF Boots, DevInv, DevTypeOK
  <2> QED
    BY <1>1, <2>2, <2>3
<1>3. ASSUME NEW c \in Clients, Serves(c)
      PROVE  Len(modules') = Len(modules)
  <2>1. \A r \in reqs : r.p \in Packet
    BY Zenon DEF TypeOK, Request
  <2> QED
    BY <1>3, <2>1, ServeKeepsInv, Zenon DEF Serves
<1>4. CASE Lose \/ Duplicate \/ Stopped
  BY <1>1, <1>4 DEF Lose, Duplicate, Stopped, vars, devVars
<1>5. ASSUME NEW c \in Clients, Begin(c) \/ Host(c)
      PROVE  modules' = modules
  BY <1>5, OthersUntouched, Zenon
<1> QED
  BY <1>1, <1>2, <1>3, <1>4, <1>5 DEF Next

\* The index of a module fits into the byte that a call has for it.
LEMMA IndexFits ==
    ASSUME DevInv
    PROVE  /\ Len(modules) \in Nat /\ Len(modules) <= UINT8_MAX + 1
           /\ \A v \in 0..Len(modules) - 1 : v % (UINT8_MAX + 1) = v /\ v % (UINT16_MAX + 1) = v
<1>1. /\ Len(modules) \in Nat /\ Len(toLoad) \in Nat
      /\ Len(modules) + Len(toLoad) <= Len(Images)
      /\ Len(Images) \in Nat /\ Len(Images) <= UINT8_MAX + 1
  BY ImagesBound, ExchangeAssumption DEF DevInv, DevTypeOK, LoadingConsistent, ExchangeAssumption
<1>2. UINT8_MAX \in Nat /\ UINT16_MAX \in Nat /\ UINT8_MAX < UINT16_MAX
  BY DEF UINT8_MAX, UINT16_MAX
<1>3. Len(modules) \in Nat /\ Len(modules) <= UINT8_MAX + 1
  BY <1>1, <1>2
<1>4. \A v \in 0..Len(modules) - 1 : v \in 0..UINT8_MAX /\ v \in 0..UINT16_MAX
  BY <1>2, <1>3
<1> QED
  BY <1>3, <1>4, Conversions, Zenon

\* The device takes one request of a client and answers it at most once, with
\* an index in range when it was asked for one.
LEMMA ServesKeeps ==
    ASSUME TypeOK, DevInv, NEW c \in Clients, Serves(c)
    PROVE  /\ strayed' = strayed /\ crossed' = crossed
           /\ \A d \in Clients \ {c} : Untouched(d)
           /\ InStepOf(c) /\ InRangeOf(c) => InStepOf(c)' /\ InRangeOf(c)'
<1>1. PICK r \in reqs, sent \in BOOLEAN : \E o \in fmr_perform(r.p) :
         /\ r.from = c
         /\ Serve(r.p, o, sent)
         /\ reqs' = reqs \ {r}
         /\ reps' = reps \cup {Answer(r, o)} \/ reps' = reps
         /\ UNCHANGED <<seq, strayed, hostVars>>
  BY Zenon DEF Serves
<1>2. PICK o \in fmr_perform(r.p) :
         /\ r.from = c
         /\ Serve(r.p, o, sent)
         /\ reqs' = reqs \ {r}
         /\ reps' = reps \cup {Answer(r, o)} \/ reps' = reps
         /\ UNCHANGED <<seq, strayed, hostVars>>
  BY <1>1, Zenon
<1> DEFINE a == Answer(r, o)
<1>3. a.to = c /\ a.seq = r.seq /\ a.value = o.value /\ a.error = o.error
  BY <1>2, Zenon DEF Answer
<1>4. UNCHANGED <<pc, job, seq, strayed, crossed>>
  BY <1>2, Zenon DEF hostVars
<1>5. /\ reqs' = reqs \ {r}
      /\ reps' = reps \cup {a} \/ reps' = reps
  BY <1>2, Zenon
<1> HIDE DEF a
<1>6. \A d \in Clients \ {c} : Untouched(d)
  BY <1>2, <1>3, <1>4, <1>5, Zenon DEF Untouched, Requests, Answers
<1>7. /\ r \in Requests(c) /\ Requests(c)' = Requests(c) \ {r}
      /\ Answers(c)' = Answers(c) \cup {a} \/ Answers(c)' = Answers(c)
  BY <1>2, <1>3, <1>5, Zenon DEF Requests, Answers
<1>8. ASSUME InStepOf(c)
      PROVE  /\ Requests(c)' = {} /\ (Answers(c)' = {a} \/ Answers(c)' = {})
             /\ a.seq = seq[c] /\ pc[c] \in Waiting
  BY <1>3, <1>7, <1>8, ZenonT(60) DEF InStepOf, Waiting
<1>9. ASSUME InStepOf(c)
      PROVE  InStepOf(c)'
  BY <1>4, <1>8, <1>9, ZenonT(60) DEF InStepOf, Waiting
<1>10. r.p \in Packet
  BY Zenon DEF TypeOK, Request
<1>11. Len(modules') = Len(modules) /\ Len(modules) \in Nat
  BY <1>2, <1>10, ServeKeepsInv, IndexFits, ZenonT(60)
<1>12. phase = "serve" /\ registry = Classes /\ modules # <<>>
  BY <1>2, Zenon DEF Serve, DevInv, DispatchReady
<1>13. ASSUME InRangeOf(c)
       PROVE  IF pc[c] = "call" THEN a.error = "E_NULL" => job[c].args = "some"
                                ELSE a.value \in 0..Len(modules) - 1
  <2>1. CASE pc[c] = "call"
    <3>1. r.p.module = job[c].idx /\ job[c].idx < Len(modules) /\ r.p.args = job[c].args
      BY <1>7, <1>13, <2>1, Zenon DEF InRangeOf
    <3>2. job[c].idx \in Int
      BY Uint16IsInt DEF TypeOK, Job
    <3>3. ~(r.p.module >= Len(modules))
      BY <1>11, <3>1, <3>2
    <3> QED
      BY <1>3, <1>10, <1>12, <2>1, <3>1, <3>3, AnswerError, ZenonT(60) DEF DevInv
  <2>2. CASE pc[c] # "call"
    <3>1. ~Damaged(r.p) /\ r.p.type = "dyld"
      BY <1>7, <1>13, <2>2, ZenonT(60) DEF InRangeOf
    <3> QED
      BY <1>3, <1>10, <1>12, <2>2, <3>1, LookupAnswer, ZenonT(60)
  <2> QED
    BY <2>1, <2>2, Zenon
<1>14. ASSUME InStepOf(c), InRangeOf(c)
       PROVE  InRangeOf(c)'
  <2>1. pc'[c] \in TowardsCall => job'[c].idx < Len(modules')
    BY <1>4, <1>11, <1>14, ZenonT(60) DEF InRangeOf, TowardsCall
  <2>2. \A x \in Answers(c)' : IF pc'[c] = "call" THEN x.error = "E_NULL" => job'[c].args = "some"
                                                  ELSE x.value \in 0..Len(modules') - 1
    BY <1>4, <1>8, <1>11, <1>13, <1>14, ZenonT(60)
  <2> QED
    BY <1>8, <1>14, <2>1, <2>2, ZenonT(60) DEF InRangeOf, TowardsCall
<1> QED
  BY <1>4, <1>6, <1>9, <1>14, ZenonT(60)
-----------------------------------------------------------------------------
(***************************************************************************)
(* Indices in range.                                                       *)
(***************************************************************************)

\* A host that has nothing under way and sends a packet in range, or takes its
\* answer, keeps in range when its index is.
LEMMA StaysInRange ==
    ASSUME TypeOK, NEW c \in Clients, InStepOf(c), modules' = modules,
           pc'[c] \in TowardsCall => job'[c].idx < Len(modules)
    PROVE  /\ pc[c] \notin Waiting =>
                 \A p : /\ Sends(c, p)
                        /\ ~Damaged(p)
                        /\ IF pc'[c] = "call" THEN /\ p.type = "rpc" /\ p.module = job'[c].idx
                                                   /\ p.args = job'[c].args
                                              ELSE p.type = "dyld"
                        => InRangeOf(c)'
           /\ \A r : Reads(c, r) => InRangeOf(c)'
           /\ pc[c] \notin Waiting =>
                 (SendFails \/ UNCHANGED netVars => InRangeOf(c)')
<1>1. ASSUME pc[c] \notin Waiting, NEW p, Sends(c, p), ~Damaged(p),
             IF pc'[c] = "call" THEN p.type = "rpc" /\ p.module = job'[c].idx /\ p.args = job'[c].args
                                ELSE p.type = "dyld"
      PROVE  InRangeOf(c)'
  <2> DEFINE q == [from |-> c, seq |-> seq[c] + 1, copy |-> 0, p |-> p]
  <2>1. q.p = p
    BY Zenon
  <2>2. Requests(c)' = Requests(c) \cup {q} /\ Answers(c)' = Answers(c)
    BY <1>1, Traffic, Zenon
  <2>3. Requests(c) = {} /\ Answers(c) = {}
    BY <1>1, Zenon DEF InStepOf, Waiting
  <2> HIDE DEF q
  <2>4. Requests(c)' = {q} /\ Answers(c)' = {}
    BY <2>2, <2>3, Zenon
  <2> HIDE DEF Damaged
  <2>5. pc'[c] \in {"reask", "relookup", "send", "call"} => job'[c].idx < Len(modules')
    BY Zenon DEF TowardsCall
  <2>6. \A r : r \in Requests(c)' => r = q
    BY <2>4, Zenon
  <2>7. \A r : r \notin Answers(c)'
    BY <2>4, Zenon
  <2>8. ASSUME NEW r \in Requests(c)'
        PROVE  /\ ~Damaged(r.p)
               /\ IF pc'[c] = "call" THEN /\ r.p.type = "rpc" /\ r.p.module = job'[c].idx
                                          /\ r.p.args = job'[c].args
                                     ELSE r.p.type = "dyld"
    <3>1. r.p = p
      BY <2>1, <2>6, Zenon
    <3>2. ~Damaged(r.p)
      BY <1>1, <3>1, ZenonT(60)
    <3>3. CASE pc'[c] = "call"
      <4>1. p.type = "rpc" /\ p.module = job'[c].idx /\ p.args = job'[c].args
        BY <1>1, <3>3, Zenon
      <4> QED
        BY <3>1, <3>2, <3>3, <4>1, Zenon
    <3>4. CASE pc'[c] # "call"
      <4>1. p.type = "dyld"
        BY <1>1, <3>4, Zenon
      <4> QED
        BY <3>1, <3>2, <3>4, <4>1, Zenon
    <3> QED
      BY <3>3, <3>4, Zenon
  <2>9. \A r \in Requests(c)' :
           /\ ~Damaged(r.p)
           /\ IF pc'[c] = "call" THEN /\ r.p.type = "rpc" /\ r.p.module = job'[c].idx
                                      /\ r.p.args = job'[c].args
                                 ELSE r.p.type = "dyld"
    BY <2>8, Zenon
  <2> QED
    BY <2>5, <2>7, <2>9, ZenonT(60) DEF InRangeOf
<1>2. ASSUME NEW r, Reads(c, r)
      PROVE  InRangeOf(c)'
  <2>1. /\ r \in Answers(c) /\ Answers(c)' = Answers(c) \ {r}
        /\ Requests(c)' = Requests(c)
    BY <1>2, Traffic, Zenon
  <2>2. Requests(c)' = {} /\ Answers(c)' = {}
    BY <2>1, ZenonT(60) DEF InStepOf
  <2> QED
    BY <2>2, Zenon DEF InRangeOf, TowardsCall
<1>3. ASSUME pc[c] \notin Waiting, SendFails \/ UNCHANGED netVars
      PROVE  InRangeOf(c)'
  <2>1. Requests(c)' = Requests(c) /\ Answers(c)' = Answers(c)
    BY <1>3, Traffic, Zenon
  <2>2. Requests(c)' = {} /\ Answers(c)' = {}
    BY <1>3, <2>1, Zenon DEF InStepOf, Waiting
  <2> QED
    BY <2>2, Zenon DEF InRangeOf, TowardsCall
<1> QED
  BY <1>1, <1>2, <1>3, ZenonT(60)

\* A host's step towards a call keeps the index that it looked up in range.
LEMMA HostStaysInRange ==
    ASSUME TypeOK, DevInv, NEW c \in Clients, Begin(c) \/ Host(c), InStepOf(c), InRangeOf(c),
           c \notin strayed'
    PROVE  InRangeOf(c)'
<1> DEFINE Ready == pc'[c] \in TowardsCall => job'[c].idx < Len(modules)
<1>1. /\ \A to : Goes(c, to) => pc'[c] = to
      /\ \A ret, e, k : Ends(c, ret, e, k) => pc'[c] = "idle"
      /\ Fails(c) \/ ModuleFound(c) => pc'[c] \in {"push", "idle"}
  BY WhereHostsGo, Zenon
<1>2. LookupFails(c) => pc'[c] = "idle"
  BY WhereHostsGo, Zenon DEF LookupFails
<1>3. modules' = modules
  BY OthersUntouched, Zenon
<1>4. ~ReadFails(c)
  BY Zenon DEF ReadFails
<1>5. ~Damaged(LookupPacket) /\ LookupPacket.type = "dyld"
  BY Zenon DEF LookupPacket, Damaged
<1>6. /\ \A s \in {"idle", "ask", "reask", "send", "push", "drain"} : s \notin Waiting
      /\ \A s \in {"idle", "ask", "lookup", "push", "drain"} : s \notin TowardsCall
  BY Zenon DEF Waiting, TowardsCall
<1>7. CASE Begin(c)
  <2>1. pc[c] = "idle" /\ UNCHANGED netVars /\ pc'[c] \in {"ask", "push", "idle"}
    BY <1>1, <1>7, Zenon DEF Begin
  <2> QED
    BY <1>3, <1>6, <2>1, StaysInRange, Zenon
<1>8. CASE Ask(c)
  <2>1. pc[c] = "ask" /\ pc'[c] \in {"lookup", "idle"}
    BY <1>1, <1>2, <1>8, Zenon DEF Ask
  <2>2. Sends(c, LookupPacket) \/ SendFails
    BY <1>8, Zenon DEF Ask
  <2>3. pc'[c] \notin TowardsCall /\ pc[c] \notin Waiting /\ pc'[c] # "call"
    BY <1>6, <2>1, Zenon
  <2> QED
    BY <1>3, <1>5, <2>2, <2>3, StaysInRange, ZenonT(40)
<1>9. CASE Lookup(c)
  <2>1. PICK r \in reps : /\ Reads(c, r)
                          /\ LookupGives(c, Index(r)) \/ LookupFails(c)
    BY <1>4, <1>9, Zenon DEF Lookup
  <2>2. CASE LookupFails(c)
    BY <1>2, <1>3, <1>6, <2>1, <2>2, StaysInRange, ZenonT(60)
  <2>3. CASE LookupGives(c, Index(r))
    <3>1. r \in Answers(c) /\ pc[c] = "lookup"
      BY <1>9, <2>1, Traffic, ZenonT(60) DEF Lookup
    <3>2. r.value \in 0..Len(modules) - 1
      BY <3>1, ZenonT(60) DEF InRangeOf
    <3>3. Index(r) = r.value /\ r.value < Len(modules)
      BY <3>2, IndexFits DEF Index
    <3>4. job'[c].idx = Index(r)
      BY <2>3, Zenon DEF LookupGives, TypeOK, Job
    <3> QED
      BY <1>3, <2>1, <3>3, <3>4, StaysInRange, ZenonT(60)
  <2> QED
    BY <2>1, <2>2, <2>3, Zenon
<1>10. CASE Reask(c) \/ Relookup(c)
  <2>1. job' = job /\ pc'[c] \in {"relookup", "send"}
    BY <1>1, <1>10, ZenonT(40) DEF Reask, Relookup
  <2>2. job[c].idx < Len(modules)
    BY <1>10, Zenon DEF Reask, Relookup, InRangeOf
  <2>3. Ready
    BY <2>1, <2>2, Zenon
  <2>4. CASE Reask(c)
    <3>1. pc[c] \notin Waiting /\ (Sends(c, LookupPacket) \/ SendFails) /\ pc'[c] # "call"
      BY <1>6, <2>1, <2>4, ZenonT(60) DEF Reask
    <3> QED
      BY <1>3, <1>5, <2>3, <3>1, StaysInRange, Zenon
  <2>5. CASE Relookup(c)
    <3>1. \E r : Reads(c, r)
      BY <1>4, <2>5, Zenon DEF Relookup
    <3> QED
      BY <1>3, <2>3, <3>1, StaysInRange, ZenonT(60)
  <2> QED
    BY <1>10, <2>4, <2>5, Zenon
<1>11. CASE SendCall(c)
  <2> DEFINE p == CallPacket(job[c].idx, job[c].function, job[c].args)
  <2>1. pc[c] = "send" /\ pc[c] \notin Waiting /\ job' = job
    BY <1>6, <1>11, Zenon DEF SendCall
  <2>2. job[c].idx < Len(modules)
    BY <2>1, Zenon DEF InRangeOf
  <2>3. Ready
    BY <2>1, <2>2, Zenon
  <2>4. CASE SendFails
    BY <1>3, <2>1, <2>3, <2>4, StaysInRange, Zenon
  <2>5. CASE Sends(c, p) /\ Goes(c, "call")
    <3>1. job[c].idx \in 0..Len(modules) - 1
      <4>1. job[c].idx \in 0..UINT16_MAX
        BY ZenonT(60) DEF TypeOK, Job
      <4> QED
        BY <2>2, <4>1, IndexFits, Uint16IsInt
    <3>2. p.module = job[c].idx /\ p.type = "rpc" /\ ~Damaged(p) /\ p.args = job[c].args
      BY <3>1, IndexFits, Zenon DEF CallPacket, Damaged
    <3>3. pc'[c] = "call"
      BY <1>1, <2>5, Zenon
    <3> HIDE DEF p
    <3> QED
      BY <1>3, <2>1, <2>3, <2>5, <3>2, <3>3, StaysInRange, ZenonT(60)
  <2> QED
    BY <1>11, <2>4, <2>5, Zenon DEF SendCall
<1>12. CASE Call(c)
  <2>1. (\E r : Reads(c, r)) /\ pc'[c] = "idle"
    BY <1>1, <1>4, <1>12, Zenon DEF Call
  <2> QED
    BY <1>3, <1>6, <2>1, StaysInRange, Zenon
<1>13. CASE PushCall(c)
  <2>1. SendFails /\ pc'[c] = "drain" /\ pc[c] = "push"
    BY <1>1, <1>13, Zenon DEF PushCall
  <2> QED
    BY <1>3, <1>6, <2>1, StaysInRange, Zenon
<1>14. CASE Drain(c)
  <2>1. (\E r : Reads(c, r)) /\ pc'[c] \in {"push", "idle"}
    BY <1>1, <1>4, <1>14, ZenonT(60) DEF Drain
  <2> QED
    BY <1>3, <1>6, <2>1, StaysInRange, ZenonT(60)
<1> QED
  BY <1>7, <1>8, <1>9, <1>10, <1>11, <1>12, <1>13, <1>14, ZenonT(60) DEF Host
==============================================================================
