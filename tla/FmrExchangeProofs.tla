-------------------------- MODULE FmrExchangeProofs --------------------------
(***************************************************************************)
(* For any number of clients, operations and faults: a client that has not *)
(* strayed reads its own answers, calls modules that exist and has its     *)
(* calls performed; and the exchange implements the remote calls of module *)
(* RemoteCall.                                                             *)
(***************************************************************************)
EXTENDS FmrExchangeSteps, FmrRefinement

\* Every step keeps the clients that have not strayed in step and in range.
LEMMA StepsKeepClients ==
    ASSUME TypeOK, DevInv, InStep, InRange, ReadsOwnAnswer, Next
    PROVE  InStep' /\ InRange' /\ ReadsOwnAnswer'
<1>1. /\ Len(modules) \in Nat /\ Len(modules') \in Nat /\ Len(modules) <= Len(modules')
      /\ \A d \in Clients : job[d].idx \in Int
  <2>1. \A d \in Clients : job[d].idx \in Int
    BY Uint16IsInt DEF TypeOK, Job
  <2> QED
    BY <2>1, ModulesGrow, Zenon
<1>2. \A d \in Clients \ strayed : Untouched(d) => InStepOf(d)' /\ InRangeOf(d)'
  BY <1>1, UntouchedKeeps, Zenon DEF InStep, InRange
<1>3. CASE Boots \/ Lose \/ Duplicate \/ Stopped
  <2>1. strayed \subseteq strayed' /\ crossed' = crossed /\ \A d \in Clients \ strayed' : Untouched(d)
    BY <1>3, NetworkUntouched, Zenon
  <2>2. \A d \in Clients \ strayed' : InStepOf(d)' /\ InRangeOf(d)'
    BY <1>2, <2>1, Zenon
  <2> QED
    BY <2>1, <2>2, Zenon DEF InStep, InRange, ReadsOwnAnswer
<1>4. ASSUME NEW c \in Clients, Serves(c)
      PROVE  InStep' /\ InRange' /\ ReadsOwnAnswer'
  <2>1. /\ strayed' = strayed /\ crossed' = crossed
        /\ \A d \in Clients \ {c} : Untouched(d)
        /\ InStepOf(c) /\ InRangeOf(c) => InStepOf(c)' /\ InRangeOf(c)'
    BY <1>4, ServesKeeps, Zenon
  <2>2. \A d \in Clients \ strayed : InStepOf(d)' /\ InRangeOf(d)'
    BY <1>2, <2>1, Zenon DEF InStep, InRange
  <2> QED
    BY <2>1, <2>2, Zenon DEF InStep, InRange, ReadsOwnAnswer
<1>5. ASSUME NEW c \in Clients, Begin(c) \/ Host(c)
      PROVE  InStep' /\ InRange' /\ ReadsOwnAnswer'
  <2>1. strayed \subseteq strayed' /\ \A d \in Clients \ {c} : Untouched(d)
    BY <1>5, OthersUntouched, Zenon
  <2>2. c \notin strayed' => InStepOf(c)' /\ InRangeOf(c)'
    BY <1>5, <2>1, HostStaysInStep, HostStaysInRange, ZenonT(60) DEF InStep, InRange
  <2>3. \A d \in Clients \ strayed' : InStepOf(d)' /\ InRangeOf(d)'
    BY <1>2, <2>1, <2>2, ZenonT(60)
  <2> QED
    BY <1>5, <2>3, HostReadsOwnAnswer, Zenon DEF InStep, InRange
<1> QED
  BY <1>3, <1>4, <1>5, ZenonT(60) DEF Next

\* A step of one host leaves the outcomes of the others alone.
LEMMA OthersKeepOutcome ==
    ASSUME TypeOK, NEW c \in Clients, Begin(c) \/ Host(c)
    PROVE  \A d \in Clients \ {c} : done'[d] = done[d]
<1> DEFINE Others == \A d \in Clients \ {c} : done'[d] = done[d]
<1>1. /\ \A to : Goes(c, to) => Others
      /\ \A ret, e, k : Ends(c, ret, e, k) => Others
      /\ Fails(c) \/ ModuleFound(c) => Others
  BY WhereHostsGo, Zenon
<1> HIDE DEF Others
<1>2. LookupFails(c) => Others
  BY <1>1, Zenon DEF LookupFails
<1>3. \A idx : LookupGives(c, idx) => Others
  BY <1>1, Zenon DEF LookupGives
<1>4. CASE Begin(c)
  BY <1>1, <1>4, ZenonT(60) DEF Begin, Others
<1>5. CASE Ask(c) \/ Lookup(c)
  BY <1>1, <1>2, <1>3, <1>5, ZenonT(60) DEF Ask, Lookup, Others
<1>6. CASE Reask(c) \/ Relookup(c) \/ SendCall(c) \/ PushCall(c)
  BY <1>1, <1>6, Zenon DEF Reask, Relookup, SendCall, PushCall, Others
<1>7. CASE Call(c) \/ Drain(c)
  BY <1>1, <1>7, Zenon DEF Call, Drain, Others
<1> QED
  BY <1>4, <1>5, <1>6, <1>7, ZenonT(60) DEF Host

\* A call by index ends with a module's answer, or with an error for the host;
\* E_NULL in the answer comes from a call with arguments.
LEMMA StepsKeepNullIsNoMemory ==
    ASSUME TypeOK, DevInv, InRange, NullIsNoMemory, Next
    PROVE  NullIsNoMemory'
<1>1. CASE Boots \/ Lose \/ Duplicate \/ Stopped
  <2>1. strayed \subseteq strayed'
    BY <1>1, NetworkUntouched, Zenon
  <2>2. done' = done
    BY <1>1, Zenon DEF Boots, Lose, Duplicate, Stopped, vars, hostVars
  <2> QED
    BY <2>1, <2>2, ZenonT(60) DEF NullIsNoMemory
<1>2. ASSUME NEW c \in Clients, Serves(c)
      PROVE  NullIsNoMemory'
  BY <1>2, Zenon DEF Serves, hostVars, NullIsNoMemory
<1>3. ASSUME NEW c \in Clients, Begin(c) \/ Host(c)
      PROVE  NullIsNoMemory'
  <2> DEFINE Others == \A d \in Clients \ {c} : done'[d] = done[d]
             Fine == \/ c \in strayed' \/ done'[c].ret = "error" \/ done'[c].error # "E_NULL"
                     \/ done'[c].job.args = "some" \/ done' = done
  <2>1. /\ \A to : Goes(c, to) => Others /\ Fine
        /\ \A ret, e, k : Ends(c, ret, e, k) => Others /\ (e # "E_NULL" => Fine)
        /\ Fails(c) \/ ModuleFound(c) => Others /\ Fine
    BY WhereHostsGo, SMTT(60)
  <2>2. \A ret, k : Ends(c, ret, "E_OK", k) => Others /\ Fine
    BY <2>1
  <2> HIDE DEF Others, Fine
  <2>3. LookupFails(c) => Others /\ Fine
    BY <2>1, <2>2, Zenon DEF LookupFails
  <2>4. \A idx : LookupGives(c, idx) => Others /\ Fine
    BY <2>1, <2>2, Zenon DEF LookupGives
  <2>5. ASSUME Begin(c) PROVE Others /\ Fine
    BY <2>1, <2>5, ZenonT(60) DEF Begin
  <2>6. ASSUME Ask(c) \/ Lookup(c) PROVE Others /\ Fine
    BY <2>1, <2>3, <2>4, <2>6, ZenonT(60) DEF Ask, Lookup
  <2>7. ASSUME Reask(c) \/ Relookup(c) \/ SendCall(c) \/ PushCall(c) PROVE Others /\ Fine
    BY <2>1, <2>7, ZenonT(60) DEF Reask, Relookup, SendCall, PushCall
  <2>8. ASSUME Drain(c) PROVE Others /\ Fine
    BY <2>1, <2>2, <2>8, ZenonT(60) DEF Drain
  <2>9. ASSUME Call(c) PROVE Others /\ Fine
    <3>1. ASSUME NEW r \in reps, Reads(c, r), Ends(c, "success", r.error, r.called)
          PROVE  Others /\ Fine
      <4>1. r \in Answers(c) /\ pc[c] = "call" /\ strayed' = strayed
        BY <2>9, <3>1, Traffic, ZenonT(60) DEF Call, Reads
      <4>2. c \in strayed' \/ r.error # "E_NULL" \/ job[c].args = "some"
        BY <4>1, Zenon DEF InRange, InRangeOf
      <4>3. done'[c].job = job'[c] /\ job' = job
        BY <2>9, <3>1, Zenon DEF Call, Ends, TypeOK
      <4> QED
        BY <2>1, <3>1, <4>2, <4>3, ZenonT(60) DEF Fine
    <3> QED
      BY <2>1, <2>9, <3>1, ZenonT(60) DEF Call
  <2>10. Others /\ Fine
    BY <1>3, <2>5, <2>6, <2>7, <2>8, <2>9, ZenonT(60) DEF Host
  <2>11. strayed \subseteq strayed'
    BY <1>3, OthersUntouched, ZenonT(60)
  <2>12. ASSUME NEW d \in Clients \ strayed',
                done'[d].ret = "success", done'[d].job.op = "index", done'[d].error = "E_NULL"
         PROVE  done'[d].job.args = "some"
    <3>1. CASE done'[d] = done[d]
      BY <2>11, <2>12, <3>1, ZenonT(60) DEF NullIsNoMemory
    <3>2. CASE d = c
      BY <2>10, <2>12, <3>1, <3>2, ZenonT(60) DEF Fine
    <3> QED
      BY <2>10, <3>1, <3>2, ZenonT(60) DEF Others
  <2> QED
    BY <2>12, ZenonT(60) DEF NullIsNoMemory
<1> QED
  BY <1>1, <1>2, <1>3, Zenon DEF Next
-----------------------------------------------------------------------------
(***************************************************************************)
(* What became of a call.                                                  *)
(***************************************************************************)

\* fmr_rpc calls the function of a packet on the module of the packet, or
\* calls nothing when the function is past the module's table or memory for
\* the arguments runs out.
LEMMA CallIsPerformed ==
    ASSUME registry = Classes, modules # <<>>, NEW p, ~Damaged(p), p.type = "rpc",
           p.module < Len(modules), p.module \in Int, Len(modules) \in Int,
           p.function \in Int, modules[p.module + 1].length \in Int,
           NEW o \in fmr_perform(p)
    PROVE  Performed(p.module, p.function, p.args, o.called)
<1>1. o \in fmr_rpc(p, "E_OK")
  BY Zenon DEF fmr_perform, Dispatch, Classes, UnknownClass
<1>2. ~(p.module >= Len(modules))
  OBVIOUS
<1>3. CASE p.function >= modules[p.module + 1].length
  <2>1. o.called = NoCall
    BY <1>1, <1>2, <1>3, SMTT(60) DEF fmr_rpc, Outcome
  <2> QED
    BY <1>3, <2>1, SMTT(60) DEF Performed
<1>4. CASE p.function < modules[p.module + 1].length
  <2>1. \/ \E r \in Returns : o = [Outcome(TRUE, r, "E_OK") EXCEPT !.called = <<p.module, p.function>>]
        \/ p.args = "some" /\ \E e : o = Outcome(FALSE, 0, e)
    <3>1. ~(p.function >= modules[p.module + 1].length)
      BY <1>4
    <3> QED
      BY <1>1, <1>2, <3>1, ZenonT(60) DEF fmr_rpc, OutOfMemory
  <2>2. o.called = <<p.module, p.function>> \/ (p.args = "some" /\ o.called = NoCall)
    <3>1. \A r : [Outcome(TRUE, r, "E_OK") EXCEPT !.called = <<p.module, p.function>>].called
                   = <<p.module, p.function>>
      BY Zenon DEF Outcome
    <3>2. \A e : Outcome(FALSE, 0, e).called = NoCall
      BY Zenon DEF Outcome
    <3> QED
      BY <2>1, <3>1, <3>2, Zenon
  <2> QED
    BY <1>4, <2>2, Zenon DEF Performed
<1> QED
  BY <1>3, <1>4

\* A module keeps its place and its table as long as the device runs:
\* dyld_register appends, and fmr_push writes a module's state only.
LEMMA TablesKept ==
    ASSUME DevInv, TypeOK, Next
    PROVE  \A i \in 1..Len(modules) : modules'[i].length = modules[i].length
<1>1. modules \in Seq(Module) /\ Len(modules) \in Nat
  BY DEF DevInv, DevTypeOK
<1>2. CASE modules' = modules
  BY <1>2, Zenon
<1>3. ASSUME NEW image, dyld_register(image)
      PROVE  \A i \in 1..Len(modules) : modules'[i].length = modules[i].length
  <2>1. modules' = modules \/ \E m : modules' = Append(modules, m)
    BY <1>3, Zenon DEF dyld_register
  <2> QED
    BY <1>1, <2>1
<1>4. ASSUME NEW c \in Clients, Serves(c)
      PROVE  \A i \in 1..Len(modules) : modules'[i].length = modules[i].length
  <2>1. \/ modules' = modules
        \/ \E k : modules' = [modules EXCEPT ![k].state = "written"]
    BY <1>4, Zenon DEF Serves, Serve
  <2>2. \A i \in 1..Len(modules) : modules[i] \in Module
    BY <1>1
  <2>3. DOMAIN modules = 1..Len(modules)
    BY <1>1
  <2>4. ASSUME NEW k, modules' = [modules EXCEPT ![k].state = "written"],
               NEW i \in 1..Len(modules)
        PROVE  modules'[i].length = modules[i].length
    <3>1. CASE i = k
      <4>1. modules'[i] = [modules[i] EXCEPT !.state = "written"]
        BY <2>3, <2>4, <3>1, Zenon
      <4>2. modules[i] \in Module
        BY <2>2, Zenon
      <4> QED
        BY <4>1, <4>2, Zenon DEF Module
    <3>2. CASE i # k
      BY <2>3, <2>4, <3>2, ZenonT(60)
    <3> QED
      BY <3>1, <3>2, Zenon
  <2> QED
    BY <2>1, <2>4, ZenonT(60)
<1>5. CASE Boots
  BY <1>2, <1>3, <1>5, ZenonT(60) DEF Boots, Boot, RegisterDac, fmr_init, LoadModule, LoadFails, AwaitPackets
<1>6. CASE Lose \/ Duplicate \/ Stopped
  BY <1>2, <1>6, Zenon DEF Lose, Duplicate, Stopped, vars, devVars
<1>7. ASSUME NEW c \in Clients, Begin(c) \/ Host(c)
      PROVE  modules' = modules
  BY <1>7, OthersUntouched, Zenon
<1> QED
  BY <1>2, <1>4, <1>5, <1>6, <1>7, ZenonT(60) DEF Next

\* So what became of a call is still what the device would do with it.
LEMMA PerformedKept ==
    ASSUME DevInv, TypeOK, Next, NEW idx \in Nat, idx < Len(modules),
           NEW function, NEW args, NEW called, Performed(idx, function, args, called)
    PROVE  idx < Len(modules') /\ Performed(idx, function, args, called)'
<1>1. Len(modules) \in Nat /\ Len(modules') \in Nat /\ Len(modules) <= Len(modules')
  BY ModulesGrow, Zenon
<1>2. idx + 1 \in 1..Len(modules)
  BY <1>1
<1>3. modules'[idx + 1].length = modules[idx + 1].length
  BY <1>2, TablesKept, ZenonT(60)
<1>4. idx < Len(modules')
  BY <1>1
<1> QED
  BY <1>3, <1>4, Zenon DEF Performed

\* The outcome of the last operation of client d: a call that was performed.
Recorded(d) ==
    done[d].ret = "success" /\ done[d].job.op = "index" =>
        /\ done[d].job.idx < Len(modules)
        /\ Performed(done[d].job.idx, done[d].job.function, done[d].job.args, done[d].called)

\* A step that leaves a client where it was keeps what is known of its call
\* and of the outcome it has.
LEMMA CarriesKept ==
    ASSUME DevInv, TypeOK, Next, NEW d \in Clients, CarriesOf(d), InRangeOf(d)
    PROVE  /\ done'[d] = done[d] => Recorded(d)'
           /\ done'[d] = done[d] /\ Untouched(d) => CarriesOf(d)'
<1>1. job[d].idx \in Nat /\ done[d].job.idx \in Nat
  BY Uint16IsInt, SMTT(60) DEF TypeOK, Job, Done
<1>2. ASSUME done'[d] = done[d] PROVE Recorded(d)'
  BY <1>1, <1>2, PerformedKept, Zenon DEF CarriesOf, Recorded
<1>3. ASSUME done'[d] = done[d], Untouched(d) PROVE CarriesOf(d)'
  <2>1. ASSUME pc'[d] = "call"
        PROVE  /\ \A r \in Requests(d)' : r.p.function = job'[d].function
               /\ \A r \in Answers(d)' : Performed(job[d].idx, job[d].function, job[d].args, r.called)'
    <3>1. pc[d] = "call" /\ job[d].idx < Len(modules)
      BY <1>3, <2>1, ZenonT(60) DEF Untouched, InRangeOf
    <3>2. \A r \in Requests(d)' : r.p.function = job'[d].function
      BY <1>3, <3>1, ZenonT(60) DEF Untouched, CarriesOf
    <3>3. ASSUME NEW r \in Answers(d)'
          PROVE  Performed(job[d].idx, job[d].function, job[d].args, r.called)'
      <4>1. Performed(job[d].idx, job[d].function, job[d].args, r.called)
        BY <1>3, <3>1, ZenonT(60) DEF Untouched, CarriesOf
      <4>2. ASSUME NEW idx, NEW function, NEW args,
                   idx = job[d].idx, function = job[d].function, args = job[d].args
            PROVE  Performed(idx, function, args, r.called)'
        BY <1>1, <3>1, <4>1, <4>2, PerformedKept, ZenonT(60)
      <4>3. job'[d] = job[d]
        BY <1>3, ZenonT(60) DEF Untouched
      <4> QED
        BY <4>2, <4>3, ZenonT(60) DEF Performed
    <3> QED
      BY <3>2, <3>3, ZenonT(60)
  <2> QED
    BY <1>2, <1>3, <2>1, ZenonT(60) DEF CarriesOf, Recorded
<1> QED
  BY <1>2, <1>3, ZenonT(60)

\* The device answers a call with what it did.
LEMMA ServesCarries ==
    ASSUME TypeOK, DevInv, Next, NEW c \in Clients, Serves(c),
           InStepOf(c), InRangeOf(c), CarriesOf(c)
    PROVE  CarriesOf(c)'
<1>1. PICK r \in reqs, sent \in BOOLEAN : \E o \in fmr_perform(r.p) :
         /\ r.from = c
         /\ Serve(r.p, o, sent)
         /\ reqs' = reqs \ {r}
         /\ reps' = reps \cup {Answer(r, o)} \/ reps' = reps
         /\ UNCHANGED <<seq, strayed, hostVars>>
  BY Zenon DEF Serves
<1>2. PICK o \in fmr_perform(r.p) :
         /\ r.from = c
         /\ Serve(r.p, o, sent)
         /\ reqs' = reqs \ {r}
         /\ reps' = reps \cup {Answer(r, o)} \/ reps' = reps
         /\ UNCHANGED <<seq, strayed, hostVars>>
  BY <1>1, Zenon
<1> DEFINE a == Answer(r, o)
<1>3. a.to = c /\ a.called = o.called
  BY <1>2, Zenon DEF Answer
<1>4. pc' = pc /\ job' = job /\ done' = done
  BY <1>2, Zenon DEF hostVars
<1>5. Recorded(c)'
  BY <1>4, CarriesKept, Zenon
<1>6. /\ reqs' = reqs \ {r}
      /\ reps' = reps \cup {a} \/ reps' = reps
  BY <1>2, Zenon
<1> HIDE DEF a
<1>7. r \in Requests(c) /\ Requests(c)' \subseteq Requests(c) /\ Answers(c)' \subseteq Answers(c) \cup {a}
  BY <1>2, <1>6, ZenonT(60) DEF Requests, Answers
<1>8. ASSUME pc[c] = "call"
      PROVE  /\ \A x \in Requests(c)' : x.p.function = job'[c].function
             /\ \A x \in Answers(c)' : Performed(job[c].idx, job[c].function, job[c].args, x.called)'
  <2>1. /\ ~Damaged(r.p) /\ r.p.type = "rpc" /\ r.p.module = job[c].idx
        /\ r.p.args = job[c].args /\ r.p.function = job[c].function /\ job[c].idx < Len(modules)
    BY <1>7, <1>8, ZenonT(60) DEF InRangeOf, CarriesOf
  <2>2. job[c].idx \in Nat /\ job[c].function \in Nat
    <3>1. job[c].idx \in 0..UINT16_MAX /\ job[c].function \in 0..UINT8_MAX
      BY ZenonT(60) DEF TypeOK, Job
    <3> QED
      BY <3>1, Uint16IsInt, SMTT(60) DEF UINT8_MAX
  <2>3. modules \in Seq(Module) /\ Len(modules) \in Nat /\ registry = Classes /\ modules # <<>>
    BY <1>2, SMTT(60) DEF DevInv, DevTypeOK, DispatchReady, Serve
  <2>4. modules[job[c].idx + 1].length \in Int
    <3>1. job[c].idx + 1 \in 1..Len(modules)
      BY <2>1, <2>2, <2>3, SMTT(60)
    <3>2. modules[job[c].idx + 1] \in Module
      BY <2>3, <3>1, SMTT(60)
    <3> QED
      BY <3>2, SMTT(60) DEF Module
  <2>5. Performed(r.p.module, r.p.function, r.p.args, o.called)
    BY <2>1, <2>2, <2>3, <2>4, CallIsPerformed, SMTT(60)
  <2>6. \A x \in Answers(c)' : Performed(job[c].idx, job[c].function, job[c].args, x.called)
    BY <1>3, <1>7, <1>8, <2>1, <2>5, ZenonT(60) DEF CarriesOf
  <2>7. ASSUME NEW x \in Answers(c)'
        PROVE  Performed(job[c].idx, job[c].function, job[c].args, x.called)'
    <3>1. ASSUME NEW idx, NEW function, NEW args,
                 idx = job[c].idx, function = job[c].function, args = job[c].args
          PROVE  Performed(idx, function, args, x.called)'
      BY <2>1, <2>2, <2>6, <3>1, PerformedKept, ZenonT(60)
    <3> QED
      BY <1>4, <3>1, ZenonT(60) DEF Performed
  <2>8. \A x \in Requests(c)' : x.p.function = job'[c].function
    BY <1>4, <1>7, <1>8, ZenonT(60) DEF CarriesOf
  <2> QED
    BY <2>7, <2>8, ZenonT(60)
<1> QED
  BY <1>4, <1>5, <1>8, ZenonT(60) DEF CarriesOf, Recorded

\* A host that waits for the answer to a call has just sent it, with the
\* function that it was asked to call.
LEMMA HostSendsTheCall ==
    ASSUME TypeOK, NEW c \in Clients, Begin(c) \/ Host(c), InStepOf(c), c \notin strayed',
           pc'[c] = "call"
    PROVE  /\ \A r \in Requests(c)' : r.p.function = job'[c].function
           /\ Answers(c)' = {}
<1>1. /\ \A to : Goes(c, to) => pc'[c] = to
      /\ \A ret, e, k : Ends(c, ret, e, k) => pc'[c] = "idle"
      /\ Fails(c) \/ ModuleFound(c) => pc'[c] \in {"push", "idle"}
  BY WhereHostsGo, Zenon
<1>2. ~LookupFails(c) /\ \A idx : ~LookupGives(c, idx)
  BY <1>1, Zenon DEF LookupFails, LookupGives
<1>3. ~Begin(c)
  BY <1>1, Zenon DEF Begin
<1>4. ~Ask(c) /\ ~Lookup(c)
  BY <1>1, <1>2, ZenonT(60) DEF Ask, Lookup
<1>5. ~Reask(c) /\ ~Relookup(c)
  BY <1>1, Zenon DEF Reask, Relookup
<1>6. ~Call(c) /\ ~PushCall(c) /\ ~Drain(c)
  BY <1>1, Zenon DEF Call, PushCall, Drain
<1>7. SendCall(c) /\ ~Fails(c)
  BY <1>1, <1>3, <1>4, <1>5, <1>6, ZenonT(60) DEF Host
<1>8. pc[c] = "send" /\ job' = job /\ Sends(c, CallPacket(job[c].idx, job[c].function, job[c].args))
  BY <1>7, Zenon DEF SendCall
<1> DEFINE p == CallPacket(job[c].idx, job[c].function, job[c].args)
           q == [from |-> c, seq |-> seq[c] + 1, copy |-> 0, p |-> p]
<1>9. p.function = job[c].function
  BY Zenon DEF CallPacket
<1>10. Sends(c, p)
  BY <1>8, Zenon
<1> HIDE DEF p
<1>11. q.p = p
  BY Zenon
<1>12. Requests(c)' = Requests(c) \cup {q} /\ Answers(c)' = Answers(c)
  BY <1>10, Traffic, ZenonT(60)
<1> HIDE DEF q
<1>13. Requests(c) = {} /\ Answers(c) = {}
  BY <1>8, Zenon DEF InStepOf
<1> QED
  BY <1>8, <1>9, <1>11, <1>12, <1>13, ZenonT(60)

\* What a host records at the end of a call by index is what its answer says.
LEMMA HostRecordsTheCall ==
    ASSUME TypeOK, DevInv, Next, NEW c \in Clients, Begin(c) \/ Host(c),
           InRangeOf(c), CarriesOf(c), c \notin strayed'
    PROVE  Recorded(c)'
<1> DEFINE Fine == done'[c] = done[c] \/ done'[c].ret = "error" \/ done'[c].job.op # "index"
<1>1. modules' = modules
  BY OthersUntouched, Zenon
<1>2. Fine => Recorded(c)'
  BY CarriesKept, ZenonT(60) DEF Recorded
<1>3. \A ret, e, k : Ends(c, ret, e, k) => done'[c].job = job'[c] /\ done'[c].called = k
  BY SMTT(60) DEF Ends, TypeOK
<1>4. /\ \A to : Goes(c, to) => Fine
      /\ \A e, k : Ends(c, "error", e, k) => Fine
      /\ Fails(c) \/ ModuleFound(c) => Fine
  BY WhereHostsGo, Zenon
<1>5. \A ret, e, k : Ends(c, ret, e, k) /\ job'[c].op # "index" => Fine
  BY <1>3, Zenon
<1>6. ~ReadFails(c)
  BY Zenon DEF ReadFails
<1> HIDE DEF Fine
<1>7. LookupFails(c) => Fine
  <2>1. job' = job /\ job[c].op = "unload" => job'[c].op # "index"
    BY Zenon
  <2> QED
    BY <1>4, <1>5, <2>1, ZenonT(60) DEF LookupFails
<1>8. ASSUME NEW idx, LookupGives(c, idx) PROVE Fine
  <2>1. job'[c].op = job[c].op
    BY <1>8 DEF LookupGives, TypeOK, Job
  <2> QED
    BY <1>4, <1>5, <1>8, <2>1, ZenonT(60) DEF LookupGives
<1>9. CASE Begin(c)
  BY <1>2, <1>4, <1>9, ZenonT(60) DEF Begin
<1>10. CASE Ask(c) \/ Lookup(c)
  BY <1>2, <1>4, <1>7, <1>8, <1>10, ZenonT(60) DEF Ask, Lookup
<1>11. CASE Reask(c) \/ Relookup(c) \/ SendCall(c) \/ PushCall(c)
  BY <1>2, <1>4, <1>11, ZenonT(60) DEF Reask, Relookup, SendCall, PushCall
<1>12. CASE Drain(c)
  BY <1>2, <1>4, <1>6, <1>12, ZenonT(60) DEF Drain
<1>13. CASE Call(c)
  <2>1. PICK r \in reps : Reads(c, r) /\ Ends(c, "success", r.error, r.called)
    BY <1>6, <1>13, Zenon DEF Call
  <2>2. pc[c] = "call" /\ job' = job /\ r \in Answers(c)
    BY <1>13, <2>1, Traffic, Zenon DEF Call
  <2>3. Performed(job[c].idx, job[c].function, job[c].args, r.called) /\ job[c].idx < Len(modules)
    BY <2>2, Zenon DEF CarriesOf, InRangeOf
  <2>4. done'[c].job = job[c] /\ done'[c].called = r.called
    BY <1>3, <2>1, <2>2, ZenonT(60)
  <2> QED
    BY <1>1, <2>3, <2>4, Zenon DEF Recorded, Performed
<1> QED
  BY <1>9, <1>10, <1>11, <1>12, <1>13, ZenonT(60) DEF Host

\* Every step keeps what is known of the calls of the clients that have not
\* strayed.
LEMMA StepsKeepCarries ==
    ASSUME TypeOK, DevInv, InStep, InRange, Carries, Next
    PROVE  Carries'
<1>1. \A d \in Clients \ strayed : InStepOf(d) /\ InRangeOf(d) /\ CarriesOf(d)
  BY Zenon DEF InStep, InRange, Carries
<1>2. \A d \in Clients \ strayed : done'[d] = done[d] /\ Untouched(d) => CarriesOf(d)'
  BY <1>1, CarriesKept, ZenonT(60)
<1>3. CASE Boots \/ Lose \/ Duplicate \/ Stopped
  <2>1. strayed \subseteq strayed' /\ \A d \in Clients \ strayed' : Untouched(d)
    BY <1>3, NetworkUntouched, Zenon
  <2>2. done' = done
    BY <1>3, Zenon DEF Boots, Lose, Duplicate, Stopped, vars, hostVars
  <2> QED
    BY <1>2, <2>1, <2>2, ZenonT(60) DEF Carries
<1>4. ASSUME NEW c \in Clients, Serves(c)
      PROVE  Carries'
  <2>1. strayed' = strayed /\ \A d \in Clients \ {c} : Untouched(d)
    BY <1>4, ServesKeeps, ZenonT(60)
  <2>2. done' = done
    BY <1>4, ZenonT(60) DEF Serves, hostVars
  <2>3. c \notin strayed => CarriesOf(c)'
    BY <1>1, <1>4, ServesCarries, Zenon
  <2> QED
    BY <1>2, <2>1, <2>2, <2>3, Zenon DEF Carries
<1>5. ASSUME NEW c \in Clients, Begin(c) \/ Host(c)
      PROVE  Carries'
  <2>1. strayed \subseteq strayed' /\ \A d \in Clients \ {c} : Untouched(d)
    BY <1>5, OthersUntouched, ZenonT(60)
  <2>2. \A d \in Clients \ {c} : done'[d] = done[d]
    BY <1>5, OthersKeepOutcome, Zenon
  <2>3. ASSUME c \notin strayed' PROVE CarriesOf(c)'
    <3>1. InStepOf(c) /\ InRangeOf(c) /\ CarriesOf(c)
      BY <1>1, <2>1, <2>3, ZenonT(60)
    <3>2. Recorded(c)'
      BY <1>5, <2>3, <3>1, HostRecordsTheCall, ZenonT(60)
    <3>3. pc'[c] = "call" => /\ \A r \in Requests(c)' : r.p.function = job'[c].function
                             /\ Answers(c)' = {}
      BY <1>5, <2>3, <3>1, HostSendsTheCall, ZenonT(60)
    <3> QED
      BY <3>2, <3>3, ZenonT(60) DEF CarriesOf, Recorded
  <2> QED
    BY <1>2, <2>1, <2>2, <2>3, ZenonT(60) DEF Carries
<1> QED
  BY <1>3, <1>4, <1>5, Zenon DEF Next
-----------------------------------------------------------------------------
\* The invariant of the exchange holds initially and every step keeps it.
THEOREM ExchangeInvariant == Spec => []ExchangeInv
<1>1. Init => ExchangeInv
  <2> SUFFICES ASSUME Init PROVE ExchangeInv
    BY Zenon
  <2>1. DevInv /\ TypeOK
    BY TypesInit, Zenon
  <2>2. InStep /\ ReadsOwnAnswer
    BY Zenon DEF Init, InStep, InStepOf, Requests, Answers, ReadsOwnAnswer
  <2>3. InRange
    BY Zenon DEF Init, InRange, InRangeOf, Requests, Answers
  <2>4. NullIsNoMemory
    BY Zenon DEF Init, NullIsNoMemory, NotDone
  <2>5. Carries
    BY Zenon DEF Init, Carries, CarriesOf, NotDone
  <2> QED
    BY <2>1, <2>2, <2>3, <2>4, <2>5, ZenonT(60) DEF ExchangeInv
<1>2. ExchangeInv /\ [Next]_vars => ExchangeInv'
  <2> SUFFICES ASSUME DevInv, TypeOK, InStep, InRange, ReadsOwnAnswer, NullIsNoMemory,
                      Carries, [Next]_vars
               PROVE  ExchangeInv'
    BY Zenon DEF ExchangeInv
  <2>1. DevInv' /\ TypeOK'
    BY TypesStep, Zenon
  <2>2. CASE UNCHANGED vars
    <3>1. UNCHANGED <<modules, reqs, reps, seq, strayed, pc, job, done, crossed>>
      BY <2>2, Zenon DEF vars, devVars, netVars, hostVars
    <3>2. ReadsOwnAnswer' /\ NullIsNoMemory'
      BY <3>1, ZenonT(60) DEF ReadsOwnAnswer, NullIsNoMemory
    <3>3. \A c : Requests(c)' = Requests(c) /\ Answers(c)' = Answers(c)
      BY <3>1, ZenonT(60) DEF Requests, Answers
    <3>4. \A c : InStepOf(c)' = InStepOf(c)
      BY <3>1, <3>3, ZenonT(60) DEF InStepOf
    <3>5. \A c : InRangeOf(c)' = InRangeOf(c)
      BY <3>1, <3>3, ZenonT(60) DEF InRangeOf, Damaged
    <3>6. \A c : CarriesOf(c)' = CarriesOf(c)
      BY <3>1, <3>3, ZenonT(60) DEF CarriesOf, Performed
    <3>7. InStep' /\ InRange' /\ Carries'
      BY <3>1, <3>4, <3>5, <3>6, ZenonT(60) DEF InStep, InRange, Carries
    <3> QED
      BY <2>1, <3>2, <3>7, Zenon DEF ExchangeInv
  <2>3. CASE Next
    BY <2>1, <2>3, StepsKeepClients, StepsKeepNullIsNoMemory, StepsKeepCarries, ZenonT(60)
       DEF ExchangeInv
  <2> QED
    BY <2>2, <2>3, Zenon
<1> QED
  BY <1>1, <1>2, PTL DEF Spec

\* Whatever the number of clients, operations and faults, a client takes an
\* answer for that of another request only after it strayed (lf_network_read
\* and its callers in lib/dyld.c and lib/libflipper.c).
THEOREM AnswersAreOwn == Spec => []ReadsOwnAnswer
<1>1. ExchangeInv => ReadsOwnAnswer
  BY ZenonT(60) DEF ExchangeInv
<1> QED
  BY <1>1, ExchangeInvariant, PTL

\* Whatever the list of images, up to the 256 that a call can name, a call by
\* index that returns named a module of the device's list, and E_NULL in its
\* answer is a lack of memory for its arguments, unless the client strayed
\* (lf_invoke_by_index, fmr_dyld and fmr_rpc).
THEOREM CallsAreInRange == Spec => []CallsFindAModule
<1>1. ExchangeInv => CallsFindAModule
  BY ZenonT(60) DEF ExchangeInv, Carries, CarriesOf, CallsFindAModule
<1> QED
  BY <1>1, ExchangeInvariant, PTL

\* Whatever the number of clients, operations and faults, a call by index that
\* returns was performed by the device on the module and the function that it
\* was sent for, or on none when the function is past the module's table or,
\* for a call with arguments, when the device ran out of memory, unless the
\* client strayed (lf_invoke_by_index, fmr_perform and fmr_rpc).
THEOREM CallsArePerformed == Spec => []PerformsTheCall
<1>1. ExchangeInv => PerformsTheCall
  BY ZenonT(60) DEF ExchangeInv, Carries, CarriesOf, PerformsTheCall
<1> QED
  BY <1>1, ExchangeInvariant, PTL
-----------------------------------------------------------------------------
(***************************************************************************)
(* The exchange implements the remote calls of module RemoteCall.          *)
(***************************************************************************)

\* A client's stage changes only with its datagrams, with what it waits for,
\* or when it strays.
LEMMA StageKept ==
    ASSUME NEW d, Requests(d)' = Requests(d), Answers(d)' = Answers(d), pc'[d] = pc[d],
           d \in strayed' <=> d \in strayed
    PROVE  StageOf(d)' = StageOf(d)
  BY Zenon DEF StageOf, Awaits

\* A stray client stays stray.
LEMMA StrayKept ==
    ASSUME NEW d \in strayed, strayed \subseteq strayed'
    PROVE  StageOf(d) = "stray" /\ StageOf(d)' = "stray"
  BY Zenon DEF StageOf

\* What a step may do to the stage of the client it is about.
Moves(c) ==
    \/ StageOf(c)' = StageOf(c)
    \/ StageOf(c) = "ready" /\ StageOf(c)' = "asked"
    \/ StageOf(c) = "asked" /\ StageOf(c)' = "answered"
    \/ StageOf(c) = "answered" /\ StageOf(c)' = "ready"
    \/ StageOf(c) \in {"asked", "answered"} /\ StageOf(c)' = "lost"
    \/ StageOf(c) # "stray" /\ StageOf(c)' = "stray"

\* A step that moves one client, and leaves the others where they were, is a
\* step of the remote calls.
LEMMA OneClientMoves ==
    ASSUME NEW c \in Clients, Moves(c),
           \A d \in Clients \ {c} : StageOf(d)' = StageOf(d)
    PROVE  [Calls!Next]_Stage
<1> DEFINE S(d) == StageOf(d)
           T(d) == StageOf(d)'
<1>1. Stage = [d \in Clients |-> S(d)] /\ Stage' = [d \in Clients |-> T(d)]
  BY Zenon DEF Stage
<1>2. S(c) \in Calls!Stages
  BY Zenon DEF StageOf, Calls!Stages
<1>3. \A d \in Clients \ {c} : T(d) = S(d)
  BY Zenon
<1>4. \/ T(c) = S(c)
      \/ S(c) = "ready" /\ T(c) = "asked"
      \/ S(c) = "asked" /\ T(c) = "answered"
      \/ S(c) = "answered" /\ T(c) = "ready"
      \/ S(c) \in {"asked", "answered"} /\ T(c) = "lost"
      \/ S(c) # "stray" /\ T(c) = "stray"
  BY Zenon DEF Moves
<1> HIDE DEF S, T
<1>5. Stage[c] = S(c) /\ Stage' = [Stage EXCEPT ![c] = T(c)]
  BY <1>1, <1>3, Zenon
<1>6. CASE T(c) = S(c)
  BY <1>1, <1>3, <1>6, Zenon
<1>7. CASE T(c) # S(c)
  BY <1>2, <1>4, <1>5, <1>7, Zenon
     DEF Calls!Next, Calls!Ask, Calls!Perform, Calls!Take, Calls!Lose, Calls!Stray, Calls!Move
<1> QED
  BY <1>6, <1>7, Zenon
-----------------------------------------------------------------------------
(***************************************************************************)
(* The network and the device.                                             *)
(***************************************************************************)

\* Booting, and standing still, is no step of a call.
LEMMA QuietStep ==
    ASSUME Boots \/ Stopped \/ UNCHANGED vars
    PROVE  Stage' = Stage
<1>1. UNCHANGED <<reqs, reps, pc, strayed>>
  BY Zenon DEF Boots, Stopped, vars, netVars, hostVars
<1>2. \A d \in Clients : Requests(d)' = Requests(d) /\ Answers(d)' = Answers(d)
  BY <1>1, Zenon DEF Requests, Answers
<1>3. \A d \in Clients : StageOf(d)' = StageOf(d)
  BY <1>1, <1>2, StageKept, Zenon
<1> QED
  BY <1>3, Zenon DEF Stage

\* A datagram that is lost moves the client that sent it or waits for it.
LEMMA LoseStep ==
    ASSUME TypeOK, InStep, Lose
    PROVE  [Calls!Next]_Stage
<1>1. UNCHANGED <<pc, strayed>>
  BY Zenon DEF Lose, hostVars
<1>2. ASSUME NEW r \in reqs, reqs' = reqs \ {r}, reps' = reps
      PROVE  [Calls!Next]_Stage
  <2>1. PICK c \in Clients : c = r.from
    BY <1>2, Zenon DEF TypeOK, Request
  <2>2. /\ \A d \in Clients \ {c} : Requests(d)' = Requests(d)
        /\ \A d \in Clients : Answers(d)' = Answers(d)
        /\ r \in Requests(c) /\ Requests(c)' = Requests(c) \ {r}
    BY <1>2, <2>1, Zenon DEF Requests, Answers
  <2>3. \A d \in Clients \ {c} : StageOf(d)' = StageOf(d)
    BY <1>1, <2>2, StageKept, Zenon
  <2>4. Moves(c)
    <3>1. CASE c \in strayed
      BY <1>1, <3>1, StrayKept, Zenon DEF Moves
    <3>2. CASE c \notin strayed
      <4>1. InStepOf(c)
        BY <3>2, ZenonT(60) DEF InStep
      <4>2. Requests(c)' = {} /\ Answers(c)' = {} /\ Awaits(c)
        BY <2>2, <4>1, ZenonT(60) DEF InStepOf, Awaits
      <4>3. StageOf(c) = "asked"
        BY <2>2, <3>2, Zenon DEF StageOf
      <4>4. StageOf(c)' = "lost"
        BY <1>1, <3>2, <4>2, Zenon DEF StageOf, Awaits
      <4> QED
        BY <4>3, <4>4, ZenonT(60) DEF Moves
    <3> QED
      BY <3>1, <3>2, Zenon
  <2> QED
    BY <2>3, <2>4, OneClientMoves, ZenonT(60)
<1>3. ASSUME NEW r \in reps, reps' = reps \ {r}, reqs' = reqs
      PROVE  [Calls!Next]_Stage
  <2>1. PICK c \in Clients : c = r.to
    BY <1>3, Zenon DEF TypeOK, Reply
  <2>2. /\ \A d \in Clients \ {c} : Answers(d)' = Answers(d)
        /\ \A d \in Clients : Requests(d)' = Requests(d)
        /\ r \in Answers(c) /\ Answers(c)' = Answers(c) \ {r}
    BY <1>3, <2>1, Zenon DEF Requests, Answers
  <2>3. \A d \in Clients \ {c} : StageOf(d)' = StageOf(d)
    BY <1>1, <2>2, StageKept, ZenonT(60)
  <2>4. Moves(c)
    <3>1. CASE c \in strayed
      BY <1>1, <3>1, StrayKept, Zenon DEF Moves
    <3>2. CASE c \notin strayed
      <4>1. InStepOf(c)
        BY <3>2, Zenon DEF InStep
      <4>2. /\ Requests(c) = {} /\ Requests(c)' = {}
            /\ Answers(c) # {} /\ Answers(c)' = {} /\ Awaits(c)
        BY <2>2, <4>1, ZenonT(60) DEF InStepOf, Awaits
      <4>3. StageOf(c) = "answered"
        BY <3>2, <4>2, ZenonT(60) DEF StageOf
      <4>4. StageOf(c)' = "lost"
        BY <1>1, <3>2, <4>2, ZenonT(60) DEF StageOf, Awaits
      <4> QED
        BY <4>3, <4>4, Zenon DEF Moves
    <3> QED
      BY <3>1, <3>2, Zenon
  <2> QED
    BY <2>3, <2>4, OneClientMoves, Zenon
<1> QED
  BY <1>2, <1>3, Zenon DEF Lose

\* A datagram that arrives twice makes its client stray.
LEMMA DuplicateStep ==
    ASSUME TypeOK, Duplicate
    PROVE  [Calls!Next]_Stage
<1>1. pc' = pc
  BY Zenon DEF Duplicate, hostVars
<1>2. ASSUME NEW c \in Clients, strayed' = strayed \cup {c},
             \A d \in Clients \ {c} : Requests(d)' = Requests(d) /\ Answers(d)' = Answers(d)
      PROVE  [Calls!Next]_Stage
  <2>1. \A d \in Clients \ {c} : StageOf(d)' = StageOf(d)
    BY <1>1, <1>2, StageKept, Zenon
  <2>2. StageOf(c)' = "stray"
    BY <1>2, Zenon DEF StageOf
  <2> QED
    BY <2>1, <2>2, OneClientMoves, ZenonT(60) DEF Moves
<1>3. ASSUME NEW r \in reqs, reqs' = reqs \cup {[r EXCEPT !.copy = faults']},
             strayed' = strayed \cup {r.from}, reps' = reps
      PROVE  [Calls!Next]_Stage
  <2> DEFINE q == [r EXCEPT !.copy = faults']
  <2>1. q.from = r.from /\ r.from \in Clients
    BY <1>3, Zenon DEF TypeOK, Request
  <2>2. reqs' = reqs \cup {q}
    BY <1>3, ZenonT(60)
  <2> HIDE DEF q
  <2>3. \A d \in Clients \ {r.from} : Requests(d)' = Requests(d) /\ Answers(d)' = Answers(d)
    BY <1>3, <2>1, <2>2, ZenonT(60) DEF Requests, Answers
  <2> QED
    BY <1>2, <1>3, <2>1, <2>3, ZenonT(60)
<1>4. ASSUME NEW r \in reps, reps' = reps \cup {[r EXCEPT !.copy = faults']},
             strayed' = strayed \cup {r.to}, reqs' = reqs
      PROVE  [Calls!Next]_Stage
  <2> DEFINE q == [r EXCEPT !.copy = faults']
  <2>1. q.to = r.to /\ r.to \in Clients
    BY <1>4, ZenonT(60) DEF TypeOK, Reply
  <2>2. reps' = reps \cup {q}
    BY <1>4, Zenon
  <2> HIDE DEF q
  <2>3. \A d \in Clients \ {r.to} : Requests(d)' = Requests(d) /\ Answers(d)' = Answers(d)
    BY <1>4, <2>1, <2>2, ZenonT(60) DEF Requests, Answers
  <2> QED
    BY <1>2, <1>4, <2>1, <2>3, ZenonT(60)
<1> QED
  BY <1>3, <1>4, Zenon DEF Duplicate

\* The device performs the request of one client, and answers it or not.
LEMMA ServesStep ==
    ASSUME TypeOK, InStep, NEW c \in Clients, Serves(c)
    PROVE  [Calls!Next]_Stage
<1>0. PICK r \in reqs : \E o :
        /\ r.from = c
        /\ reqs' = reqs \ {r}
        /\ reps' = reps \cup {Answer(r, o)} \/ reps' = reps
        /\ UNCHANGED <<strayed, hostVars>>
  BY Zenon DEF Serves
<1>1. PICK o : /\ r.from = c
               /\ reqs' = reqs \ {r}
               /\ reps' = reps \cup {Answer(r, o)} \/ reps' = reps
               /\ UNCHANGED <<strayed, hostVars>>
  BY <1>0, Zenon
<1> DEFINE a == Answer(r, o)
<1>2. a.to = c
  BY <1>1, Zenon DEF Answer
<1>3. reps' = reps \cup {a} \/ reps' = reps
  BY <1>1, Zenon
<1> HIDE DEF a
<1>4. /\ \A d \in Clients \ {c} : Requests(d)' = Requests(d) /\ Answers(d)' = Answers(d)
      /\ r \in Requests(c) /\ Requests(c)' = Requests(c) \ {r}
      /\ Answers(c)' = Answers(c) \cup {a} \/ Answers(c)' = Answers(c)
  BY <1>1, <1>2, <1>3, ZenonT(60) DEF Requests, Answers
<1>5. pc' = pc /\ strayed' = strayed
  BY <1>1, Zenon DEF hostVars
<1>6. \A d \in Clients \ {c} : StageOf(d)' = StageOf(d)
  BY <1>4, <1>5, StageKept, ZenonT(60)
<1>7. Moves(c)
  <2>1. CASE c \in strayed
    BY <1>5, <2>1, StrayKept, Zenon DEF Moves
  <2>2. CASE c \notin strayed
    <3>1. InStepOf(c)
      BY <2>2, Zenon DEF InStep
    <3>2. Requests(c)' = {} /\ Awaits(c)
      BY <1>4, <3>1, Zenon DEF InStepOf, Awaits
    <3>3. StageOf(c) = "asked"
      BY <1>4, <2>2, Zenon DEF StageOf
    <3>4. StageOf(c)' \in {"answered", "lost"}
      BY <1>5, <2>2, <3>2, ZenonT(60) DEF StageOf, Awaits
    <3> QED
      BY <3>3, <3>4, Zenon DEF Moves
  <2> QED
    BY <2>1, <2>2, Zenon
<1> QED
  BY <1>6, <1>7, OneClientMoves, ZenonT(60)
-----------------------------------------------------------------------------
(***************************************************************************)
(* The hosts.                                                              *)
(***************************************************************************)

\* A host that has not strayed sends when nothing of it is under way, and then
\* waits for the answer; or takes the answer and waits no more; or does
\* nothing on the network.
LEMMA HostTraffic ==
    ASSUME TypeOK, NEW c \in Clients, Begin(c) \/ Host(c), c \notin strayed'
    PROVE  \/ ~Awaits(c) /\ Awaits(c)' /\ \E p : Sends(c, p)
           \/ ~Awaits(c)' /\ \E r : Reads(c, r)
           \/ ~Awaits(c) /\ ~Awaits(c)' /\ (SendFails \/ UNCHANGED netVars)
<1>1. /\ \A to : Goes(c, to) => pc'[c] = to
      /\ \A ret, e, k : Ends(c, ret, e, k) => pc'[c] = "idle"
      /\ Fails(c) \/ ModuleFound(c) => pc'[c] \in {"push", "idle"}
  BY WhereHostsGo, Zenon
<1>2. /\ LookupFails(c) => pc'[c] = "idle"
      /\ \A i : LookupGives(c, i) => pc'[c] \in {"push", "idle", "reask", "send"}
  <2>1. LookupFails(c) => pc'[c] = "idle"
    BY <1>1, Zenon DEF LookupFails, Fails
  <2>2. ASSUME NEW i, LookupGives(c, i)
        PROVE  pc'[c] \in {"push", "idle", "reask", "send"}
    <3>1. CASE job[c].op = "find"
      BY <1>1, <2>2, <3>1, ZenonT(60) DEF LookupGives
    <3>2. CASE job[c].op = "index"
      BY <1>1, <2>2, <3>2, Zenon DEF LookupGives
    <3>3. CASE job[c].op \notin {"find", "index"}
      BY <1>1, <2>2, <3>3, ZenonT(60) DEF LookupGives
    <3> QED
      BY <3>1, <3>2, <3>3, ZenonT(60)
  <2> QED
    BY <2>1, <2>2, Zenon
<1>3. ~ReadFails(c)
  BY Zenon DEF ReadFails
<1>4. CASE Begin(c)
  BY <1>1, <1>4, ZenonT(60) DEF Begin, Awaits
<1>5. CASE Ask(c)
  BY <1>1, <1>2, <1>5, ZenonT(60) DEF Ask, Awaits
<1>6. CASE Lookup(c)
  BY <1>2, <1>3, <1>6, Zenon DEF Lookup, Awaits
<1>7. CASE Reask(c)
  BY <1>1, <1>7, Zenon DEF Reask, Awaits
<1>8. CASE Relookup(c)
  BY <1>1, <1>3, <1>8, ZenonT(60) DEF Relookup, Awaits
<1>9. CASE SendCall(c)
  BY <1>1, <1>9, ZenonT(60) DEF SendCall, Awaits
<1>10. CASE Call(c)
  BY <1>1, <1>3, <1>10, ZenonT(60) DEF Call, Awaits
<1>11. CASE PushCall(c)
  <2>1. SendFails /\ Goes(c, "drain") /\ pc[c] = "push"
    BY <1>11, ZenonT(60) DEF PushCall
  <2> QED
    BY <1>1, <2>1, ZenonT(60) DEF Awaits
<1>12. CASE Drain(c)
  BY <1>1, <1>3, <1>12, Zenon DEF Drain, Awaits
<1> QED
  BY <1>4, <1>5, <1>6, <1>7, <1>8, <1>9, <1>10, <1>11, <1>12, ZenonT(60) DEF Host

\* A host's step is a step of its own call.
LEMMA HostStep ==
    ASSUME TypeOK, InStep, NEW c \in Clients, Begin(c) \/ Host(c)
    PROVE  [Calls!Next]_Stage
<1>1. \/ \E p : Sends(c, p)
      \/ \E r : Reads(c, r)
      \/ SendFails \/ ReadFails(c) \/ UNCHANGED netVars
  BY Zenon DEF Begin, Host, Ask, Lookup, Reask, Relookup, SendCall, Call, PushCall, Drain
<1>2. \A d \in Clients \ {c} : Requests(d)' = Requests(d) /\ Answers(d)' = Answers(d)
  BY <1>1, Traffic, Zenon
<1>3. strayed \subseteq strayed' /\ \A d \in Clients \ {c} : pc'[d] = pc[d]
  BY OthersUntouched, Zenon DEF Untouched
<1>4. strayed' \subseteq strayed \cup {c}
  BY ZenonT(60) DEF Begin, Host, Ask, Lookup, Reask, Relookup, SendCall, Call, PushCall, Drain,
               Reads, ReadFails, netVars
<1>5. \A d \in Clients \ {c} : StageOf(d)' = StageOf(d)
  BY <1>2, <1>3, <1>4, StageKept, Zenon
<1>6. Moves(c)
  <2>1. CASE c \in strayed
    BY <1>3, <2>1, StrayKept, Zenon DEF Moves
  <2>2. CASE c \notin strayed /\ c \in strayed'
    BY <2>2, Zenon DEF Moves, StageOf
  <2>3. CASE c \notin strayed'
    <3>1. c \notin strayed /\ InStepOf(c)
      BY <1>3, <2>3, Zenon DEF InStep
    <3>2. CASE ~Awaits(c) /\ Awaits(c)' /\ \E p : Sends(c, p)
      <4>1. Requests(c) = {} /\ Answers(c) = {}
        BY <3>1, <3>2, Zenon DEF InStepOf, Awaits
      <4>2. Requests(c)' # {}
        BY <3>2, Traffic, ZenonT(60)
      <4> QED
        BY <2>3, <3>1, <3>2, <4>1, <4>2, Zenon DEF StageOf, Moves
    <3>3. CASE ~Awaits(c)' /\ \E r : Reads(c, r)
      <4>1. PICK r : Reads(c, r)
        BY <3>3, Zenon
      <4>2. r \in Answers(c) /\ Answers(c)' = Answers(c) \ {r} /\ Requests(c)' = Requests(c)
        BY <4>1, Traffic, Zenon
      <4>3. Requests(c) = {} /\ Requests(c)' = {} /\ Answers(c)' = {}
        BY <3>1, <4>2, Zenon DEF InStepOf
      <4> QED
        BY <2>3, <3>1, <3>3, <4>2, <4>3, Zenon DEF StageOf, Moves
    <3>4. CASE ~Awaits(c) /\ ~Awaits(c)' /\ (SendFails \/ UNCHANGED netVars)
      <4>1. Requests(c)' = Requests(c) /\ Answers(c)' = Answers(c)
        BY <3>4, Traffic, Zenon
      <4> QED
        BY <2>3, <3>1, <3>4, <4>1, Zenon DEF StageOf, Moves
    <3> QED
      BY <2>3, <3>2, <3>3, <3>4, HostTraffic, Zenon
  <2> QED
    BY <2>1, <2>2, <2>3, Zenon
<1> QED
  BY <1>5, <1>6, OneClientMoves, Zenon
-----------------------------------------------------------------------------
\* Whatever the number of clients, operations and faults, the hosts, the
\* network and the device together do what RemoteCall promises: a request is
\* performed at most once and answered to the client that waits for it, until
\* that client strays.
THEOREM ExchangeImplementsRemoteCall == Spec => ImplementsRemoteCall
<1>1. Init => Calls!Init
  <2> SUFFICES ASSUME Init PROVE Stage = [c \in Clients |-> "ready"]
    BY Zenon DEF Calls!Init
  <2>1. \A c \in Clients : StageOf(c) = "ready"
    BY Zenon DEF Init, StageOf, Awaits, Requests, Answers
  <2> QED
    BY <2>1, Zenon DEF Stage
<1>2. ExchangeInv /\ [Next]_vars => [Calls!Next]_Stage
  <2> SUFFICES ASSUME TypeOK, InStep, [Next]_vars PROVE [Calls!Next]_Stage
    BY Zenon DEF ExchangeInv
  <2>1. CASE Boots \/ Stopped \/ UNCHANGED vars
    BY <2>1, QuietStep, Zenon
  <2>2. CASE Lose \/ Duplicate
    BY <2>2, LoseStep, DuplicateStep, Zenon
  <2>3. CASE \E c \in Clients : Begin(c) \/ Host(c) \/ Serves(c)
    BY <2>3, HostStep, ServesStep, Zenon
  <2> QED
    BY <2>1, <2>2, <2>3, Zenon DEF Next
<1> QED
  BY <1>1, <1>2, ExchangeInvariant, PTL DEF Spec, ImplementsRemoteCall, Calls!Spec
==============================================================================
