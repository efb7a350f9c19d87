----------------------------- MODULE FmrExchange -----------------------------
(***************************************************************************)
(* Hosts that call the modules of a virtual device over UDP: libflipper's  *)
(* lookup, call and unload operations (lib/dyld.c, lib/libflipper.c) on    *)
(* the sockets of platforms/posix/src/network.c, and the device of module  *)
(* FmrDevice.                                                              *)
(*                                                                         *)
(* A request or an answer carries no identification on the wire.  The      *)
(* field seq, which numbers a client's requests, and the sets strayed and  *)
(* crossed record what happened and are read by no action's guard.         *)
(***************************************************************************)
EXTENDS FmrDevice

CONSTANTS Clients,    \* host processes, each with a socket of its own
          Functions,  \* function indices that clients call
          Faults,     \* what may go wrong: subset of {"write", "read", "loss", "dup"}
          MaxFaults,  \* bound: faults in a behaviour
          MaxOps      \* bound: operations that a client starts

ASSUME ExchangeAssumption ==
    /\ Functions \subseteq 0..UINT8_MAX
    /\ Faults \subseteq {"write", "read", "loss", "dup"}
    /\ MaxFaults \in Nat
    /\ MaxOps \in Nat
    /\ Len(Images) <= UINT8_MAX + 1

VARIABLES
    pc,        \* what each client waits for
    job,       \* the operation in progress: its name, function and module_idx
    cache,     \* the client's own list of modules (device->modules of the host)
    reqs,      \* requests on their way to the device
    reps,      \* answers on their way to a client
    seq,       \* the number of requests each client has sent
    ops,       \* the number of operations each client has started
    faults,    \* the number of faults so far
    done,      \* the outcome of each client's last operation
    strayed,   \* clients one of whose answers was left unread or duplicated
    crossed    \* clients that took an answer for that of another request

netVars == <<reqs, reps, seq, faults, strayed>>
hostVars == <<pc, job, cache, ops, done, crossed>>
vars == <<devVars, netVars, hostVars>>

Operations == {"find", "index", "invoke", "unload"}
\* The operations that a client starts.  lf_invoke's call names function 0
\* whatever it is given; its arguments may be too large for a packet.
Jobs == {j \in [op : Operations, name : Names, function : Functions \cup {0},
                args : Carried, fits : BOOLEAN, idx : {0}] :
            /\ j.op # "index" => j.function = 0
            /\ j.op \in {"find", "unload"} => j.args = "none"
            /\ ~j.fits => j.op = "invoke" /\ j.args = "some"}
NoJob == [op |-> "find", name |-> NoName, function |-> 0, args |-> "none", fits |-> TRUE, idx |-> 0]
NotDone == [job |-> NoJob, ret |-> "none", error |-> "E_OK", called |-> NoCall]

Init ==
    /\ DevInit
    /\ pc = [c \in Clients |-> "idle"]
    /\ job = [c \in Clients |-> NoJob]
    /\ cache = [c \in Clients |-> <<>>]
    /\ reqs = {} /\ reps = {}
    /\ seq = [c \in Clients |-> 0]
    /\ ops = [c \in Clients |-> 0]
    /\ faults = 0
    /\ done = [c \in Clients |-> NotDone]
    /\ strayed = {} /\ crossed = {}
-----------------------------------------------------------------------------
(***************************************************************************)
(* The network, and the device at the other end.                           *)
(***************************************************************************)
Fault(kind) == kind \in Faults /\ faults < MaxFaults /\ faults' = faults + 1

\* lf_network_write hands a packet to the socket, or sendto fails.
Sends(c, p) ==
    /\ seq' = [seq EXCEPT ![c] = @ + 1]
    /\ reqs' = reqs \cup {[from |-> c, seq |-> seq[c] + 1, copy |-> 0, p |-> p]}
    /\ UNCHANGED <<reps, faults>>
SendFails == Fault("write") /\ UNCHANGED <<reqs, reps, seq>>

\* lf_network_read returns an answer r: nothing in it is compared with the
\* request.
Reads(c, r) ==
    /\ r \in reps /\ r.to = c
    /\ reps' = reps \ {r}
    /\ crossed' = IF r.seq = seq[c] THEN crossed ELSE crossed \cup {c}
    /\ UNCHANGED <<reqs, seq, faults, strayed>>

\* recvfrom fails for good, or five times with EINTR: the answer stays behind.
ReadFails(c) ==
    /\ Fault("read")
    /\ strayed' = strayed \cup {c}
    /\ UNCHANGED <<reqs, reps, seq, crossed>>

Lose ==
    /\ Fault("loss")
    /\ \/ \E r \in reqs : reqs' = reqs \ {r} /\ UNCHANGED reps
       \/ \E r \in reps : reps' = reps \ {r} /\ UNCHANGED reqs
    /\ UNCHANGED <<devVars, hostVars, seq, strayed>>

Duplicate ==
    /\ Fault("dup")
    /\ \/ \E r \in reqs : /\ reqs' = reqs \cup {[r EXCEPT !.copy = faults']}
                          /\ strayed' = strayed \cup {r.from}
                          /\ UNCHANGED reps
       \/ \E r \in reps : /\ reps' = reps \cup {[r EXCEPT !.copy = faults']}
                          /\ strayed' = strayed \cup {r.to}
                          /\ UNCHANGED reqs
    /\ UNCHANGED <<devVars, hostVars, seq>>

Boots == Boot /\ UNCHANGED <<netVars, hostVars>>

\* The result goes to the address the packet came from (context->addr).
Answer(r, o) == [to |-> r.from, seq |-> r.seq, copy |-> r.copy, value |-> o.value,
                 error |-> o.error, called |-> o.called]

\* Mutant: fmr_perform writes the result on both of its last two paths.
Serves_Twice(c) ==
    \E r \in reqs : \E o \in fmr_perform(r.p) :
        /\ r.from = c
        /\ Serve(r.p, o, TRUE)
        /\ reqs' = reqs \ {r}
        /\ reps' = reps \cup {Answer(r, o), [Answer(r, o) EXCEPT !.copy = 100]}
        /\ UNCHANGED <<seq, faults, strayed, hostVars>>

\* Mutant: fmr_perform returns without a result when the handler failed.
Serves_Silently(c) ==
    \E r \in reqs : \E o \in fmr_perform(r.p) :
        /\ r.from = c
        /\ Serve(r.p, o, TRUE)
        /\ reqs' = reqs \ {r}
        /\ reps' = IF o.ok THEN reps \cup {Answer(r, o)} ELSE reps
        /\ UNCHANGED <<seq, faults, strayed, hostVars>>

\* One turn of the device's loop, for a request of client c.
Serves(c) ==
    \E r \in reqs, sent \in BOOLEAN : \E o \in fmr_perform(r.p) :
        /\ r.from = c
        /\ Serve(r.p, o, sent)
        /\ reqs' = reqs \ {r}
        /\ \/ sent /\ reps' = reps \cup {Answer(r, o)} /\ UNCHANGED faults
           \/ ~sent /\ Fault("loss") /\ UNCHANGED reps
        /\ UNCHANGED <<seq, strayed, hostVars>>
-----------------------------------------------------------------------------
(***************************************************************************)
(* The hosts.                                                              *)
(***************************************************************************)
LookupPacket == [magic |-> TRUE, crc |-> TRUE, type |-> "dyld", module |-> 0, function |-> 0,
                 args |-> "none"]

\* Mutant: the index is not cut down to a byte.
CallPacket_Wide(idx, function, args) ==
    [magic |-> TRUE, crc |-> TRUE, type |-> "rpc", module |-> idx, function |-> function,
     args |-> args]

\* A careless call that leaves out the function's index.
CallPacket_FirstFunction(idx, function, args) ==
    [magic |-> TRUE, crc |-> TRUE, type |-> "rpc", module |-> idx % (UINT8_MAX + 1),
     function |-> 0, args |-> args]

\* call->module is the low byte of the index.
CallPacket(idx, function, args) ==
    [magic |-> TRUE, crc |-> TRUE, type |-> "rpc", module |-> idx % (UINT8_MAX + 1),
     function |-> function, args |-> args]

Cached(c, name) == {i \in DOMAIN cache[c] : cache[c][i].name = name}

\* dyld_register on the host's list, for a name that is not in it.
Register(c, name, idx) ==
    cache' = [cache EXCEPT ![c] =
                 Append(@, [name |-> name, idx |-> IF idx = UINT16_MAX THEN Len(@) % (UINT16_MAX + 1)
                                                                  ELSE idx])]

\* *idx = (uint16_t)result.value
Index(r) == r.value % (UINT16_MAX + 1)

Goes(c, to) == pc' = [pc EXCEPT ![c] = to] /\ UNCHANGED done
Ends(c, ret, error, called) ==
    /\ pc' = [pc EXCEPT ![c] = "idle"]
    /\ done' = [done EXCEPT ![c] = [job |-> job'[c], ret |-> ret, error |-> error, called |-> called]]
Fails(c) == Ends(c, "error", "E_OK", NoCall)

\* dyld_module returned a module.  The assertions of dyld_unload and, when the
\* arguments fit into a packet, of lf_invoke end the operation with an error.
ModuleFound(c) ==
    IF job'[c].op = "invoke" /\ ~job'[c].fits THEN Goes(c, "push") ELSE Fails(c)

\* lf_dyld_dyn_sym_lookup, lf_invoke_by_index, lf_invoke or dyld_unload is
\* called; the last two ask the device only for a module they do not know.
Begin(c) ==
    /\ pc[c] = "idle" /\ ops[c] < MaxOps
    /\ \E j \in Jobs :
          /\ job' = [job EXCEPT ![c] = j]
          /\ IF j.op \in {"find", "index"} \/ Cached(c, j.name) = {}
             THEN Goes(c, "ask") ELSE ModuleFound(c)
    /\ ops' = [ops EXCEPT ![c] = @ + 1]
    /\ UNCHANGED <<devVars, netVars, cache, crossed>>

\* lf_dyld_dyn_sym_lookup fails in its caller.
LookupFails(c) ==
    /\ UNCHANGED <<job, cache>>
    /\ IF job[c].op = "unload" THEN Ends(c, "success", "E_OK", NoCall) ELSE Fails(c)

LookupGives(c, idx) ==
    /\ job' = [job EXCEPT ![c].idx = idx]
    /\ CASE job[c].op = "find" -> Ends(c, "success", "E_OK", NoCall) /\ UNCHANGED cache
         [] job[c].op = "index" ->
              /\ Goes(c, IF Cached(c, job[c].name) = {} THEN "reask" ELSE "send")
              /\ UNCHANGED cache
         [] OTHER -> Register(c, job[c].name, idx) /\ ModuleFound(c)

\* The packet of a lookup is written.
Ask(c) ==
    /\ pc[c] = "ask"
    /\ \/ Sends(c, LookupPacket) /\ Goes(c, "lookup") /\ UNCHANGED <<job, cache>>
       \/ SendFails /\ LookupFails(c)
    /\ UNCHANGED <<devVars, ops, strayed, crossed>>

\* Its answer is read: an error that the device reports fails the lookup.
Lookup(c) ==
    /\ pc[c] = "lookup"
    /\ \/ \E r \in reps : /\ Reads(c, r)
                          /\ IF r.error = "E_OK" THEN LookupGives(c, Index(r)) ELSE LookupFails(c)
       \/ ReadFails(c) /\ LookupFails(c)
    /\ UNCHANGED <<devVars, ops>>

\* In lf_invoke_by_index, dyld_module looks a module that is not on the list
\* up again; when that fails the module is registered with the first index.
Reask(c) ==
    /\ pc[c] = "reask"
    /\ \/ Sends(c, LookupPacket) /\ Goes(c, "relookup") /\ UNCHANGED cache
       \/ SendFails /\ Goes(c, "send") /\ Register(c, job[c].name, job[c].idx)
    /\ UNCHANGED <<devVars, ops, job, strayed, crossed>>

Relookup(c) ==
    /\ pc[c] = "relookup"
    /\ \/ \E r \in reps : /\ Reads(c, r)
                          /\ Register(c, job[c].name,
                                      IF r.error = "E_OK" THEN Index(r) ELSE job[c].idx)
       \/ ReadFails(c) /\ Register(c, job[c].name, job[c].idx)
    /\ Goes(c, "send")
    /\ UNCHANGED <<devVars, ops, job>>

\* The call is written with the index of the first lookup.
SendCall(c) ==
    /\ pc[c] = "send"
    /\ UNCHANGED job
    /\ \/ Sends(c, CallPacket(job[c].idx, job[c].function, job[c].args)) /\ Goes(c, "call")
       \/ SendFails /\ Fails(c)
    /\ UNCHANGED <<devVars, ops, cache, strayed, crossed>>

\* The error in the answer to a call is not looked at.
Call(c) ==
    /\ pc[c] = "call"
    /\ UNCHANGED job
    /\ \/ \E r \in reps : Reads(c, r) /\ Ends(c, "success", r.error, r.called)
       \/ ReadFails(c) /\ Fails(c)
    /\ UNCHANGED <<devVars, ops, cache>>

\* lf_invoke writes arguments that do not fit, as a call of function 0.  A
\* write that succeeds fails its assertion before the answer is read; one that
\* fails goes on to read.
PushCall(c) ==
    /\ pc[c] = "push"
    /\ UNCHANGED job
    /\ \/ /\ \E i \in Cached(c, job[c].name) : Sends(c, CallPacket(cache[c][i].idx, 0, "some"))
          /\ strayed' = strayed \cup {c}
          /\ Fails(c)
       \/ SendFails /\ Goes(c, "drain") /\ UNCHANGED strayed
    /\ UNCHANGED <<devVars, ops, cache, crossed>>

\* An answer that arrives fails lf_invoke's next assertion; when the read
\* fails, the uninitialised result decides.
Drain(c) ==
    /\ pc[c] = "drain"
    /\ UNCHANGED job
    /\ \/ \E r \in reps : Reads(c, r) /\ Fails(c)
       \/ /\ ReadFails(c)
          /\ \E ret \in {"success", "error"} : Ends(c, ret, "E_OK", NoCall)
    /\ UNCHANGED <<devVars, ops, cache>>

Host(c) == \/ Ask(c) \/ Lookup(c) \/ Reask(c) \/ Relookup(c)
           \/ SendCall(c) \/ Call(c) \/ PushCall(c) \/ Drain(c)

\* The system may stop when the device's main() has returned, or when every
\* client has had all its operations.
Stopped ==
    /\ \/ phase = "exited"
       \/ reqs = {} /\ \A c \in Clients : pc[c] = "idle" /\ ops[c] = MaxOps
    /\ UNCHANGED vars

Next == \/ Boots \/ Lose \/ Duplicate \/ Stopped
        \/ \E c \in Clients : Begin(c) \/ Host(c) \/ Serves(c)

Spec == Init /\ [][Next]_vars

\* The device's loop and the hosts keep running; the device's socket is a
\* queue, so that every client's request has its turn.
Fairness == WF_vars(Boots) /\ \A c \in Clients : WF_vars(Host(c)) /\ WF_vars(Serves(c))
FairSpec == Spec /\ Fairness
-----------------------------------------------------------------------------
PCs == {"idle", "ask", "lookup", "reask", "relookup", "send", "call", "push", "drain"}
Job == [op : Operations, name : Names \cup {NoName}, function : 0..UINT8_MAX,
        args : Carried, fits : BOOLEAN, idx : 0..UINT16_MAX]
Request == [from : Clients, seq : Nat, copy : Nat, p : Packet]
Reply == [to : Clients, seq : Nat, copy : Nat, value : Int, error : Errors, called : Seq(Nat)]
Done == [job : Job, ret : {"none", "success", "error"}, error : Errors, called : Seq(Nat)]

\* Type invariant of the hosts and of the network between them and the device.
TypeOK ==
    /\ pc \in [Clients -> PCs]
    /\ job \in [Clients -> Job]
    /\ cache \in [Clients -> Seq([name : Names \cup {NoName}, idx : 0..UINT16_MAX])]
    /\ reqs \subseteq Request /\ reps \subseteq Reply
    /\ seq \in [Clients -> Nat] /\ ops \in [Clients -> 0..MaxOps]
    /\ faults \in 0..MaxFaults
    /\ done \in [Clients -> Done]
    /\ strayed \subseteq Clients /\ crossed \subseteq Clients

\* A client never takes an answer for that of another request, whatever the
\* other clients do, until one of its own answers is left unread (a read that
\* failed, an lf_invoke) or duplicated: nothing on the wire would tell.
ReadsOwnAnswer == crossed \subseteq strayed

\* E_NULL in the answer to a call means that the device had no memory for its
\* arguments.
NullIsNoMemory ==
    \A c \in Clients \ strayed :
        done[c].ret = "success" /\ done[c].job.op = "index" /\ done[c].error = "E_NULL" =>
            done[c].job.args = "some"

\* A call that lf_invoke_by_index completes never runs past the device's list
\* of modules, unless the client strayed: the index it sends comes from a
\* lookup that the device answered, and every index the device gives out is in
\* range, the 0 that it sends for a name it does not find included.  E_NULL in
\* its answer is a lack of memory for the arguments, never a missing module.
CallsFindAModule ==
    /\ \A c \in Clients \ strayed :
          done[c].ret = "success" /\ done[c].job.op = "index" => done[c].job.idx < Len(modules)
    /\ NullIsNoMemory

\* What became of a call: fmr_rpc ran the function of the module at that
\* position, or none because the function is past the module's table or the
\* device had no memory for the arguments.
Performed(idx, function, args, called) ==
    \/ function < modules[idx + 1].length /\ called = <<idx, function>>
    \/ called = NoCall /\ (args = "some" \/ function >= modules[idx + 1].length)

\* A call that lf_invoke_by_index completes was performed on the module and the
\* function that it was sent for, or not at all: because the function is past
\* the module's table or, for a call with arguments, because the device ran out
\* of memory.  This holds unless the client strayed: fmr_rpc's position is
\* dyld_register's index, and no other client's call comes between.  The host
\* cannot tell the outcomes apart.
PerformsTheCall ==
    \A c \in Clients \ strayed :
        LET d == done[c] IN
        d.ret = "success" /\ d.job.op = "index" =>
            Performed(d.job.idx, d.job.function, d.job.args, d.called)

\* Why ReadsOwnAnswer holds: a client that has not strayed has one datagram
\* under way at most, it belongs to the client's last request, and the client
\* is waiting for it.
Requests(c) == {r \in reqs : r.from = c}
Answers(c) == {r \in reps : r.to = c}
InStepOf(c) ==
    /\ \A r \in Requests(c) \cup Answers(c) : r.seq = seq[c]
    /\ pc[c] \notin {"lookup", "relookup", "call"} => Requests(c) = {} /\ Answers(c) = {}
    /\ Requests(c) = {} \/ Answers(c) = {}
    /\ \A r1, r2 \in Requests(c) : r1 = r2
    /\ \A r1, r2 \in Answers(c) : r1 = r2
InStep == \A c \in Clients \ strayed : InStepOf(c)

\* Why CallsFindAModule holds: the index a client has looked up, the module of
\* the call it sends and the answers on their way to it are all in the range of
\* the device's list.
InRangeOf(c) ==
    /\ pc[c] \in {"reask", "relookup", "send", "call"} => job[c].idx < Len(modules)
    /\ \A r \in Requests(c) :
          /\ ~Damaged(r.p)
          /\ IF pc[c] = "call" THEN /\ r.p.type = "rpc" /\ r.p.module = job[c].idx
                                    /\ r.p.args = job[c].args
                               ELSE r.p.type = "dyld"
    /\ \A r \in Answers(c) : IF pc[c] = "call" THEN r.error = "E_NULL" => job[c].args = "some"
                                               ELSE r.value \in 0..Len(modules) - 1
InRange == \A c \in Clients \ strayed : InRangeOf(c)

\* Why PerformsTheCall holds: the call under way is the one the client asked
\* for, its answer says what became of it, and the module that a call was
\* performed on stays where it is in the device's list.
CarriesOf(c) ==
    /\ pc[c] = "call" =>
          /\ \A r \in Requests(c) : r.p.function = job[c].function
          /\ \A r \in Answers(c) : Performed(job[c].idx, job[c].function, job[c].args, r.called)
    /\ done[c].ret = "success" /\ done[c].job.op = "index" =>
          /\ done[c].job.idx < Len(modules)
          /\ Performed(done[c].job.idx, done[c].job.function, done[c].job.args, done[c].called)
Carries == \A c \in Clients \ strayed : CarriesOf(c)

ExchangeInv ==
    DevInv /\ TypeOK /\ InStep /\ InRange /\ ReadsOwnAnswer /\ NullIsNoMemory /\ Carries

\* Every operation returns, when nothing is lost and no write fails: there is
\* no timeout in lf_network_read, so the device must answer every packet.
OperationsReturn ==
    \A c \in Clients : pc[c] # "idle" ~> (pc[c] = "idle" \/ phase = "exited")

\* What lib/dyld.c (line 121) says of lf_dyld_dyn_sym_lookup: it retrieves the
\* index of the module of that name.
LookupFindsModule ==
    \A c \in Clients :
        done[c].ret = "success" /\ done[c].job.op = "find" =>
            \E i \in lf_module_get_by_name(done[c].job.name) : modules[i].idx = done[c].job.idx

\* What lib/libflipper.h (line 55) says of lf_invoke_by_index: it performs a
\* remote procedure call using a function index.
SuccessMeansPerformed ==
    \A c \in Clients :
        done[c].ret = "success" /\ done[c].job.op = "index" => done[c].called # NoCall
==============================================================================
