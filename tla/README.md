# Flipper: a TLA+ verification project

Flipper lets a host program call functions of *modules* on a device. The host
library (libflipper) turns a call into a packet of the Flipper Message Runtime
(FMR), sends it through an endpoint (UDP, USB or a UART), and waits for a
result. A device keeps a list of modules, performs the packets it receives and
answers each with a value and an error. A device is a Carbon board (an ATmega
U2 and an ATSAM4S, the latter with a small operating system, Osmium) or the
virtual device FVM, a host process with a UDP socket.

The modules here model the code under `src/`, are checked by TLC on small
instances, and carry proofs that TLAPS checks for every value of the constants.

## Inventory of the system

| Part | Source | State | Operations | What is hard |
|---|---|---|---|---|
| Message runtime | `lib/fmr.c` | dispatcher table, global error, module state, heap | `fmr_init`, `fmr_perform`, six handlers | an error left over from an earlier packet, damaged packets, indices at the end of a list |
| Loader registry | `lib/dyld.c` | `device->modules`, on the device and on each host | `dyld_register`, `dyld_module`, lookup, `dyld_unload` | index against position, stale lists, partial failure |
| Host calls | `lib/libflipper.c`, `lib/fmr_helper.c` | packet being built, selected and attached devices | `lf_invoke`, `lf_invoke_by_index`, `lf_attach`, `lf_select`, `lf_detach` | several packets per operation, each may fail |
| Network endpoint | `platforms/posix/src/network.c` | socket, peer's address | read with retries, write | lost, duplicated, late answers; several hosts |
| USB endpoint | `platforms/posix/src/libusb.c` | list of devices | enumerate, read, write | partial enumeration |
| Virtual device | `utils/fvm/src/main.c` | boot progress, peer's address | boot, loop | packets before boot is done |
| Scheduler | `os/arch/armv7/scheduler.c`, `pendsv.S` | ring of tasks, current and next task | create, add, release, pause, resume, stop, SysTick, PendSV | SysTick between any two statements |
| Loader | `os/src/loader.c` | image in memory | relocate, clear, start | wrong section |
| ATSAM4S | `platforms/atsam4s` | oscillator, PLLs, master clock, DAC | `main`, `dac_configure` | clocks that follow late, waits that give up |
| ATmega U2, USB | `platforms/atmegau2/src` | endpoints, frame number, flush timer | bulk transfers, debug output, interrupt handlers | one endpoint register for all; deadlines in a number that wraps |
| ATmega U2, UART | `platforms/atmegau2/api/uart0.c` | receive buffer and its index | `uart0_read`, `uart0_reset`, receive interrupt | buffer shared with an interrupt |
| Packets | `lib/fmr_helper.c`, `lib/crc.c`, `lib/libflipper.c` | 64 bytes | lay out, checksum, check, read out | lengths at the end of the packet, damaged bytes |
| fdebug | `utils/fdebug` | two threads, a mutex | print what the device and the host say | who holds the mutex |
| fdfu, fload | `utils/` | | | not reached, see below |

`PROJECT.json` lists every part with its status, and every hazard with the line
where it bites.

## Modules

| Module | Models |
|---|---|
| `FmrDevice` | the device side: registry, boot of the virtual device, `fmr_perform` and its handlers |
| `FmrServer` | `FmrDevice` alone, performing arbitrary packets |
| `FmrExchange` | `FmrDevice` composed with hosts and an unreliable network |
| `RemoteCall` | what a request to a device promises, abstractly |
| `FmrRefinement` | the mapping under which `FmrExchange` implements `RemoteCall` |
| `FmrPacket`, `FmrTest` | a call as bytes, with its checksum; argument types and the functions of the test module |
| `Crc` | the checksum of `lib/crc.c`, and the division of polynomials that it stands for |
| `Scheduler` | the tasks of Osmium, the scheduler they call, SysTick and PendSV |
| `Fdebug` | the debug console: main, two threads, the mutex, and who sends to them |
| `MegaUsb` | the USB driver of the U2, its interrupt handlers, and the host and bus around it |
| `UartBuffer` | the UART's receive buffer on the U2, its readers and its interrupt |
| `Sam4sBoot` | `main` of the ATSAM4S firmware, its clocks and `dac_configure` |
| `CrcProofs` | what the checksum computes and which damage it finds, for messages of any length |
| `FmrPacketProofs` | the theorems about `FmrPacket` |
| `FmrExchangeSteps` | the device's invariant in any environment and the theorems about `FmrServer`; the types of `FmrExchange`, and what each of its steps does to the clients |
| `FmrExchangeProofs` | the theorems about `FmrExchange`, and that it implements `RemoteCall` |
| `Sam4sProofs` | the theorems about `Scheduler` and `Sam4sBoot` |
| `FdebugProofs`, `MegaUsbProofs`, `UartBufferProofs` | the theorems about those modules |
| `MCFmrServer`, `MCFmrExchange`, `MCFmrPacket`, `MCScheduler` | the instances that TLC checks |

### FmrDevice

`modules` is `device->modules`, a sequence of records with the name, the index,
the length of the function table and what is known of the module's state.
`registry` is the set of classes with a dispatcher in `fmr_registry`, `lf_err`
the global `_lf_err`, `blocks` the number of blocks `fmr_malloc` has handed out.
`phase` and `toLoad` say how far `main` of the virtual device has come; boot is
one action per module registered, because a module may fail to load after
others were registered, and `main` then returns.

A handler is an operator that gives the set of its outcomes, and `fmr_perform`
the set of outcomes of a packet: several where the code reads memory behind the
packet. `fmr_dyld`, `fmr_push`, `fmr_pull`, `fmr_malloc` and `fmr_free` all take
their parameters from `packet + 1`, which is the memory behind the 64 bytes
received: the outcome is any that some content of that memory produces. Writes
through such parameters that damage other objects are not modelled. `Serve` is
one turn of the loop: the state changes of one outcome and the write of the
result, which the socket may refuse. A packet is a record of what the code tells
apart; checksum and magic byte are right or wrong, and a call carries arguments or
none. For a call with arguments `fmr_rpc` allocates memory before it runs the
function: its own `malloc` may fail, which sets `E_NULL`, or that of
`lf_ll_append`, which leaves the error as it was (`OutOfMemory`).

### FmrServer

The environment sends any packet of `Inputs` in any order. `last` records the
packet and the outcome and is read by no action. `FreeAborts` is the end of the
process when `free` is given a pointer that `malloc` did not return.

### FmrExchange

Every client is a process that runs one operation after another: a lookup
(`lf_dyld_dyn_sym_lookup`), a call by index (`lf_invoke_by_index`), `lf_invoke`
and `dyld_unload`. `pc` names the write or read at which the client stands; each
action runs from one access to the socket to the next, which is all that others
can observe. `cache` is the client's own `device->modules`.

Requests and answers are sets of datagrams, so that they arrive in any order.
They carry nothing that relates an answer to its request. The field `seq` and
the variables `strayed` and `crossed` are history: no guard reads them. A client
*strays* when one of its answers is left unread (a read that failed, an
`lf_invoke` that gave up after writing) or when one of its datagrams is
duplicated. It *crosses* when it takes an answer for that of another request.

The lookup's name is not part of the request: the device reads it behind the
packet. Arguments matter in that `lf_create_call` may refuse them and that the
device needs memory for them; the
return value of a read that failed in `lf_invoke` is decided by an uninitialised
variable, a nondeterministic choice.

### RemoteCall and FmrRefinement

`RemoteCall` has one variable: how far each client is with its request (ready,
asked, answered, lost, stray). A client has one request under way at most, the
device performs it at most once, the client goes on with the answer to it, and
clients move independently. `FmrRefinement` reads the stage of a client off its
datagrams and what it waits for. A client that strayed is promised nothing,
which is the abstract form of an exchange without sequence numbers.

### FmrPacket, FmrTest and Crc

A call is laid out in 64 bytes as `lf_invoke_by_index` or `lf_invoke` do it,
argument by argument through `fmr_build` or the macro `lf_args`, with its length
and checksum; any one byte is damaged on the way, or none; and `fmr_perform` and
`fmr_rpc` check and read it. A damaged byte is one with a set of its bits flipped.
The header counts every argument once more than its bytes, so that in a packet
that is nearly full the checksum covers memory behind it on both sides: it then
agrees or not, nondeterministically. Types and values are written one argument
after the other (`Filled`), as in the code: from the 17th argument on a type lies
where the values begin and replaces a byte of them. Arguments that do not fit in
the packet are written past it by `lf_invoke_by_index`: the model ends there, at
stage `overrun`. The number of arguments is counted in a byte, and lists of more
than 255 are left out. `FmrTest` holds the types' codes and sizes and the functions
of `tests/fmr_test`.

In `Crc` a 16-bit word is the set of its bits that are 1, so that `^` is the
symmetric difference and a word is also a polynomial. A `char` may have a sign,
which the shift by eight drops (`Widened`). A round of the inner loop
is `Shift`, the loop over the bits of a byte `AddByte` and the loop over the bytes
`Through`, recursive functions; `calcrc` runs through the first half of the bytes
and then through the second, which is the same loop and keeps TLC's evaluation
shallow. `Remainder` is schoolbook division, one coefficient after the other.

### Scheduler

A task is named by its record. `task` holds the fields of the records that the
scheduler reads, `current` and `next` are `os_current_task` and `os_next_task`,
and `th` says at which statement of which call each task stands. One statement
that touches shared memory is one action; the filling of a new record is one
action too, because nothing points to the record yet. `SysTick` may come before
any statement. PendSV is two actions, its entry and what it does with interrupts
off, since SysTick may preempt it in between and make it pending again. A
statement of a task needs that PendSV is neither pending nor under way.

`running` is the task whose registers are in the processor, and `sp[t]` the task
whose *latest* context the stack pointer in record `t` denotes, `NULL` when it
is an older one. `os_next_task` is not volatile: a statement of `os_task_next` in
a thread sees either the value that SysTick left or the one the thread wrote.
`ring` and `off`, what was linked and paused, are history, and so is `harm`, the
ways in which the code spoils its ring: a task that is not the first is released
and its parent keeps the pointer (`kept`, `scheduler.c:146`), a task is linked with
a count that is not that of the ring (`miscounted`, `:67`), or a task is unlinked
while another walks to the tail (`walked`, `:68`). When a freed record can be
reached (`Dangling`) the model ends, because what follows is undefined.

The constants `Callers` and `Operations` choose who calls what. Only
`os_scheduler_init` is called within the repository; the rest is the interface
that Osmium offers, and loading is `os_load_application` of the loader.

### Fdebug

Each thread blocks in a read, takes the mutex, prints its header and prints
what it reads until a read with a short timeout brings nothing. `timeout`, `read`
and `late` are the variables of the code, `owner` the mutex, `section` whose header
was printed last. The variable `read` is not initialised, and keeps -1 from the
printing loop when libusb fails without writing it; a loop that starts from such a
value runs off the buffer (`Overruns`), where the model ends.

### MegaUsb

Contexts that call the driver are the main program and, if its interrupt is on,
the UART's receive interrupt, which puts a byte into the debug bank or, with the
FMR line low, prints it with `Printed` calls of the same function. `call[c]` is the call a
context is in, `intr` the interrupt flag, `UENUM` the selected endpoint, `UDFNUML` the
frame number modulo `FrameMod`. Code that runs with interrupts off and does not
wait is one step; each look at a FIFO register is one. The general interrupt is two steps,
since an end of reset may be raised between its read of `UDINT` and the write
that clears it. A packet is the session it belongs to, the debug bank a count.
Bus, host and controller are external. They are taken to be slow compared with
the processor: a frame does not end before the pending interrupts were served
and a running wait has looked, unless a handler that waits for the host holds
the processor. `main` of this tree has `uart0_configure` commented out, so that
`Contexts` has the UART's interrupt only in the run that asks about it.

### UartBuffer

One action is one access to the index, the buffer or the register, and the
interrupt comes between any two. `idx` and `length` keep their widths. A byte is the
number of its arrival, 0 one that nothing was written to. `harm` is history: it
records which of the ten races of the code has happened, and each property says
which of them it excludes. The properties do not catch those races, which the code
has; they say that there are no others.

### Sam4sBoot

`pmc` is the clock controller, whose clocks do what they are told some time
later or never. Each wait is a step that ends when its flag is set or, in all but
the wait for PLLA, when it gives up; `late` records the waits that gave up. The DAC's
interrupt may come as soon as it is enabled, before `dac_configure` has returned. The firmware
stays in its first `uart0_read`, since nothing in this tree configures that UART.
A clock is the source it comes from and its divider. Frequencies are not modelled:
the comments of `dac.c` count from a crystal of 12 MHz to an MCK of 80 MHz, while
`main.c:64` starts one of 20 MHz.

## What is checked

| Run | Result | What it shows |
|---|---|---|
| `fmr_server` | holds | types, a consistent registry, errors that belong to their packet, damaged packets that change nothing |
| `exchange` | holds | one host, two operations, a fault: own answers, valid indices, and the call that was asked for or none at all, unless the host strayed; implements `RemoteCall` |
| `exchange_live` | holds | two hosts that interleave, without faults: each call is performed as asked or not at all, every operation returns, no deadlock |
| `fmr_packet` | holds | what is performed is what was called, with its arguments up to the 16 there is room for, whatever byte is damaged; intact packets are accepted; the checksum is a remainder of polynomials; the repository's test passes |
| `sched_load` | holds | the system task loads and pauses four tasks: complete ring, saved contexts, paused tasks not chosen, every other task gets the processor |
| `sched_calls` | holds | the system task loads, pauses, resumes and stops two applications, which may finish: until one of the three kinds of `harm`, complete ring and no freed record reachable; the count is that of the ring and of the tasks that released themselves |
| `sched_stack` | violated | a task runs on a stack that was freed |
| `fdebug` | holds | sections exclude each other, text under its own header, everything sent is shown |
| `megausb` | holds | control requests, resets and a wrapping frame number in the middle of transfers: bounded waits, transfers within one session |
| `megausb_uart` | holds | debug output from an interrupt as well, byte by byte and printed: endpoints and timer stay right, every call returns, debug output goes out |
| `uart_buffer` | holds | order, completeness, bounds and reset of the receive buffer, each with the races that break it named |
| `sam4s_boot` | holds | MCK is moved to locked PLLs and one change at a time unless a wait gave up; at the end of `dac_configure` MCK is a third of PLLA unless a wait of its own gave up; boot ends |

The violated run states what a comment of the repository says of the function;
`findings` in `PROJECT.json` quotes it.

Where the code and what it says of itself differ, the modules have the code.
Met while modelling:

* `lf_invoke` returns an error before it sends anything when its arguments fit
  (`lib/libflipper.c:76`), `dyld_unload` keeps a module that is on the list
  (`lib/dyld.c:189`), and libusb's enumeration releases its list when a device is
  found (`platforms/posix/src/libusb.c:131`): `lf_assert` on a function that
  returns `lf_success`, which is 0, is inverted.
* A failing handler is answered with `E_OK` (`lib/fmr.c:86`;
  `MCFmrServer_failure.cfg`).
* A lookup gives the index of another module, since the device reads the name
  behind the packet (`lib/fmr.c:187`; `MCFmrExchange_lookup.cfg`).
* `lf_invoke_by_index` succeeds although nothing was called, since it does not look
  at the error of the result (`lib/libflipper.c:165`; `MCFmrExchange_success.cfg`).
* The arguments given to the macro `lf_args` are not sent: `lf_ll_create` returns
  the empty list, NULL, and `fmr_build` takes that for a failure
  (`lib/fmr_helper.c:50`; `MCFmrPacket_args.cfg`).
* The 17th argument of `lf_invoke_by_index` spoils the first: its type is stored
  where the values begin (`lib/libflipper.c:142`; `MCFmrPacket_many.cfg`).
* A task that pauses itself runs on (`scheduler.c:213`;
  `MCScheduler_selfpause.cfg`), the context of the task that calls
  `os_task_resume` is lost (`:236`; `MCScheduler_resume.cfg`), only the first
  application can be unlinked (`:146`; `MCScheduler_release.cfg`), and a task that
  finishes never gets to free its record or to decrement the count (`:156`), so that
  the next task is linked behind the wrong one (`MCScheduler_finish.cfg`).
* `dac_configure` cannot return `lf_error`, and the DAC's interrupt handler is not
  in the vector table: an interrupt of the DAC would stay in `dac_isr`.

The configurations named here are not listed as runs; TLC gives the
counterexample to each in seconds.

**Bounds.** The device of `MCFmrServer` has four images: two of one name (so
that a registration is refused), one with state, one with no functions. Module
and function indices lie below, at and past the end of list and table. Two
blocks of memory suffice for allocation at and below the bound. In
`MCFmrExchange` there are two modules, so that a wrong index can be both valid
and wrong, and functions may return 65535, the index that `dyld_register`
replaces and that does not fit a byte. Two operations of one client with one
fault are enough for an answer to reach the wrong request, which needs one
operation to leave it and one to take it; two clients with one operation each
(in `exchange_live`; with faults they are left to the proof) interleave all packets of a lookup, a second lookup and a call. Four tasks in
`MCScheduler` give a walk with a first, an inner and a last element, and two
paused neighbours to skip; `MaxPid` above the number of applications makes
released memory be used again, and lets a call name a pid that does not exist.
Two applications in `MCScheduler_calls.cfg` are the fewest of which one has a parent
other than the system task; the constraint `Unspoilt` leaves out what follows a
`harm`, about which only `CountIsRing` speaks (it holds there too, in the 8.6 million
states without the constraint). With `MCScheduler_two.cfg` the application calls the
scheduler as well, also on itself: alone beside the system task it cannot spoil the
ring.
The lists of arguments in `MCFmrPacket` are empty, mixed, of a type without size,
just full, full by the header's count, too long, and longer than the list of
types; the masks flip one bit, two
bits of one byte, the sign and all. Two pieces of text in `Fdebug` make a section go on and
another begin. In `MegaUsb.cfg` the frame number counts modulo 8 with waits of
three frames and five of silence after a reset, so that a wait may begin at any
number and the deadline wraps; `Lengths = {3}` gives a transfer two inner borders,
two resets and two requests let one fall inside the handling of the other. In
`MegaUsb_uart.cfg` there is one reset, one request and one UART byte, so that the
byte and its printing come between any two steps of the main program, but after
the configuration no further request does; liveness is what this run is for, and it
was also checked with a second reset, a second byte and a second request (up to 1.3
million states, too slow to repeat each time). `MegaUsb_both.cfg` has two of each
for the invariants, which hold in its 12 million states, and the theorems have any
number. A
buffer of three bytes with five arriving fills, starts again and is read by
parts; lengths lie below, at and above what it holds.

**Fairness.** `exchange_live` assumes weak fairness of the boot, of each host's
step and of serving each client's request. The first two are processes that the
operating system schedules; the third holds because the socket is a queue that
the loop empties in order. Nothing is assumed of loss: with a lost datagram the
host blocks for ever, since `lf_network_read` has no timeout. The property is
therefore stated without faults, and a device whose module fails to load has
exited and answers nothing. `sched_load` assumes that SysTick comes again and
again (the timer fires every millisecond) and that PendSV, once pending, is taken
and completes; nothing is assumed of the tasks. `fdebug` assumes that main and the
threads keep running, and weak fairness only: a mutex promises no order.
`megausb_uart` assumes that the processor goes on with what it runs, that pending
interrupts are taken, that the host finishes the control transfers it begins,
and, strongly, that frames end, since time passes whatever interrupts come.
`sam4s_boot` assumes that the processor runs and that PLLA locks, for which the
code waits without limit; every other clock may stay behind for ever.

**Deadlock** is checked in `exchange_live`, where `Stopped` is the end of all
operations or of the device, and in `sched_load` and
`sched_calls`, where the processor always has a next step. The other runs may stop: faults and bounds use up
what is left to do.

## What is proved

All theorems hold for every value of the constants that satisfies the named
assumptions: images that leave their index to `dyld_register` (as every image of
the repository does), fewer images than 16-bit indices, and, for the exchange,
no more than the 256 modules that the byte in a call can name. Two kinds of
theorem have a hypothesis of their own: those about the scheduler say which calls
are made, and that about sessions how long the host is silent after a reset. The
runs satisfy them, except that `sched_calls` asks about `CountIsRing` with every
call and two applications, and the theorem with fewer calls and any number.

* **The checksum** (`CrcProofs`), for messages of any length.
  `ChecksumIsRemainder`: after each byte the register of `calcrc` is the remainder
  of what was read times x^16, although the code never appends the 16 zeros that
  the division ends with. `ChecksumFindsDamage`: two messages that differ in one
  byte have different checksums. A round is linear and loses nothing: registers
  that differ still differ after it, and the eight bits that a different byte
  adds at the top are a difference to begin with. What a recursive function
  computes is proved by an induction that is stated for sets of numbers
  (`Upward`, by a least counterexample) and, for a loop, by the sequence of its
  intermediate values (`LoopRuns`).
* **A call on the wire** (`FmrPacketProofs`), for every set of calls of up to 255
  arguments, every number of modules and every set of masks. `CallArrivesIntact`
  and `IntactIsAccepted` say what became of a call after the device answered;
  for `PacketInv` one must know of the packet on its way that, undamaged, it is
  the sealed packet of the call, and damaged, one byte away from it (`Transit`).
  That every part of a sealed packet has its place is `SealedIs`, that `fmr_rpc`
  reads from it the arguments that were written is `ReadsCall`, and that the
  checksum agrees with one that covers no more than the packet `ValidIsAccepted`.
  Under damage there are three cases. When the first byte, the checksum or a byte
  that it covers behind the length was changed, the packet is refused
  (`DamageIsRefused`, by `ChecksumFindsDamage` and because different words have
  different bytes). When the length was changed, the checksum covers something
  else and may even agree, but the call behind the header is untouched; and a
  byte past what is covered holds no part of the call, since the length counts
  at least what the call has (`DamagedIs`). `TestsPass` follows from
  `CallArrivesIntact` and from what the functions of the test module compute.
* **The device** (`FmrExchangeSteps`). `RegistryConsistent`
  alone is not inductive: a module's index is the length of the list when it was
  registered, so that one must also know that the images still to come leave
  their index open and fit (`LoadingConsistent`). `ErrorIsOfThisPacket` needs
  that no packet is performed before boot is over (`NotBeforeBoot`) and that the
  early exits of `fmr_perform` are never taken (`DispatchReady`). Together they
  are `DevInv` and `ErrorInv`. `BootKeepsInv` and `ServeKeepsInv` are stated for
  the device's steps alone, so that both compositions use them.
* **The exchange** (`FmrExchangeSteps`, `FmrExchangeProofs`). `ReadsOwnAnswer`
  follows from `InStep`: a client that has not strayed has at most one datagram
  under way, it belongs to its last request, and the client is waiting for it.
  `CallsFindAModule` follows from `InRange`: the index a client holds, the request
  it has sent and the answer on its way to it are in the range of the device's
  list, which never shrinks, so that `E_NULL` can only be a lack of memory. `PerformsTheCall`
  follows from `Carries`: the call under way is the one the client asked for, its
  arguments included, its answer says what `fmr_rpc` did
  with it (`CallIsPerformed`), and a module stays where it is in the list with
  the table it has (`TablesKept`). `ExchangeInv` is their conjunction with
  `DevInv` and the types, which are an invariant by themselves (`TypesStep`). All
  three speak of one client at a time, so that the proof has two halves: a step
  leaves every other client alone (`OthersUntouched`, `NetworkUntouched`,
  `UntouchedKeeps`, `CarriesKept`), and keeps the client it is about (`HostStaysInStep`,
  `HostStaysInRange`, `ServesKeeps`, `ServesCarries`, `HostRecordsTheCall`) or
  makes it stray.
* **The refinement** (`FmrExchangeProofs`). Every step moves the stage of one
  client along `RemoteCall`, or none, from `TypeOK` and `InStep`: that a client has
  at most one datagram under way is why serving a request is `Perform` and never
  a second one. Duplication and unread answers map to `Stray`.
* **The debug console** (`FdebugProofs`). `SectionInv` is inductive: the mutex is
  held exactly by the thread inside its section, the short timeout is set only
  there, the header was printed before the decision, and no thread runs before it
  was created. `UnderOwnHeader` follows for each step.
* **The USB driver** (`MegaUsbProofs`), for every width of the frame number above
  three, all contexts and any number of requests and resets. `OwnEndpoint` is
  inductive with the types; `FlushArmed` needs that the bank is empty while the
  endpoints are not set up (`FlushInv`), since a reset empties it;
  `WaitBounded` needs that the deadline is as many frames ahead, modulo the
  width, as the wait has left (`WaitInv`). `OneSession` is proved for a host that
  is silent after a reset for longer than the driver waits (10 ms in the USB
  standard, against 3): while the endpoints are closed, the frames that a transfer
  has waited and those of the silence that are left add up to the recovery time
  (`SessionInv`), so that the wait is over before the first request.
* **The receive buffer** (`UartBufferProofs`), for every size, width and length.
  Unless the buffer was started again inside a call, a short read asks for less
  than its copy of the index, and the index has only grown since (`IndexInv`); a
  read of the whole buffer asks for at least what it copies, and polling goes on
  only with something left (`LengthInv`). `InBounds` and `NoMoreThanAsked` follow.
  `InOrder`, `NothingLost` and `ResetForgets` are about the stream at rest and not
  inductive: in the middle of a call some cells hold bytes that the caller has
  already, or that were moved. `Live` says at each statement which cells count;
  with it `Flow` says that the bytes handed out, those of the call, the live cells
  and the register hold everything that arrived, in this order (`Ordered`,
  `Kept`), and nothing from before the last reset (`Forgotten`). `CopyCells`,
  `MoveCells`, `IsrCells` and `StoreCells` say what each access does to the live
  cells, and `ChainMoves` and `ChainCopy` that the order survives.
* **The scheduler** (`Sam4sProofs`), for up to 255 tasks, which is what the
  `uint8_t` of the count holds. As long as only the system task loads, pauses and
  resumes, `RingComplete` and `CountIsRing` follow from `RingInv`: `malloc` hands
  out records in order and each is linked before the next is asked for, so that
  record *i* points to record *i* + 1 and the last to the system task, the walk of
  `os_task_add` is `n` records before the tail, and the count lags by one only
  between the link and its write. As long as only the system task loads and
  pauses, `ContextSaved` and `PausedStaysOff` follow from `RunInv`: the processor
  runs `os_current_task`, and whenever PendSV may read `os_next_task` it is a linked
  task that is not paused. While a thread looks for a task, the value it wrote and
  the one SysTick left may differ, and then the latter is not paused (`Choices`).
  That SysTick's walk ends at such a task is an induction over its steps, by a
  least counterexample (`Least`, `FollowStays`). With other calls these properties
  fail, see above.
* **The start of the ATSAM4S** (`Sam4sProofs`). `BootInv` says for each statement
  which PLL is locked, which clock was selected and whether MCKRDY is set or a wait
  gave up; `SourceLocked`, `ConfiguredClock` and `NoRashSwitch` follow.

Only model-checked: liveness (`OperationsReturn`, `EveryTaskRuns`,
`EverythingShown`, `CallsReturn`, `DebugGoesOut`, `BootEnds`), which under fairness
is outside what the provers handle; and what `sched_calls` says of applications that
are stopped and finish (`RingSurvives`, `FreedIsUnreachable`, and `CountIsRing` under
those calls).

## Not modelled

* The Atmel software framework under `platforms/atsam4s/asf`, nine tenths of the
  repository's lines, but for the functions of `pmc.c` and `dacc.c` that the
  firmware calls: a copy of the vendor's drivers and register headers, called by
  nobody here.
* Code that this tree does not reach: `fmr_call` in `fmr.S` (no caller), fdfu's
  transfer (its assertion on `lf_attach` fails when attaching succeeds, and the
  `sam_*` functions are empty), attaching a Carbon board (`#if 0`), devices found
  by libusb (see above), `usb_debug_flush_output`, what follows the first
  `uart0_read` of the ATSAM4S. `fload` only prints its arguments.
* `uart0_write` of the U2 and the drivers that write one register, the code
  generators, host name resolution, dispatchers registered by plugins.
* The lists of `lib/ll.c` are sequences where they are used; the loader's
  relocation is a loop over one table without another actor.
* Memory damage by a handler that was given a wild pointer or length, the
  contents of stacks, the start of Osmium's system task before its handler runs
  (SysTick is enabled before the stack pointer of the task is set,
  `scheduler.c:45`). Loading by two tasks at once, which nothing guards
  (`scheduler.c:74`), is in the model but in no instance with room for it: it
  loses links and counts.
* Device memory is finite in the models (`MaxBlocks`), and a client starts
  `MaxOps` operations with `MaxFaults` faults in all; `MaxBytes`, `MaxSent`,
  `MaxRequests` and `MaxResets` bound what the environment does.
