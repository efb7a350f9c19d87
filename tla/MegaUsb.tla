-------------------------------- MODULE MegaUsb --------------------------------
(***************************************************************************)
(* The USB driver of the ATMEGAU2 firmware: the bulk transfers of the main *)
(* program (bulk.c), the debug output (debug.c), which the main program    *)
(* and the UART interrupt both use, and the two USB interrupt routines     *)
(* (control.c).  They share one register, UENUM, that says which endpoint  *)
(* the FIFO registers mean, and are kept apart by the I flag of SREG only. *)
(* A wait for a FIFO opens the flag between two looks at it, and gives up  *)
(* when the 8-bit frame number UDFNUML equals a number computed before.    *)
(*                                                                         *)
(* What a packet holds is abstracted to the session (the number of the     *)
(* SET_CONFIGURATION) it was received or sent in; the debug bank is a      *)
(* count of bytes.  Code that runs with the I flag clear and does not wait *)
(* is one step.  The UART interrupt is enabled by uart0_configure(), which *)
(* main() of this tree has commented out; Contexts says whether it is on.  *)
(*                                                                         *)
(* The controller, the bus and the host are external.  They are assumed    *)
(* slow compared with the processor: a frame ends only after the pending   *)
(* USB interrupts were served and the running wait looked at the frame     *)
(* number, unless a control transfer holds the processor (see Tick), and   *)
(* the host is silent for Recovery frames after a bus reset.               *)
(***************************************************************************)
EXTENDS Integers

CONSTANTS
    Contexts,      \* who calls the driver: "main", and "uart" if its interrupt is on
    FrameMod,      \* UDFNUML counts modulo FrameMod (256 in the hardware)
    DebugSize,     \* bytes of the debug endpoint's bank (DEBUG_IN_SIZE)
    Lengths,       \* the packets of a bulk transfer
    Recovery,      \* frames the host is silent after a reset (10 in the USB standard)
    Kinds,         \* the kinds of control requests the host makes
    MaxRequests,   \* bound on the control requests
    MaxResets,     \* bound on the bus resets
    Printed,       \* characters the UART interrupt prints of a byte (11 in the code)
    MaxBytes       \* bound on the bytes the UART interrupt receives

ASSUME MegaUsbAssumption ==
    /\ "main" \in Contexts /\ Contexts \subseteq {"main", "uart"}
    /\ FrameMod \in Nat /\ FrameMod > 3
    /\ {DebugSize, Recovery, Printed} \cup Lengths \subseteq Nat \ {0}
    /\ {MaxRequests, MaxResets, MaxBytes} \subseteq Nat

LF_USB_TIMEOUT_MS == 3

\* Endpoint numbers: what UENUM keeps of the addresses of atmegau2.h.
CONTROL == 0
BULK_IN == 1
BULK_OUT == 2
DEBUG_IN == 3
Transfers == {"receive", "transmit"}
Endpoint == [receive |-> BULK_OUT, transmit |-> BULK_IN, putchar |-> DEBUG_IN]

\* The control requests, grouped by what they do to the state: the ones that
\* only wait for the host and answer (GET_DESCRIPTOR, SET_ADDRESS,
\* GET_CONFIGURATION, GET_STATUS), SET_CONFIGURATION to a configuration and to
\* 0, the endpoint features, and what is answered with a stall.
Request == [kind : {"answer", "configure", "unconfigure", "stall"}, ep : {CONTROL}]
               \cup [kind : {"clear", "halt"}, ep : {BULK_IN, BULK_OUT, DEBUG_IN}]
NoRequest == [kind |-> "none", ep |-> CONTROL]

VARIABLES
    intr,        \* the I flag of SREG
    UENUM,       \* the selected endpoint
    UDFNUML,     \* the frame number
    UDINT,       \* pending general USB interrupts, a subset of {"EORST", "SOF"}
    setup,       \* the SETUP packet the control endpoint holds
    open,        \* endpoints 1 to 3 are enabled
    busy,        \* the IN endpoints whose bank the host has not taken yet
    received,    \* the session of the packet in the OUT bank, 0 if it is empty
    fill,        \* bytes in the debug bank
    megausb_configuration,   \* not 0
    debug_flush_timer,
    previous_timeout,
    running,     \* the context, or the interrupt routine, the processor is in
    seen,        \* _udint of the general interrupt routine
    call,        \* the driver call of each context
    session,     \* SET_CONFIGURATIONs so far
    quiet,       \* frames until the host speaks after a reset
    count        \* requests, resets and UART bytes so far

line == <<setup, quiet, count>>
banks == <<open, busy, received, fill>>
cpu == <<intr, UENUM, running, seen>>
driver == <<megausb_configuration, debug_flush_timer, previous_timeout>>
vars == <<cpu, UDFNUML, UDINT, line, banks, driver, call, session>>

\* A call: where it is, what is left of it, its local variables timeout and
\* _sreg (intr_state), and what happened while it waited: how many frames,
\* whether another routine held the processor for one, whether it looked at
\* the frame number in this frame, and whether SET_CONFIGURATION came with the
\* endpoints already open; and the session of its last packet, if it had one.
Idle == [pc |-> "idle", op |-> "none", left |-> 0, timeout |-> 0, sreg |-> FALSE, waited |-> 0,
         held |-> FALSE, looked |-> FALSE, last |-> {}, again |-> FALSE]
Waiting(c) == call[c].pc \in {"poll", "late", "online", "select"}

\* main() after usb_configure(): the device is attached and has no
\* configuration; the boot message went nowhere.
Init ==
    /\ intr = TRUE /\ UENUM = CONTROL /\ running = "main" /\ seen = {}
    /\ UDFNUML = 0 /\ UDINT = {}
    /\ setup = NoRequest /\ quiet = Recovery
    /\ count = [requests |-> 0, resets |-> 0, bytes |-> 0]
    /\ open = FALSE /\ busy = {} /\ received = 0 /\ fill = 0
    /\ megausb_configuration = FALSE /\ debug_flush_timer = 0 /\ previous_timeout = FALSE
    /\ call = [c \in Contexts |-> Idle]
    /\ session = 0

\* UEINTX & (1 << RWAL) for the endpoint UENUM selects.
RWAL(e) ==
    /\ open
    /\ \/ e = BULK_IN /\ BULK_IN \notin busy
       \/ e = BULK_OUT /\ received # 0
       \/ e = DEBUG_IN /\ DEBUG_IN \notin busy
-----------------------------------------------------------------------------
(***************************************************************************)
(* The driver calls.  The three functions have one shape: refuse without a *)
(* configuration, then under cli() select the endpoint and look at it, and *)
(* while it is not ready reopen the interrupts, look at the frame number   *)
(* and the configuration, and start over.                                  *)
(***************************************************************************)
\* The context has the processor: a pending interrupt is taken as soon as the
\* I flag is set.
Runs(c) == running = c /\ ~(intr /\ (UDINT # {} \/ setup # NoRequest))
Goes(c, to) == Runs(c) /\ call' = [call EXCEPT ![c].pc = to]

\* A call of the function op with n packets or characters before it.
Calling(op, n) == [Idle EXCEPT !.pc = "enter", !.op = op, !.left = n]

\* usb_debug_putchar() returns to printf(), which calls it with the next character
\* whatever it returned; any other call is over.
After(k) == IF k.op = "putchar" /\ k.left > 1 THEN Calling("putchar", k.left - 1) ELSE Idle

\* The call returns with SREG as it is given; after its last one the UART
\* interrupt returns from its routine too (reti).
Leave(c, sreg) ==
    LET over == After(call[c]) = Idle
    IN  /\ call' = [call EXCEPT ![c] = After(call[c])]
        /\ running' = IF over THEN "main" ELSE running
        /\ intr' = IF over /\ c = "uart" THEN TRUE ELSE sreg

\* A function is called with a configuration (without, it returns at once).
Call(op, n) ==
    /\ Runs("main") /\ call["main"].pc = "idle"
    /\ megausb_configuration
    /\ call' = [call EXCEPT !["main"] = Calling(op, n)]
    /\ UNCHANGED <<cpu, UDFNUML, UDINT, line, banks, driver, session>>

\* loop() and fmr_perform(): packets and their data are received, results and
\* data are transmitted, error messages go to the debug endpoint.
Calls ==
    \/ \E op \in Transfers, n \in Lengths : Call(op, n)
    \/ Call("putchar", 1)

\* A deadline that forgets that the frame number wraps.
Deadline_Unwrapped == UDFNUML + LF_USB_TIMEOUT_MS

\* uint8_t timeout = UDFNUML + LF_USB_TIMEOUT_MS.
Deadline == (UDFNUML + LF_USB_TIMEOUT_MS) % FrameMod

\* _sreg = SREG; cli(); UENUM = ...; and for the debug endpoint: no wait if
\* the last one was in vain and the bank is still full.
Enter(c) ==
    LET k == call[c]
        refused == k.op = "putchar" /\ previous_timeout /\ ~RWAL(DEBUG_IN)
    IN  /\ Runs(c) /\ k.pc = "enter"
        /\ UENUM' = Endpoint[k.op]
        /\ \/ refused /\ Leave(c, intr) /\ UNCHANGED previous_timeout
           \/ /\ ~refused
              /\ intr' = FALSE
              /\ call' = [call EXCEPT ![c].pc = "poll", ![c].timeout = Deadline, ![c].sreg = intr]
              /\ previous_timeout' = (previous_timeout /\ k.op # "putchar")
              /\ UNCHANGED running
        /\ UNCHANGED <<UDFNUML, UDINT, line, banks, seen, megausb_configuration,
                       debug_flush_timer, session>>

\* The endpoint is not ready: SREG = _sreg.
NotReady(c) ==
    /\ call[c].pc = "poll" /\ ~RWAL(UENUM)
    /\ Goes(c, "late")
    /\ intr' = call[c].sreg
    /\ UNCHANGED <<UENUM, running, seen, UDFNUML, UDINT, line, banks, driver, session>>

\* A packet was moved in session s: the next one, or the function returns.
Moved(c, s) ==
    \/ call[c].left = 1 /\ Leave(c, call[c].sreg)
    \/ /\ call[c].left > 1
       /\ call' = [call EXCEPT ![c].left = @ - 1, ![c].timeout = Deadline, ![c].waited = 0,
                               ![c].held = FALSE, ![c].looked = FALSE,
                               ![c].last = {s}, ![c].again = FALSE]
       /\ UNCHANGED <<intr, running>>

\* The OUT bank is copied out and released.
Receives(c) ==
    /\ Runs(c) /\ call[c].pc = "poll" /\ call[c].op = "receive" /\ RWAL(UENUM)
    /\ received' = 0
    /\ Moved(c, received)
    /\ UNCHANGED <<UENUM, seen, UDFNUML, UDINT, line, open, busy, fill, driver, session>>

\* The IN bank is filled and handed to the controller.
Transmits(c) ==
    /\ Runs(c) /\ call[c].pc = "poll" /\ call[c].op = "transmit" /\ RWAL(UENUM)
    /\ busy' = busy \cup {BULK_IN}
    /\ Moved(c, session)
    /\ UNCHANGED <<UENUM, seen, UDFNUML, UDINT, line, open, received, fill, driver, session>>

\* A careless putchar that does not start the timer.
Puts_NoTimer(c) ==
    /\ Runs(c) /\ call[c].pc = "poll" /\ call[c].op = "putchar" /\ RWAL(UENUM)
    /\ IF fill + 1 = DebugSize
       THEN fill' = 0 /\ busy' = busy \cup {DEBUG_IN} /\ debug_flush_timer' = 0
       ELSE fill' = fill + 1 /\ UNCHANGED <<busy, debug_flush_timer>>
    /\ Leave(c, call[c].sreg)
    /\ UNCHANGED <<UENUM, seen, UDFNUML, UDINT, line, open, received,
                   megausb_configuration, previous_timeout, session>>

\* A byte goes into the debug bank; a full bank is sent, any other is sent by
\* the frame interrupt when the timer runs out.
Puts(c) ==
    /\ Runs(c) /\ call[c].pc = "poll" /\ call[c].op = "putchar" /\ RWAL(UENUM)
    /\ IF fill + 1 = DebugSize
       THEN fill' = 0 /\ busy' = busy \cup {DEBUG_IN} /\ debug_flush_timer' = 0
       ELSE fill' = fill + 1 /\ UNCHANGED busy /\ debug_flush_timer' = 2
    /\ Leave(c, call[c].sreg)
    /\ UNCHANGED <<UENUM, seen, UDFNUML, UDINT, line, open, received,
                   megausb_configuration, previous_timeout, session>>

\* UDFNUML == timeout: the function gives up.
Late(c) ==
    LET k == call[c]
        late == UDFNUML = k.timeout
    IN  /\ Runs(c) /\ k.pc = "late"
        /\ \/ late /\ Leave(c, intr)
           \/ ~late /\ call' = [call EXCEPT ![c].pc = "online", ![c].looked = TRUE]
              /\ UNCHANGED <<intr, running>>
        /\ previous_timeout' = (previous_timeout \/ (late /\ k.op = "putchar"))
        /\ UNCHANGED <<UENUM, seen, UDFNUML, UDINT, line, banks, megausb_configuration,
                       debug_flush_timer, session>>

\* !megausb_configuration: the function returns.
Online(c) ==
    /\ Runs(c) /\ call[c].pc = "online"
    /\ \/ megausb_configuration /\ Goes(c, "select") /\ UNCHANGED <<intr, running>>
       \/ ~megausb_configuration /\ Leave(c, intr)
    /\ UNCHANGED <<UENUM, seen, UDFNUML, UDINT, line, banks, driver, session>>

\* A careless wait that does not select its endpoint again.
Select_Once(c) ==
    /\ Runs(c) /\ call[c].pc = "select"
    /\ call' = [call EXCEPT ![c].pc = "poll", ![c].sreg = intr]
    /\ intr' = FALSE
    /\ UNCHANGED <<UENUM, running, seen, UDFNUML, UDINT, line, banks, driver, session>>

\* _sreg = SREG; cli(); and the endpoint is selected again: an interrupt may
\* have selected another one.
Select(c) ==
    /\ Runs(c) /\ call[c].pc = "select"
    /\ call' = [call EXCEPT ![c].pc = "poll", ![c].sreg = intr]
    /\ intr' = FALSE
    /\ UENUM' = Endpoint[call[c].op]
    /\ UNCHANGED <<running, seen, UDFNUML, UDINT, line, banks, driver, session>>

Step(c) ==
    \/ Enter(c) \/ NotReady(c) \/ Receives(c) \/ Transmits(c) \/ Puts(c)
    \/ Late(c) \/ Online(c) \/ Select(c)
-----------------------------------------------------------------------------
(***************************************************************************)
(* The interrupt routines.  The I flag is clear until they return.         *)
(***************************************************************************)
Interrupted(by) == running = "main" /\ intr /\ running' = by /\ intr' = FALSE
Returns(from) == running = from /\ running' = "main" /\ intr' = TRUE

\* USB_GEN: the flags are read in one instruction and cleared in a later one.
Gen ==
    /\ UDINT # {} /\ Interrupted("gen")
    /\ seen' = UDINT
    /\ UNCHANGED <<UENUM, UDFNUML, UDINT, line, banks, driver, call, session>>

\* A careless frame interrupt that lets the timer run out and sends nothing.
GenBody_NeverSends ==
    LET reset == "EORST" \in seen
        ticks == "SOF" \in seen /\ ~reset /\ megausb_configuration /\ debug_flush_timer > 0
    IN  /\ Returns("gen")
        /\ UDINT' = {} /\ seen' = {}
        /\ megausb_configuration' = (megausb_configuration /\ ~reset)
        /\ debug_flush_timer' = IF ticks THEN debug_flush_timer - 1 ELSE debug_flush_timer
        /\ UENUM' = IF reset THEN CONTROL ELSE UENUM
        /\ UNCHANGED <<fill, busy, UDFNUML, line, open, received, previous_timeout, call, session>>

\* All flags are cleared, one raised since the reading unseen.  After a reset
\* there is no configuration; in a frame the timer of the debug bank runs on
\* and, at 0, the bank is padded and sent.
GenBody ==
    LET reset == "EORST" \in seen
        ticks == "SOF" \in seen /\ ~reset /\ megausb_configuration /\ debug_flush_timer > 0
        sends == ticks /\ debug_flush_timer = 1
    IN  /\ Returns("gen")
        /\ UDINT' = {} /\ seen' = {}
        /\ megausb_configuration' = (megausb_configuration /\ ~reset)
        /\ debug_flush_timer' = IF ticks THEN debug_flush_timer - 1 ELSE debug_flush_timer
        /\ UENUM' = IF reset THEN CONTROL ELSE IF sends THEN DEBUG_IN ELSE UENUM
        /\ IF sends /\ RWAL(DEBUG_IN)
           THEN fill' = 0 /\ busy' = busy \cup {DEBUG_IN}
           ELSE UNCHANGED <<fill, busy>>
        /\ UNCHANGED <<UDFNUML, line, open, received, previous_timeout, call, session>>

\* USB_COM, which comes after USB_GEN in the vector table.  The requests that
\* wait: the routine holds the processor until the host has taken the answer,
\* however long that takes.
Answer ==
    /\ setup.kind = "answer" /\ UDINT = {} /\ Interrupted("com")
    /\ setup' = NoRequest /\ UENUM' = CONTROL
    /\ UNCHANGED <<seen, UDFNUML, UDINT, quiet, count, banks, driver, call, session>>

Answering ==
    /\ Returns("com")
    /\ UNCHANGED <<UENUM, seen, UDFNUML, UDINT, line, banks, driver, call, session>>

\* The routine ran from beginning to end.
Served == running = "main" /\ intr /\ UDINT = {} /\ setup' = NoRequest /\ UNCHANGED <<intr, running, seen>>

\* SET_CONFIGURATION configures and resets the endpoints.
SetConfiguration ==
    /\ setup.kind \in {"configure", "unconfigure"} /\ Served
    /\ megausb_configuration' = (setup.kind = "configure")
    /\ session' = session + 1
    /\ open' = TRUE /\ busy' = {} /\ received' = 0 /\ fill' = 0
    /\ UENUM' = 4
    /\ call' = [c \in Contexts |->
                   IF call[c].pc = "idle" THEN Idle ELSE [call[c] EXCEPT !.again = @ \/ open]]
    /\ UNCHANGED <<UDFNUML, UDINT, quiet, count, debug_flush_timer, previous_timeout>>

\* CLEAR_FEATURE resets one endpoint; SET_FEATURE halts it, so that the host
\* neither takes nor sends anything, which it may do in any case.
Feature ==
    /\ setup.kind \in {"clear", "halt"} /\ Served
    /\ UENUM' = setup.ep
    /\ \/ setup.kind = "halt" /\ UNCHANGED <<busy, received, fill>>
       \/ /\ setup.kind = "clear"
          /\ busy' = busy \ {setup.ep}
          /\ received' = IF setup.ep = BULK_OUT THEN 0 ELSE received
          /\ fill' = IF setup.ep = DEBUG_IN THEN 0 ELSE fill
    /\ UNCHANGED <<UDFNUML, UDINT, quiet, count, open, driver, call, session>>

\* Any other request is stalled.
Stall ==
    /\ setup.kind = "stall" /\ Served /\ UENUM' = CONTROL
    /\ UNCHANGED <<UDFNUML, UDINT, quiet, count, banks, driver, call, session>>

Com == Answer \/ SetConfiguration \/ Feature \/ Stall

\* USART1_RX: with the FMR line high the byte goes to usb_debug_putchar(), with
\* the line low it is printed, character after character, to the same function
\* (UartBuffer has what becomes of the byte then).
Uart ==
    /\ "uart" \in Contexts /\ Runs("main") /\ count.bytes < MaxBytes
    /\ count' = [count EXCEPT !.bytes = @ + 1]
    /\ megausb_configuration
    /\ Interrupted("uart")
    /\ \E n \in {1, Printed} : call' = [call EXCEPT !["uart"] = Calling("putchar", n)]
    /\ UNCHANGED <<UENUM, seen, UDFNUML, UDINT, setup, quiet, banks, driver, session>>
-----------------------------------------------------------------------------
(***************************************************************************)
(* The bus and the host.                                                   *)
(***************************************************************************)
\* A start of frame.  Every wait gets older; the ones whose context is not
\* running were held up for this frame.
Tick ==
    /\ count.resets > 0
    /\ running # "gen"
    /\ running = "main" => UDINT = {} /\ setup = NoRequest
    /\ running \in Contexts => (call[running].pc = "idle" \/ call[running].looked)
    /\ UDFNUML' = (UDFNUML + 1) % FrameMod
    /\ UDINT' = UDINT \cup {"SOF"}
    /\ quiet' = IF quiet > 0 THEN quiet - 1 ELSE 0
    /\ call' = [c \in Contexts |->
                   IF ~Waiting(c) THEN call[c]
                   ELSE [call[c] EXCEPT !.looked = FALSE, !.held = @ \/ running # c,
                                        !.waited = IF @ > LF_USB_TIMEOUT_MS THEN @ ELSE @ + 1]]
    /\ UNCHANGED <<cpu, setup, count, banks, driver, session>>

\* A bus reset: the controller disables the endpoints and raises EORST.
BusReset ==
    /\ count.resets < MaxResets
    /\ count' = [count EXCEPT !.resets = @ + 1]
    /\ UDINT' = UDINT \cup {"EORST"}
    /\ setup' = NoRequest /\ quiet' = Recovery
    /\ open' = FALSE /\ busy' = {} /\ received' = 0 /\ fill' = 0
    /\ UNCHANGED <<cpu, UDFNUML, driver, call, session>>

\* A SETUP packet; endpoint requests are for open endpoints.
Setup(r) ==
    /\ count.resets > 0 /\ quiet = 0
    /\ setup = NoRequest /\ running # "com"
    /\ r.kind \in Kinds /\ (r.ep # CONTROL => open)
    /\ count.requests < MaxRequests
    /\ count' = [count EXCEPT !.requests = @ + 1]
    /\ setup' = r
    /\ UNCHANGED <<cpu, UDFNUML, UDINT, quiet, banks, driver, call, session>>

HostSends ==
    /\ open /\ received = 0
    /\ received' = session
    /\ UNCHANGED <<cpu, UDFNUML, UDINT, line, open, busy, fill, driver, call, session>>

HostTakes(e) ==
    /\ e \in busy
    /\ busy' = busy \ {e}
    /\ UNCHANGED <<cpu, UDFNUML, UDINT, line, open, received, fill, driver, call, session>>

Host == BusReset \/ HostSends \/ (\E r \in Request : Setup(r)) \/ (\E e \in busy : HostTakes(e))

Next ==
    \/ Calls \/ (\E c \in Contexts : Step(c))
    \/ Gen \/ GenBody \/ Com \/ Answering \/ Uart
    \/ Tick \/ Host

Spec == Init /\ [][Next]_vars

\* The processor returns to what it interrupted and takes pending interrupts,
\* time goes on, and the host finishes its control transfers.
FairSpec ==
    /\ Spec
    /\ \A c \in Contexts : WF_vars(Step(c))
    /\ WF_vars(Gen) /\ WF_vars(GenBody) /\ WF_vars(Com) /\ WF_vars(Answering)
    /\ SF_vars(Tick)
-----------------------------------------------------------------------------
\* Whoever touches a FIFO register has the processor to itself and has the
\* endpoint it means selected, although every interrupt routine selects others
\* (bulk.c:40, bulk.c:98, debug.c:43).
OwnEndpoint ==
    \A c \in Contexts :
        call[c].pc = "poll" => running = c /\ ~intr /\ UENUM = Endpoint[call[c].op]

\* Debug bytes that are not sent yet have a running timer, whichever of the
\* main program, the UART interrupt, a reset or a request came in between; and
\* the timer never runs out on a bank the host still has (debug.c:48, control.c:58).
FlushArmed ==
    megausb_configuration =>
        /\ fill > 0 => debug_flush_timer > 0
        /\ debug_flush_timer > 0 => DEBUG_IN \notin busy

\* A wait for an endpoint lasts three frames at most, whatever the frame number
\* was when it began, unless another routine held the processor for a frame
\* (bulk.c:33: the comparison is for equality, so the frame may be missed).
WaitBounded ==
    \A c \in Contexts : Waiting(c) /\ ~call[c].held => call[c].waited <= LF_USB_TIMEOUT_MS

\* The packets of one bulk transfer belong to one session: no transfer goes on
\* across a bus reset, not even across one whose flag is cleared unseen
\* (control.c:37), where only the frame number ends the wait (bulk.c:33).  It
\* may if, since the packet before, an interrupt routine held the processor for
\* a frame, or a second SET_CONFIGURATION came without a reset.
OneSession ==
    [][\A c \in Contexts :
           LET split == call[c].again \/ call[c].held
           IN  /\ Receives(c) => split \/ call[c].last \subseteq {received}
               /\ Transmits(c) => split \/ call[c].last \subseteq {session}]_vars

\* Every call of the driver returns.
CallsReturn == \A c \in Contexts : call[c].pc # "idle" ~> call[c].pc = "idle"

\* A partly filled debug bank is sent, or dropped by a reset.
DebugGoesOut == fill > 0 ~> (fill = 0 \/ ~megausb_configuration)
================================================================================
