----------------------------- MODULE MegaUsbProofs -----------------------------
(***************************************************************************)
(* What the USB driver keeps for every set of contexts, every width of the *)
(* frame number, every size of the debug bank and every number of resets   *)
(* and requests: the endpoint in use is the one meant, unsent debug bytes  *)
(* have a running timer, a wait that has the processor lasts three frames, *)
(* which rests on the arithmetic of UDFNUML, and so a transfer does not go *)
(* on from one session into the next.                                      *)
(***************************************************************************)
EXTENDS MegaUsb, TLAPS

PCs == {"idle", "enter", "poll", "late", "online", "select"}
Ops == {"none", "receive", "transmit", "putchar"}
CallType == [pc : PCs, op : Ops, left : Nat, timeout : 0..(FrameMod - 1), sreg : BOOLEAN,
             waited : Nat, held : BOOLEAN, looked : BOOLEAN, last : SUBSET Nat,
             again : BOOLEAN]

\* The types of what the driver, the controller and the calls hold.
Types ==
    /\ call \in [Contexts -> CallType]
    /\ UDFNUML \in 0..(FrameMod - 1)
    /\ received \in Nat /\ session \in Nat
    /\ fill \in Nat /\ debug_flush_timer \in Nat
    /\ intr \in BOOLEAN

\* The addition of a timeout wraps at most once.
LEMMA Wraps ==
    ASSUME NEW a \in 0..(FrameMod - 1), NEW k \in 0..3
    PROVE  (a + k) % FrameMod = IF a + k < FrameMod THEN a + k ELSE a + k - FrameMod
  <1>0. FrameMod \in Nat /\ FrameMod > 3
    BY MegaUsbAssumption, Zenon
  <1>1. CASE a + k < FrameMod
    BY <1>0, <1>1
  <1>2. CASE a + k >= FrameMod
    <2>1. a + k - FrameMod \in 0..(FrameMod - 1)
      BY <1>0, <1>2
    <2> QED BY <1>0, <1>2, <2>1
  <1> QED BY <1>0, <1>1, <1>2, SMTT(60)

\* A computed deadline is a frame number.
LEMMA DeadlineIsFrame ==
    ASSUME UDFNUML \in 0..(FrameMod - 1)
    PROVE  Deadline \in 0..(FrameMod - 1)
  <1>1. FrameMod \in Nat /\ FrameMod > 3
    BY MegaUsbAssumption, Zenon
  <1> QED BY <1>1, Wraps DEF Deadline, LF_USB_TIMEOUT_MS

\* No call in progress is a well-typed record of one.
LEMMA IdleIsCall == Idle \in CallType
  <1>1. FrameMod \in Nat /\ FrameMod > 3
    BY MegaUsbAssumption, Zenon
  <1> QED BY <1>1 DEF Idle, CallType, PCs, Ops

\* A context's record may be replaced by another one.
LEMMA Replaced ==
    ASSUME call \in [Contexts -> CallType], NEW c \in Contexts, NEW r \in CallType
    PROVE  [call EXCEPT ![c] = r] \in [Contexts -> CallType]
  BY Zenon

\* A new call starts from a record with nothing in it.
LEMMA StartIsCall ==
    ASSUME NEW op \in Ops, NEW n \in Nat
    PROVE  Calling(op, n) \in CallType
  BY IdleIsCall, Zenon DEF Calling, CallType, PCs

\* What a new call has not done yet.
LEMMA StartIs ==
    ASSUME NEW op, NEW n
    PROVE  /\ Calling(op, n).pc = "enter" /\ Calling(op, n).waited = 0
           /\ Calling(op, n).looked = FALSE /\ Calling(op, n).last = {}
  BY Zenon DEF Calling, Idle

\* A function that returns leaves no call behind, or printf() makes the next one.
LEMMA LeaveCall ==
    ASSUME Types, NEW c \in Contexts, NEW s, Leave(c, s)
    PROVE  /\ call'[c] \in CallType
           /\ call'[c].pc \in {"idle", "enter"}
           /\ call'[c].waited = 0 /\ call'[c].looked = FALSE /\ call'[c].last = {}
  <1>1. call'[c] = After(call[c])
    BY Zenon DEF Leave, Types
  <1>2. CASE After(call[c]) = Idle
    <2>1. /\ Idle.pc = "idle" /\ Idle.waited = 0 /\ Idle.looked = FALSE /\ Idle.last = {}
      BY Zenon DEF Idle
    <2> QED BY <1>1, <1>2, <2>1, IdleIsCall, Zenon
  <1>3. CASE After(call[c]) # Idle
    <2>1. call[c].left > 1 /\ After(call[c]) = Calling("putchar", call[c].left - 1)
      BY <1>3, Zenon DEF After
    <2>2. call[c].left \in Nat
      BY Zenon DEF Types, CallType
    <2>3. call[c].left - 1 \in Nat
      BY <2>1, <2>2
    <2>4. "putchar" \in Ops
      BY Zenon DEF Ops
    <2>5. After(call[c]) \in CallType
      BY <2>1, <2>3, <2>4, StartIsCall, Zenon
    <2> QED BY <1>1, <2>1, <2>5, StartIs, Zenon
  <1> QED BY <1>2, <1>3, Zenon

\* A function that returns (RET with SREG restored, or reti) keeps the types.
LEMMA LeaveTypes ==
    ASSUME Types, NEW c \in Contexts, NEW s \in BOOLEAN, Leave(c, s)
    PROVE  call' \in [Contexts -> CallType] /\ intr' \in BOOLEAN
  <1>1. call' \in [Contexts -> CallType]
    <2>1. call' = [call EXCEPT ![c] = After(call[c])] /\ call'[c] = After(call[c])
      BY Zenon DEF Types, Leave
    <2>2. After(call[c]) \in CallType
      BY <2>1, LeaveCall, Zenon
    <2> QED BY <2>1, <2>2, Replaced, Zenon DEF Types
  <1>2. intr' \in BOOLEAN
    BY Zenon DEF Leave
  <1> QED BY <1>1, <1>2, Zenon

\* The state that usb_configure() leaves is well typed.
LEMMA InitTypes == Init => Types
  <1>1. FrameMod \in Nat /\ FrameMod > 3
    BY MegaUsbAssumption, Zenon
  <1> QED BY <1>1, IdleIsCall DEF Init, Types

\* Only the place of a call changes.
LEMMA GoesTypes ==
    ASSUME Types, NEW c \in Contexts, NEW to \in PCs, Goes(c, to)
    PROVE  call' \in [Contexts -> CallType]
  BY DEF Types, Goes, CallType

\* A packet that was moved, the last one or not, keeps the types.
LEMMA MovedTypes ==
    ASSUME Types, NEW c \in Contexts, NEW s \in Nat, Moved(c, s)
    PROVE  call' \in [Contexts -> CallType] /\ intr' \in BOOLEAN
  <1>1. CASE call[c].left = 1 /\ Leave(c, call[c].sreg)
    <2>1. call[c].sreg \in BOOLEAN
      BY Zenon DEF Types, CallType
    <2> QED BY <1>1, <2>1, LeaveTypes, Zenon
  <1>2. CASE ~(call[c].left = 1 /\ Leave(c, call[c].sreg))
    <2>1. /\ call[c].left > 1
          /\ call' = [call EXCEPT ![c].left = @ - 1, ![c].timeout = Deadline, ![c].waited = 0,
                                  ![c].held = FALSE, ![c].looked = FALSE,
                                  ![c].last = {s}, ![c].again = FALSE]
          /\ intr' = intr
      BY <1>2, Zenon DEF Moved
    <2>2. Deadline \in 0..(FrameMod - 1)
      BY DeadlineIsFrame, Zenon DEF Types
    <2>3. call[c] \in CallType
      BY ZenonT(60) DEF Types
    <2>4. call[c].left - 1 \in Nat /\ {s} \in SUBSET Nat
      BY <2>1, <2>3, SMTT(60) DEF CallType
    <2>5. \A d \in Contexts : call'[d] \in CallType
      <3> TAKE d \in Contexts
      <3>1. CASE d # c
        BY <2>1, <3>1, Zenon DEF Types
      <3>2. CASE d = c
        <4>1. call'[d] = [call[c] EXCEPT !.left = call[c].left - 1, !.timeout = Deadline,
                                         !.waited = 0, !.held = FALSE, !.looked = FALSE,
                                         !.last = {s}, !.again = FALSE]
          BY <2>1, <2>3, <3>2, Zenon DEF Types, CallType
        <4> DEFINE r == [call[c] EXCEPT !.left = call[c].left - 1, !.timeout = Deadline,
                                        !.waited = 0]
        <4>2. r \in CallType
          BY <2>2, <2>3, <2>4, Zenon DEF CallType
        <4>3. call'[d] = [r EXCEPT !.held = FALSE, !.looked = FALSE,
                                   !.last = {s}, !.again = FALSE]
          BY <2>3, <4>1, Zenon
        <4> HIDE DEF r
        <4> QED BY <2>4, <4>2, <4>3, ZenonT(60) DEF CallType
      <3> QED BY <3>1, <3>2, Zenon
    <2>6. call' \in [Contexts -> CallType]
      BY <2>1, <2>5, Zenon DEF Types
    <2> QED BY <2>1, <2>6, Zenon DEF Types
  <1> QED BY <1>1, <1>2, Zenon

\* The driver steps keep the types.
LEMMA StepTypes ==
    ASSUME Types, NEW c \in Contexts, Step(c)
    PROVE  Types'
  <1>0. call[c] \in CallType /\ call[c].sreg \in BOOLEAN /\ intr \in BOOLEAN
    BY Zenon DEF Types, CallType
  <1>1. CASE Enter(c)
    <2>1. UNCHANGED <<UDFNUML, received, fill, debug_flush_timer, session>>
      BY <1>1, Zenon DEF Enter, banks
    <2>2. CASE Leave(c, intr)
      BY <1>0, <2>1, <2>2, LeaveTypes, Zenon DEF Types
    <2>3. CASE ~Leave(c, intr)
      <3>1. /\ intr' = FALSE
            /\ call' = [call EXCEPT ![c].pc = "poll", ![c].timeout = Deadline, ![c].sreg = intr]
        BY <1>1, <2>3, Zenon DEF Enter
      <3>2. Deadline \in 0..(FrameMod - 1)
        BY DeadlineIsFrame, Zenon DEF Types
      <3>3. call' \in [Contexts -> CallType]
        BY <1>0, <3>1, <3>2, Zenon DEF Types, CallType, PCs
      <3> QED BY <2>1, <3>1, <3>3, Zenon DEF Types
    <2> QED BY <2>2, <2>3, Zenon
  <1>2. CASE NotReady(c)
    <2>1. Goes(c, "late") /\ intr' = call[c].sreg
      BY <1>2, Zenon DEF NotReady
    <2>2. call' \in [Contexts -> CallType]
      BY <2>1, GoesTypes, Zenon DEF PCs
    <2> QED BY <1>0, <1>2, <2>1, <2>2, Zenon DEF NotReady, Types, banks, driver
  <1>3. CASE Receives(c)
    <2>1. Moved(c, received) /\ received \in Nat
      BY <1>3, Zenon DEF Receives, Types
    <2> QED BY <1>3, <2>1, MovedTypes, Zenon DEF Receives, Types, driver
  <1>4. CASE Transmits(c)
    <2>1. Moved(c, session) /\ session \in Nat
      BY <1>4, Zenon DEF Transmits, Types
    <2> QED BY <1>4, <2>1, MovedTypes, Zenon DEF Transmits, Types, driver
  <1>5. CASE Puts(c)
    <2>1. Leave(c, call[c].sreg) /\ UNCHANGED <<UDFNUML, received, session>>
      BY <1>5, Zenon DEF Puts
    <2>2. fill' \in Nat /\ debug_flush_timer' \in Nat
      BY <1>5 DEF Puts, Types
    <2> QED BY <1>0, <2>1, <2>2, LeaveTypes, Zenon DEF Types
  <1>6. CASE Late(c)
    <2>1. UNCHANGED <<UDFNUML, received, fill, debug_flush_timer, session>>
      BY <1>6, Zenon DEF Late, banks
    <2>2. CASE Leave(c, intr)
      BY <1>0, <2>1, <2>2, LeaveTypes, Zenon DEF Types
    <2>3. CASE ~Leave(c, intr)
      <3>1. /\ intr' = intr
            /\ call' = [call EXCEPT ![c].pc = "online", ![c].looked = TRUE]
        BY <1>6, <2>3, Zenon DEF Late
      <3>2. call' \in [Contexts -> CallType]
        BY <1>0, <3>1, Zenon DEF Types, CallType, PCs
      <3> QED BY <2>1, <3>1, <3>2, Zenon DEF Types
    <2> QED BY <2>2, <2>3, Zenon
  <1>7. CASE Online(c)
    <2>1. UNCHANGED <<UDFNUML, received, fill, debug_flush_timer, session>>
      BY <1>7, Zenon DEF Online, banks, driver
    <2>2. CASE Leave(c, intr)
      BY <1>0, <2>1, <2>2, LeaveTypes, Zenon DEF Types
    <2>3. CASE ~Leave(c, intr)
      <3>1. Goes(c, "select") /\ intr' = intr
        BY <1>7, <2>3, Zenon DEF Online
      <3>2. call' \in [Contexts -> CallType]
        BY <3>1, GoesTypes, Zenon DEF PCs
      <3> QED BY <2>1, <3>1, <3>2, Zenon DEF Types
    <2> QED BY <2>2, <2>3, Zenon
  <1>8. CASE Select(c)
    <2>1. /\ intr' = FALSE
          /\ call' = [call EXCEPT ![c].pc = "poll", ![c].sreg = intr]
          /\ UNCHANGED <<UDFNUML, received, fill, debug_flush_timer, session>>
      BY <1>8, Zenon DEF Select, banks, driver
    <2>2. call' \in [Contexts -> CallType]
      BY <1>0, <2>1, Zenon DEF Types, CallType, PCs
    <2> QED BY <2>1, <2>2, Zenon DEF Types
  <1> QED BY <1>1, <1>2, <1>3, <1>4, <1>5, <1>6, <1>7, <1>8, Zenon DEF Step

\* SET_CONFIGURATION and a frame mark the calls and keep the rest of them.
LEMMA MarkTypes ==
    ASSUME Types, SetConfiguration \/ Tick
    PROVE  call' \in [Contexts -> CallType]
  <1>1. CASE SetConfiguration
    <2>1. \A d \in Contexts : call'[d] = IF call[d].pc = "idle" THEN Idle
                                         ELSE [call[d] EXCEPT !.again = @ \/ open]
      BY <1>1, Zenon DEF SetConfiguration
    <2>2. \A d \in Contexts : [call[d] EXCEPT !.again = @ \/ open] \in CallType
      BY Zenon DEF Types, CallType
    <2>3. \A d \in Contexts : call'[d] \in CallType
      BY <2>1, <2>2, IdleIsCall, Zenon
    <2> QED BY <1>1, <2>3, Zenon DEF SetConfiguration
  <1>2. CASE Tick
    <2>1. \A d \in Contexts :
              call'[d] = IF ~Waiting(d) THEN call[d]
                         ELSE [call[d] EXCEPT !.looked = FALSE, !.held = @ \/ running # d,
                                 !.waited = IF @ > LF_USB_TIMEOUT_MS THEN @ ELSE @ + 1]
      BY <1>2, Zenon DEF Tick
    <2>2. \A d \in Contexts :
              [call[d] EXCEPT !.looked = FALSE, !.held = @ \/ running # d,
                              !.waited = IF @ > LF_USB_TIMEOUT_MS THEN @ ELSE @ + 1] \in CallType
      <3> SUFFICES ASSUME NEW d \in Contexts
                   PROVE  [call[d] EXCEPT !.looked = FALSE, !.held = @ \/ running # d,
                              !.waited = IF @ > LF_USB_TIMEOUT_MS THEN @ ELSE @ + 1] \in CallType
        BY Zenon
      <3> DEFINE w == IF call[d].waited > LF_USB_TIMEOUT_MS THEN call[d].waited
                      ELSE call[d].waited + 1
                 h == call[d].held \/ running # d
      <3>1. call[d] \in CallType
        BY Zenon DEF Types
      <3>2. w \in Nat /\ h \in BOOLEAN
        BY <3>1 DEF CallType, LF_USB_TIMEOUT_MS
      <3> HIDE DEF w, h
      <3>3. [call[d] EXCEPT !.looked = FALSE, !.held = h, !.waited = w] \in CallType
        BY <3>1, <3>2, Zenon DEF CallType
      <3> QED BY <3>1, <3>3, Zenon DEF w, h, CallType
    <2>3. \A d \in Contexts : call'[d] \in CallType
      BY <2>1, <2>2, ZenonT(60) DEF Types
    <2> QED BY <1>2, <2>3, Zenon DEF Tick
  <1> QED BY <1>1, <1>2, Zenon

\* Every step of the driver, the interrupt routines, the bus and the host keeps
\* the types.
LEMMA NextTypes ==
    ASSUME Types, [Next]_vars
    PROVE  Types'
  <1>1. CASE UNCHANGED vars
    BY <1>1, Zenon DEF vars, Types, cpu, banks, driver
  <1>2. CASE Calls
    <2>1. PICK op \in Ops, n \in Nat : Call(op, n)
      BY <1>2, MegaUsbAssumption, Zenon DEF Calls, Transfers, Ops
    <2>2. "main" \in Contexts
      BY MegaUsbAssumption, Zenon
    <2>3. call' \in [Contexts -> CallType]
      BY <2>1, <2>2, Replaced, StartIsCall, Zenon DEF Call, Types
    <2> QED BY <2>1, <2>3, Zenon DEF Call, Types, cpu, banks, driver
  <1>3. CASE \E c \in Contexts : Step(c)
    BY <1>3, StepTypes, Zenon
  <1>4. CASE Gen \/ Answer
    <2>1. intr' \in BOOLEAN
      BY <1>4, Zenon DEF Gen, Answer, Interrupted
    <2> QED BY <1>4, <2>1, Zenon DEF Gen, Answer, Types, banks, driver
  <1>5. CASE GenBody
    <2>1. intr' \in BOOLEAN
      BY <1>5, Zenon DEF GenBody, Returns
    <2>2. fill' \in Nat /\ debug_flush_timer' \in Nat
      BY <1>5 DEF GenBody, Types
    <2> QED BY <1>5, <2>1, <2>2, Zenon DEF GenBody, Types
  <1>6. CASE Answering
    <2>1. intr' \in BOOLEAN
      BY <1>6, Zenon DEF Answering, Returns
    <2> QED BY <1>6, <2>1, Zenon DEF Answering, Types, banks, driver
  <1>7. CASE SetConfiguration
    <2>1. call' \in [Contexts -> CallType]
      BY <1>7, MarkTypes, Zenon
    <2> QED BY <1>7, <2>1 DEF SetConfiguration, Served, Types
  <1>8. CASE Feature
    BY <1>8 DEF Feature, Served, Types, driver
  <1>9. CASE Stall
    BY <1>9, Zenon DEF Stall, Served, Types, banks, driver
  <1>10. CASE Uart
    <2>1. PICK n \in Nat : call' = [call EXCEPT !["uart"] = Calling("putchar", n)]
      BY <1>10, MegaUsbAssumption, Zenon DEF Uart
    <2>2. "uart" \in Contexts /\ "putchar" \in Ops
      BY <1>10, Zenon DEF Uart, Ops
    <2>3. call' \in [Contexts -> CallType]
      BY <2>1, <2>2, Replaced, StartIsCall, Zenon DEF Types
    <2>4. intr' \in BOOLEAN
      BY <1>10, Zenon DEF Uart, Interrupted
    <2> QED BY <1>10, <2>3, <2>4, Zenon DEF Uart, Types, banks, driver
  <1>11. CASE Tick
    <2>1. call' \in [Contexts -> CallType]
      BY <1>11, MarkTypes, Zenon
    <2>2. UDFNUML' \in 0..(FrameMod - 1)
      <3>1. FrameMod \in Nat /\ FrameMod > 3
        BY MegaUsbAssumption, Zenon
      <3>2. UDFNUML' = IF UDFNUML + 1 < FrameMod THEN UDFNUML + 1 ELSE UDFNUML + 1 - FrameMod
        <4>1. UDFNUML \in 0..(FrameMod - 1) /\ 1 \in 0..3
          BY DEF Types
        <4>2. (UDFNUML + 1) % FrameMod
                  = IF UDFNUML + 1 < FrameMod THEN UDFNUML + 1 ELSE UDFNUML + 1 - FrameMod
          BY <4>1, Wraps, Zenon
        <4> QED BY <1>11, <4>2, Zenon DEF Tick
      <3> QED BY <3>1, <3>2 DEF Types
    <2> QED BY <1>11, <2>1, <2>2, Zenon DEF Tick, Types, cpu, banks, driver
  <1>12. CASE Host
    <2>1. UNCHANGED <<intr, UDFNUML, debug_flush_timer, call, session>>
      BY <1>12, Zenon DEF Host, BusReset, HostSends, Setup, HostTakes, cpu, driver
    <2>2. received' \in Nat /\ fill' \in Nat
      BY <1>12 DEF Host, BusReset, HostSends, Setup, HostTakes, banks, Types
    <2> QED BY <2>1, <2>2, Zenon DEF Types
  <1> QED BY <1>1, <1>2, <1>3, <1>4, <1>5, <1>6, <1>7, <1>8, <1>9, <1>10, <1>11, <1>12, Zenon
          DEF Next, Com
-----------------------------------------------------------------------------
(***************************************************************************)
(* The endpoint in use.  Only the context that runs can be about to touch  *)
(* a FIFO, and then the interrupt flag is clear, so no routine comes in    *)
(* between the selection and the use.                                      *)
(***************************************************************************)
\* What a frame changes in a call.
LEMMA TickCall ==
    ASSUME Types, Tick, NEW d \in Contexts
    PROVE  /\ call'[d].pc = call[d].pc /\ call'[d].op = call[d].op
           /\ call'[d].timeout = call[d].timeout
           /\ call'[d].last = call[d].last /\ call'[d].again = call[d].again
           /\ ~Waiting(d) => call'[d] = call[d]
           /\ Waiting(d) =>
                  /\ call'[d].looked = FALSE
                  /\ call'[d].held = (call[d].held \/ running # d)
                  /\ call'[d].waited = IF call[d].waited > LF_USB_TIMEOUT_MS
                                       THEN call[d].waited ELSE call[d].waited + 1
  <1> DEFINE w == IF call[d].waited > LF_USB_TIMEOUT_MS THEN call[d].waited ELSE call[d].waited + 1
             h == call[d].held \/ running # d
  <1>1. call[d] \in CallType
    BY Zenon DEF Types
  <1>2. ~Waiting(d) => call'[d] = call[d]
    BY Zenon DEF Tick
  <1>3. Waiting(d) => call'[d] = [call[d] EXCEPT !.looked = FALSE, !.held = h, !.waited = w]
    BY Zenon DEF Tick
  <1> HIDE DEF w, h
  <1>4. CASE Waiting(d)
    <2>1. /\ call'[d].pc = call[d].pc /\ call'[d].op = call[d].op
          /\ call'[d].timeout = call[d].timeout
          /\ call'[d].last = call[d].last /\ call'[d].again = call[d].again
          /\ call'[d].looked = FALSE /\ call'[d].held = h /\ call'[d].waited = w
      BY <1>1, <1>3, <1>4, Zenon DEF CallType
    <2> QED BY <1>4, <2>1, Zenon DEF w, h
  <1> QED BY <1>2, <1>4, Zenon

\* A step of c leaves the calls of the other contexts alone.
LEMMA StepOthers ==
    ASSUME Types, NEW c \in Contexts, Step(c)
    PROVE  \A d \in Contexts \ {c} : call'[d] = call[d]
  <1>1. CASE Enter(c)
    BY <1>1, Zenon DEF Enter, Leave, Types
  <1>2. CASE Receives(c) \/ Transmits(c)
    BY <1>2, Zenon DEF Receives, Transmits, Moved, Leave, Types
  <1>3. CASE Puts(c)
    BY <1>3, Zenon DEF Puts, Leave, Types
  <1>4. CASE Late(c)
    BY <1>4, Zenon DEF Late, Leave, Types
  <1>5. CASE NotReady(c) \/ Online(c) \/ Select(c)
    BY <1>5, Zenon DEF NotReady, Online, Select, Goes, Leave, Types
  <1> QED BY <1>1, <1>2, <1>3, <1>4, <1>5, Zenon DEF Step

\* A step of the driver touches a FIFO only after cli() and its own selection.
LEMMA StepOwn ==
    ASSUME Types, OwnEndpoint, NEW c \in Contexts, Step(c)
    PROVE  OwnEndpoint'
  <1>1. running = c
    BY Zenon DEF Step, Enter, NotReady, Receives, Transmits, Puts, Late, Online, Select, Goes, Runs
  <1>2. \A d \in Contexts \ {c} : call[d].pc # "poll"
    BY <1>1, Zenon DEF OwnEndpoint
  <1>3. \A d \in Contexts \ {c} : call'[d] = call[d]
    BY StepOthers, Zenon
  <1>a. \A d \in Contexts : d # c => call'[d].pc # "poll"
    BY <1>2, <1>3, Zenon
  <1>4. SUFFICES ASSUME call'[c].pc = "poll"
                 PROVE  running' = c /\ ~intr' /\ UENUM' = Endpoint[call'[c].op]
    BY <1>a, Zenon DEF OwnEndpoint
  <1>5. ASSUME NEW s, Leave(c, s)
        PROVE  FALSE
    BY <1>4, <1>5, LeaveCall, Zenon
  <1>6. CASE Enter(c)
    <2>1. /\ UENUM' = Endpoint[call[c].op] /\ intr' = FALSE /\ running' = running
          /\ call' = [call EXCEPT ![c].pc = "poll", ![c].timeout = Deadline, ![c].sreg = intr]
      BY <1>5, <1>6, Zenon DEF Enter
    <2>2. call'[c].op = call[c].op
      BY <2>1 DEF Types, CallType
    <2> QED BY <1>1, <2>1, <2>2, Zenon
  <1>7. CASE Receives(c) \/ Transmits(c)
    <2>1. call[c].pc = "poll" /\ UENUM' = UENUM
      BY <1>7, Zenon DEF Receives, Transmits
    <2>2. PICK s : Moved(c, s)
      BY <1>7, Zenon DEF Receives, Transmits
    <2>3. /\ intr' = intr /\ running' = running
          /\ call' = [call EXCEPT ![c].left = @ - 1, ![c].timeout = Deadline, ![c].waited = 0,
                                  ![c].held = FALSE, ![c].looked = FALSE,
                                  ![c].last = {s}, ![c].again = FALSE]
      BY <1>5, <2>2, ZenonT(60) DEF Moved
    <2>4. call'[c].op = call[c].op
      BY <2>3 DEF Types, CallType
    <2> QED BY <1>1, <2>1, <2>3, <2>4, Zenon DEF OwnEndpoint
  <1>8. CASE Select(c)
    <2>1. /\ UENUM' = Endpoint[call[c].op] /\ intr' = FALSE /\ running' = running
          /\ call' = [call EXCEPT ![c].pc = "poll", ![c].sreg = intr]
      BY <1>8, Zenon DEF Select
    <2>2. call'[c].op = call[c].op
      BY <2>1 DEF Types, CallType
    <2> QED BY <1>1, <2>1, <2>2, Zenon
  <1>9. CASE NotReady(c) \/ Puts(c) \/ Late(c) \/ Online(c)
    BY <1>4, <1>5, <1>9, ZenonT(60) DEF NotReady, Puts, Late, Online, Goes, Types, CallType
  <1> QED BY <1>6, <1>7, <1>8, <1>9, Zenon DEF Step

\* No call is about to touch a FIFO while the flag is set or a routine runs.
LEMMA NonePolls ==
    ASSUME Types, OwnEndpoint, intr \/ running \notin Contexts
    PROVE  \A c \in Contexts : call[c].pc # "poll"
  BY Zenon DEF OwnEndpoint

\* No interrupt routine, frame or host request comes between a selection and
\* the use of the endpoint.
LEMMA NextOwn ==
    ASSUME Types, OwnEndpoint, [Next]_vars
    PROVE  OwnEndpoint'
  <1>1. CASE UNCHANGED vars
    BY <1>1, Zenon DEF vars, cpu, OwnEndpoint
  <1>2. CASE \E c \in Contexts : Step(c)
    BY <1>2, StepOwn, Zenon
  <1>3. CASE Host \/ Tick
    <2>1. UNCHANGED <<intr, running, UENUM>>
      BY <1>3, Zenon DEF Host, BusReset, HostSends, Setup, HostTakes, Tick, cpu
    <2>2. \A c \in Contexts : call'[c].pc = call[c].pc /\ call'[c].op = call[c].op
      <3>1. CASE Tick
        BY <3>1, TickCall, Zenon
      <3>2. CASE Host
        BY <3>2, Zenon DEF Host, BusReset, HostSends, Setup, HostTakes
      <3> QED BY <1>3, <3>1, <3>2, Zenon
    <2> QED BY <2>1, <2>2, Zenon DEF OwnEndpoint
  <1>4. CASE Calls
    <2>1. PICK op, n : Call(op, n)
      BY <1>4, Zenon DEF Calls
    <2>2. call'["main"].pc = "enter" /\ \A d \in Contexts \ {"main"} : call'[d] = call[d]
      BY <2>1, StartIs, MegaUsbAssumption, Zenon DEF Call, Types
    <2>3. UNCHANGED <<intr, running, UENUM>>
      BY <2>1, Zenon DEF Call, cpu
    <2> QED BY <2>2, <2>3, Zenon DEF OwnEndpoint
  <1>5. CASE Gen \/ Com \/ Uart
    <2>1. intr
      BY <1>5, Zenon DEF Gen, Com, Answer, SetConfiguration, Feature, Stall, Uart, Interrupted, Served
    <2>2. \A c \in Contexts : call[c].pc # "poll"
      BY <2>1, NonePolls, Zenon
    <2>3. \A c \in Contexts : call'[c].pc # "poll"
      <3>1. CASE Uart
        <4>1. PICK n : call' = [call EXCEPT !["uart"] = Calling("putchar", n)]
          BY <3>1, Zenon DEF Uart
        <4>2. Calling("putchar", n).pc # "poll"
          BY StartIs, Zenon
        <4> QED BY <2>2, <4>1, <4>2, Zenon DEF Types
      <3>2. CASE SetConfiguration
        BY <2>2, <3>2, ZenonT(60) DEF SetConfiguration, Types, CallType, Idle
      <3>3. CASE Gen \/ Answer \/ Feature \/ Stall
        BY <2>2, <3>3, Zenon DEF Gen, Answer, Feature, Stall
      <3> QED BY <1>5, <3>1, <3>2, <3>3, Zenon DEF Com
    <2> QED BY <2>3, Zenon DEF OwnEndpoint
  <1>6. CASE GenBody \/ Answering
    <2>1. running \notin Contexts
      BY <1>6, MegaUsbAssumption, Zenon DEF GenBody, Answering, Returns
    <2>2. \A c \in Contexts : call'[c].pc # "poll"
      BY <1>6, <2>1, NonePolls, Zenon DEF GenBody, Answering
    <2> QED BY <2>2, Zenon DEF OwnEndpoint
  <1> QED BY <1>1, <1>2, <1>3, <1>4, <1>5, <1>6, Zenon DEF Next

\* Whoever touches a FIFO register has selected the endpoint it means and cannot
\* be interrupted, for every interleaving of the contexts, the two USB interrupt
\* routines and the bus (bulk.c:40, bulk.c:98, debug.c:43).
THEOREM EndpointsAreOwn == Spec => []OwnEndpoint
  <1>1. Init => Types /\ OwnEndpoint
    <2>1. Init => OwnEndpoint
      BY DEF Init, OwnEndpoint, Idle
    <2> QED BY <2>1, InitTypes, Zenon
  <1>2. Types /\ OwnEndpoint /\ [Next]_vars => (Types /\ OwnEndpoint)'
    BY NextTypes, NextOwn, Zenon
  <1> QED BY <1>1, <1>2, PTL DEF Spec
-----------------------------------------------------------------------------
(***************************************************************************)
(* The debug bank.  A putchar writes to the debug endpoint because it is   *)
(* the selected one; the bank of a disabled endpoint is empty, so that the *)
(* frame interrupt that finds the timer at its end finds a bank to send.   *)
(***************************************************************************)
FlushInv == FlushArmed /\ (~open => fill = 0)

\* Every step keeps a timer running for the unsent bytes of the debug bank.
LEMMA NextFlush ==
    ASSUME Types, OwnEndpoint, FlushInv, [Next]_vars
    PROVE  FlushInv'
  <1>1. CASE /\ UNCHANGED <<open, fill, debug_flush_timer, megausb_configuration>>
             /\ DEBUG_IN \in busy' => DEBUG_IN \in busy
    BY <1>1, Zenon DEF FlushInv, FlushArmed
  <1>2. CASE UNCHANGED vars
    BY <1>1, <1>2, Zenon DEF vars, banks, driver
  <1>3. ASSUME NEW c \in Contexts, Step(c), ~Puts(c)
        PROVE  FlushInv'
    <2>1. UNCHANGED <<open, fill, debug_flush_timer, megausb_configuration>>
      BY <1>3, Zenon DEF Step, Enter, NotReady, Receives, Transmits, Late, Online, Select, banks, driver
    <2>2. CASE Transmits(c)
      <3>1. busy' = busy \cup {BULK_IN} /\ BULK_IN # DEBUG_IN
        BY <2>2 DEF Transmits, BULK_IN, DEBUG_IN
      <3> QED BY <1>1, <2>1, <3>1, Zenon
    <2>3. CASE ~Transmits(c)
      <3>1. busy' = busy
        BY <1>3, <2>3, Zenon DEF Step, Enter, NotReady, Receives, Late, Online, Select, banks
      <3> QED BY <1>1, <2>1, <3>1, Zenon
    <2> QED BY <2>2, <2>3, Zenon
  <1>4. ASSUME NEW c \in Contexts, Puts(c)
        PROVE  FlushInv'
    <2>1. call[c].pc = "poll" /\ call[c].op = "putchar" /\ RWAL(UENUM)
      BY <1>4, Zenon DEF Puts
    <2>2. UENUM = DEBUG_IN
      BY <2>1 DEF OwnEndpoint, Endpoint
    <2>3. open /\ DEBUG_IN \notin busy
      BY <2>1, <2>2 DEF RWAL, BULK_IN, BULK_OUT, DEBUG_IN
    <2>4. open' = open
      BY <1>4, Zenon DEF Puts
    <2>5. \/ fill' = 0 /\ debug_flush_timer' = 0
          \/ fill' = fill + 1 /\ busy' = busy /\ debug_flush_timer' = 2
      BY <1>4, Zenon DEF Puts
    <2> QED BY <2>3, <2>4, <2>5 DEF FlushInv, FlushArmed, Types
  <1>5. CASE GenBody
    <2>1. CASE "EORST" \in seen
      <3>1. ~megausb_configuration' /\ UNCHANGED <<open, fill>>
        BY <1>5, <2>1, Zenon DEF GenBody
      <3> QED BY <3>1, Zenon DEF FlushInv, FlushArmed
    <2>2. CASE /\ "EORST" \notin seen /\ "SOF" \in seen
               /\ megausb_configuration /\ debug_flush_timer > 0
      <3>1. /\ debug_flush_timer' = debug_flush_timer - 1
            /\ open' = open
            /\ IF debug_flush_timer = 1 /\ RWAL(DEBUG_IN)
               THEN fill' = 0 /\ busy' = busy \cup {DEBUG_IN}
               ELSE UNCHANGED <<fill, busy>>
        BY <1>5, <2>2, Zenon DEF GenBody
      <3>2. DEBUG_IN \notin busy
        BY <2>2, Zenon DEF FlushInv, FlushArmed
      <3>3. RWAL(DEBUG_IN) \/ fill = 0
        BY <3>2, Zenon DEF RWAL, FlushInv
      <3>4. CASE debug_flush_timer = 1
        <4>1. fill' = 0 /\ debug_flush_timer' = 0
          BY <3>1, <3>3, <3>4
        <4> QED BY <4>1 DEF FlushInv, FlushArmed
      <3>5. CASE debug_flush_timer # 1
        <4>1. debug_flush_timer' > 0 /\ UNCHANGED <<fill, busy, open>>
          BY <2>2, <3>1, <3>5 DEF Types
        <4> QED BY <3>2, <4>1, Zenon DEF FlushInv, FlushArmed
      <3> QED BY <3>4, <3>5, Zenon
    <2>3. CASE /\ "EORST" \notin seen
               /\ ~("SOF" \in seen /\ megausb_configuration /\ debug_flush_timer > 0)
      <3>1. UNCHANGED <<open, fill, busy, debug_flush_timer>>
        BY <1>5, <2>3, Zenon DEF GenBody
      <3>2. megausb_configuration' => megausb_configuration
        BY <1>5, <2>3, Zenon DEF GenBody
      <3> QED BY <3>1, <3>2, Zenon DEF FlushInv, FlushArmed
    <2> QED BY <2>1, <2>2, <2>3, Zenon
  <1>6. CASE SetConfiguration
    BY <1>6 DEF SetConfiguration, FlushInv, FlushArmed
  <1>7. CASE Feature
    BY <1>7 DEF Feature, FlushInv, FlushArmed, driver
  <1>8. CASE BusReset
    BY <1>8 DEF BusReset, FlushInv, FlushArmed
  <1>9. CASE Calls \/ Gen \/ Answer \/ Stall \/ Answering \/ Uart \/ Tick
    <2>1. UNCHANGED <<open, fill, busy, debug_flush_timer, megausb_configuration>>
      BY <1>9, Zenon DEF Calls, Call, Gen, Answer, Stall, Answering, Uart, Tick, banks, driver
    <2> QED BY <1>1, <2>1, Zenon
  <1>10. CASE HostSends \/ (\E r \in Request : Setup(r)) \/ (\E e \in busy : HostTakes(e))
    <2>1. UNCHANGED <<open, fill, debug_flush_timer, megausb_configuration>>
      BY <1>10, Zenon DEF HostSends, Setup, HostTakes, banks, driver
    <2>2. busy' \subseteq busy
      BY <1>10, Zenon DEF HostSends, Setup, HostTakes, banks
    <2> QED BY <1>1, <2>1, <2>2, Zenon
  <1> QED BY <1>2, <1>3, <1>4, <1>5, <1>6, <1>7, <1>8, <1>9, <1>10, Zenon DEF Next, Com, Host

\* Debug bytes that are not sent yet have a running timer, and the timer never
\* runs out on a bank the host still has, whatever the main program, the UART
\* interrupt, resets and control requests do (debug.c:48, control.c:58).
THEOREM UnsentIsArmed == Spec => []FlushArmed
  <1>1. Init => Types /\ OwnEndpoint /\ FlushInv
    <2>1. Init => OwnEndpoint /\ FlushInv
      BY DEF Init, OwnEndpoint, Idle, FlushInv, FlushArmed
    <2> QED BY <2>1, InitTypes, Zenon
  <1>2. Types /\ OwnEndpoint /\ FlushInv /\ [Next]_vars => (Types /\ OwnEndpoint /\ FlushInv)'
    BY NextTypes, NextOwn, NextFlush, Zenon
  <1>3. FlushInv => FlushArmed
    BY Zenon DEF FlushInv
  <1> QED BY <1>1, <1>2, <1>3, PTL DEF Spec
-----------------------------------------------------------------------------
(***************************************************************************)
(* The length of a wait.  While no other routine has held the processor,   *)
(* the deadline is 3 - waited frames ahead, and a context that has looked  *)
(* at the frame number in this frame has frames left.                      *)
(***************************************************************************)
OnTime(c) ==
    /\ call[c].pc = "enter" => call[c].waited = 0 /\ ~call[c].looked
    /\ Waiting(c) /\ ~call[c].held =>
           /\ call[c].waited <= LF_USB_TIMEOUT_MS
           /\ call[c].timeout = (UDFNUML + (LF_USB_TIMEOUT_MS - call[c].waited)) % FrameMod
           /\ call[c].looked => call[c].waited < LF_USB_TIMEOUT_MS
WaitInv == \A c \in Contexts : OnTime(c)

\* A call that only moves within the wait stays on time.
LEMMA SameWait ==
    ASSUME NEW c \in Contexts, OnTime(c), UDFNUML' = UDFNUML,
           Waiting(c), call'[c].pc # "enter",
           call'[c].held = call[c].held, call'[c].waited = call[c].waited,
           call'[c].timeout = call[c].timeout, call'[c].looked = call[c].looked
    PROVE  OnTime(c)'
  BY Zenon DEF OnTime, Waiting

\* A fresh deadline is three frames ahead.
LEMMA FreshWait ==
    ASSUME NEW c \in Contexts, UDFNUML' = UDFNUML,
           call'[c].pc = "poll", call'[c].waited = 0, call'[c].timeout = Deadline,
           call'[c].looked = FALSE
    PROVE  OnTime(c)'
  <1>1. 0 <= LF_USB_TIMEOUT_MS /\ LF_USB_TIMEOUT_MS - 0 = LF_USB_TIMEOUT_MS
    BY DEF LF_USB_TIMEOUT_MS
  <1>2. call'[c].timeout = (UDFNUML' + (LF_USB_TIMEOUT_MS - call'[c].waited)) % FrameMod
    BY <1>1, Zenon DEF Deadline
  <1> QED BY <1>1, <1>2, Zenon DEF OnTime, Waiting

\* So does one that is not in a call, or at the beginning of one.
LEMMA NoWait ==
    ASSUME NEW c \in Contexts, call'[c].pc \in {"idle", "enter"},
           call'[c].waited = 0, call'[c].looked = FALSE
    PROVE  OnTime(c)'
  BY Zenon DEF OnTime, Waiting

\* A context that calls nothing is on time.
LEMMA IdleWait ==
    ASSUME NEW c \in Contexts, call'[c] = Idle
    PROVE  OnTime(c)'
  BY DEF OnTime, Waiting, Idle

\* A step of the driver keeps every wait on time: a deadline is computed three
\* frames ahead, and a look at the frame number that finds it ends the wait.
LEMMA StepWait ==
    ASSUME Types, WaitInv, NEW c \in Contexts, Step(c)
    PROVE  WaitInv'
  <1>1. UDFNUML' = UDFNUML
    BY Zenon DEF Step, Enter, NotReady, Receives, Transmits, Puts, Late, Online, Select
  <1>2. \A d \in Contexts \ {c} : call'[d] = call[d]
    BY StepOthers, Zenon
  <1>3. \A d \in Contexts : d # c => OnTime(d)'
    BY <1>1, <1>2, Zenon DEF WaitInv, OnTime, Waiting
  <1>4. SUFFICES OnTime(c)'
    BY <1>3, Zenon DEF WaitInv
  <1>5. OnTime(c) /\ call[c] \in CallType
    BY Zenon DEF WaitInv, Types
  <1>6. ASSUME NEW s, Leave(c, s)
        PROVE  OnTime(c)'
    BY <1>6, LeaveCall, NoWait, Zenon
  <1>7. CASE Enter(c)
    <2>1. CASE Leave(c, intr)
      BY <1>6, <2>1, Zenon
    <2>2. CASE ~Leave(c, intr)
      <3>1. /\ call[c].pc = "enter"
            /\ call' = [call EXCEPT ![c].pc = "poll", ![c].timeout = Deadline, ![c].sreg = intr]
        BY <1>7, <2>2, Zenon DEF Enter
      <3>2. call[c].waited = 0 /\ ~call[c].looked /\ call[c].looked \in BOOLEAN
        BY <1>5, <3>1, Zenon DEF OnTime, CallType
      <3>3. /\ call'[c].pc = "poll" /\ call'[c].timeout = Deadline
            /\ call'[c].waited = call[c].waited /\ call'[c].looked = call[c].looked
        BY <1>5, <3>1, Zenon DEF Types, CallType
      <3>4. call'[c].looked = FALSE
        BY <3>2, <3>3, Zenon
      <3> QED BY <1>1, <3>2, <3>3, <3>4, FreshWait, Zenon
    <2> QED BY <2>1, <2>2, Zenon
  <1>8. CASE Receives(c) \/ Transmits(c)
    <2>1. PICK s : Moved(c, s)
      BY <1>8, Zenon DEF Receives, Transmits
    <2>2. CASE \E z : Leave(c, z)
      BY <1>6, <2>2, Zenon
    <2>3. CASE ~\E z : Leave(c, z)
      <3>1. call' = [call EXCEPT ![c].left = @ - 1, ![c].timeout = Deadline, ![c].waited = 0,
                                 ![c].held = FALSE, ![c].looked = FALSE,
                                 ![c].last = {s}, ![c].again = FALSE]
        BY <2>1, <2>3, Zenon DEF Moved
      <3>2. call[c].pc = "poll"
        BY <1>8, Zenon DEF Receives, Transmits
      <3>3. /\ call'[c].pc = call[c].pc /\ call'[c].timeout = Deadline
            /\ call'[c].waited = 0 /\ call'[c].looked = FALSE
        BY <1>5, <3>1, Zenon DEF Types, CallType
      <3> QED BY <1>1, <3>2, <3>3, FreshWait, Zenon
    <2> QED BY <2>2, <2>3, Zenon
  <1>9. CASE Puts(c)
    <2>1. Leave(c, call[c].sreg)
      BY <1>9, Zenon DEF Puts
    <2> QED BY <1>6, <2>1, Zenon
  <1>10. CASE Late(c)
    <2>1. CASE Leave(c, intr)
      BY <1>6, <2>1, Zenon
    <2>2. CASE ~Leave(c, intr)
      <3>1. /\ call[c].pc = "late" /\ UDFNUML # call[c].timeout
            /\ call' = [call EXCEPT ![c].pc = "online", ![c].looked = TRUE]
        BY <1>10, <2>2, Zenon DEF Late
      <3>2. /\ call'[c].pc = "online" /\ call'[c].looked = TRUE
            /\ call'[c].waited = call[c].waited /\ call'[c].timeout = call[c].timeout
            /\ call'[c].held = call[c].held
        BY <1>5, <3>1, Zenon DEF Types, CallType
      <3>3. ASSUME ~call[c].held
            PROVE  call[c].waited < LF_USB_TIMEOUT_MS
        <4>1. /\ call[c].waited <= LF_USB_TIMEOUT_MS
              /\ call[c].timeout = (UDFNUML + (LF_USB_TIMEOUT_MS - call[c].waited)) % FrameMod
          BY <1>5, <3>1, <3>3, Zenon DEF OnTime, Waiting
        <4>2. CASE call[c].waited = LF_USB_TIMEOUT_MS
          <5>1. call[c].timeout = (UDFNUML + 0) % FrameMod
            BY <4>1, <4>2 DEF LF_USB_TIMEOUT_MS
          <5>2. UDFNUML \in 0..(FrameMod - 1) /\ 0 \in 0..3
            BY DEF Types
          <5>3. (UDFNUML + 0) % FrameMod
                    = IF UDFNUML + 0 < FrameMod THEN UDFNUML + 0 ELSE UDFNUML + 0 - FrameMod
            BY <5>2, Wraps, Zenon
          <5>4. FrameMod \in Nat /\ FrameMod > 3
            BY MegaUsbAssumption, Zenon
          <5>5. (UDFNUML + 0) % FrameMod = UDFNUML
            BY <5>2, <5>3, <5>4
          <5> QED BY <3>1, <5>1, <5>5, Zenon
        <4> QED BY <1>5, <4>1, <4>2 DEF CallType, LF_USB_TIMEOUT_MS
      <3> QED BY <1>1, <1>5, <3>1, <3>2, <3>3, Zenon DEF OnTime, Waiting
    <2> QED BY <2>1, <2>2, Zenon
  <1>11. CASE Online(c)
    <2>1. CASE Leave(c, intr)
      BY <1>6, <2>1, Zenon
    <2>2. CASE ~Leave(c, intr)
      <3>1. call[c].pc = "online" /\ call' = [call EXCEPT ![c].pc = "select"]
        BY <1>11, <2>2, Zenon DEF Online, Goes
      <3>2. /\ call'[c].pc = "select" /\ call'[c].looked = call[c].looked
            /\ call'[c].waited = call[c].waited /\ call'[c].timeout = call[c].timeout
            /\ call'[c].held = call[c].held
        BY <1>5, <3>1, Zenon DEF Types, CallType
      <3> QED BY <1>1, <1>5, <3>1, <3>2, SameWait, Zenon DEF Waiting
    <2> QED BY <2>1, <2>2, Zenon
  <1>12. CASE NotReady(c)
    <2>1. call[c].pc = "poll" /\ call' = [call EXCEPT ![c].pc = "late"]
      BY <1>12, Zenon DEF NotReady, Goes
    <2>2. /\ call'[c].pc = "late" /\ call'[c].looked = call[c].looked
          /\ call'[c].waited = call[c].waited /\ call'[c].timeout = call[c].timeout
          /\ call'[c].held = call[c].held
      BY <1>5, <2>1, Zenon DEF Types, CallType
    <2> QED BY <1>1, <1>5, <2>1, <2>2, SameWait, Zenon DEF Waiting
  <1>13. CASE Select(c)
    <2>1. call[c].pc = "select" /\ call' = [call EXCEPT ![c].pc = "poll", ![c].sreg = intr]
      BY <1>13, Zenon DEF Select
    <2>2. /\ call'[c].pc = "poll" /\ call'[c].looked = call[c].looked
          /\ call'[c].waited = call[c].waited /\ call'[c].timeout = call[c].timeout
          /\ call'[c].held = call[c].held
      BY <1>5, <2>1, Zenon DEF Types, CallType
    <2> QED BY <1>1, <1>5, <2>1, <2>2, SameWait, Zenon DEF Waiting
  <1> QED BY <1>7, <1>8, <1>9, <1>10, <1>11, <1>12, <1>13, Zenon DEF Step

\* A frame brings the deadline one nearer: the running context has looked, so
\* it had frames left; the others are held up.
LEMMA TickWait ==
    ASSUME Types, WaitInv, Tick
    PROVE  WaitInv'
  <1> SUFFICES ASSUME NEW c \in Contexts
               PROVE  OnTime(c)'
    BY Zenon DEF WaitInv
  <1>1. OnTime(c) /\ call[c] \in CallType
    BY Zenon DEF WaitInv, Types
  <1>2. CASE ~Waiting(c)
    <2>1. call'[c] = call[c]
      BY <1>2, TickCall, Zenon
    <2> QED BY <1>1, <1>2, <2>1, Zenon DEF OnTime, Waiting
  <1>3. CASE Waiting(c)
    <2>1. /\ call'[c].pc = call[c].pc /\ call'[c].timeout = call[c].timeout
          /\ call'[c].looked = FALSE
          /\ call'[c].held = (call[c].held \/ running # c)
          /\ call'[c].waited = IF call[c].waited > LF_USB_TIMEOUT_MS
                               THEN call[c].waited ELSE call[c].waited + 1
      BY <1>3, TickCall, Zenon
    <2>2. call[c].pc # "enter" /\ call[c].pc # "idle"
      BY <1>3, Zenon DEF Waiting
    <2>3. ASSUME ~call'[c].held
          PROVE  /\ call'[c].waited <= LF_USB_TIMEOUT_MS
                 /\ call'[c].timeout
                        = (UDFNUML' + (LF_USB_TIMEOUT_MS - call'[c].waited)) % FrameMod
      <3>1. ~call[c].held /\ running = c
        BY <2>1, <2>3, Zenon
      <3>2. call[c].looked
        BY <2>2, <3>1, Zenon DEF Tick
      <3>3. /\ call[c].waited < LF_USB_TIMEOUT_MS
            /\ call[c].timeout = (UDFNUML + (LF_USB_TIMEOUT_MS - call[c].waited)) % FrameMod
        BY <1>1, <1>3, <3>1, <3>2, ZenonT(60) DEF OnTime
      <3>4. call[c].waited \in 0..2 /\ call'[c].waited = call[c].waited + 1
        BY <1>1, <2>1, <3>3 DEF CallType, LF_USB_TIMEOUT_MS
      <3> DEFINE k == 2 - call[c].waited
      <3>5. k \in 0..2 /\ LF_USB_TIMEOUT_MS - call[c].waited = k + 1
                /\ LF_USB_TIMEOUT_MS - call'[c].waited = k
        BY <3>4 DEF LF_USB_TIMEOUT_MS
      <3> HIDE DEF k
      <3>6. UDFNUML \in 0..(FrameMod - 1) /\ UDFNUML' \in 0..(FrameMod - 1)
        BY NextTypes, Zenon DEF Types, Next
      <3>7. (UDFNUML + (k + 1)) % FrameMod
                = IF UDFNUML + (k + 1) < FrameMod THEN UDFNUML + (k + 1)
                  ELSE UDFNUML + (k + 1) - FrameMod
        BY <3>5, <3>6, Wraps
      <3>8. (UDFNUML' + k) % FrameMod
                = IF UDFNUML' + k < FrameMod THEN UDFNUML' + k ELSE UDFNUML' + k - FrameMod
        BY <3>5, <3>6, Wraps
      <3>9. UDFNUML' = IF UDFNUML + 1 < FrameMod THEN UDFNUML + 1 ELSE UDFNUML + 1 - FrameMod
        <4>1. (UDFNUML + 1) % FrameMod
                  = IF UDFNUML + 1 < FrameMod THEN UDFNUML + 1 ELSE UDFNUML + 1 - FrameMod
          BY <3>6, Wraps
        <4> QED BY <4>1, Zenon DEF Tick
      <3>10. FrameMod \in Nat /\ FrameMod > 3
        BY MegaUsbAssumption, Zenon
      <3>11. (UDFNUML + (k + 1)) % FrameMod = (UDFNUML' + k) % FrameMod
        BY <3>5, <3>6, <3>7, <3>8, <3>9, <3>10
      <3>12. call'[c].waited <= LF_USB_TIMEOUT_MS
        BY <3>4 DEF LF_USB_TIMEOUT_MS
      <3>13. call'[c].timeout = (UDFNUML' + k) % FrameMod
        BY <2>1, <3>3, <3>5, <3>11, Zenon
      <3> QED BY <3>5, <3>12, <3>13, Zenon
    <2> QED BY <2>1, <2>2, <2>3, Zenon DEF OnTime, Waiting
  <1> QED BY <1>2, <1>3, Zenon

\* The main program or the UART interrupt calls a function of the driver.
LEMMA Starts ==
    ASSUME Calls \/ Uart
    PROVE  \E c \in Contexts, op \in Ops, n \in Nat :
               call' = [call EXCEPT ![c] = Calling(op, n)]
  <1>1. CASE Calls
    <2>1. PICK op \in Ops, n \in Nat : Call(op, n)
      BY <1>1, MegaUsbAssumption, Zenon DEF Calls, Transfers, Ops
    <2> QED BY <2>1, MegaUsbAssumption, Zenon DEF Call
  <1>2. CASE Uart
    <2>1. "uart" \in Contexts /\ "putchar" \in Ops
      BY <1>2, Zenon DEF Uart, Ops
    <2>2. PICK n \in Nat : call' = [call EXCEPT !["uart"] = Calling("putchar", n)]
      BY <1>2, MegaUsbAssumption, Zenon DEF Uart
    <2> QED BY <2>1, <2>2, Zenon
  <1> QED BY <1>1, <1>2, Zenon

\* No step makes a wait that has the processor longer than its deadline says.
LEMMA NextWait ==
    ASSUME Types, WaitInv, [Next]_vars
    PROVE  WaitInv'
  <1>1. CASE \E c \in Contexts : Step(c)
    BY <1>1, StepWait, Zenon
  <1>2. CASE Tick
    BY <1>2, TickWait, Zenon
  <1>3. CASE UNCHANGED <<UDFNUML, call>>
    BY <1>3, Zenon DEF WaitInv, OnTime, Waiting
  <1>4. CASE Gen \/ GenBody \/ Answer \/ Feature \/ Stall \/ Answering \/ Host \/ UNCHANGED vars
    <2>1. UNCHANGED <<UDFNUML, call>>
      BY <1>4, ZenonT(60) DEF Gen, GenBody, Answer, Feature, Stall, Answering, Host, BusReset, HostSends, Setup,
                  HostTakes, vars
    <2> QED BY <1>3, <2>1, Zenon
  <1>5. CASE Calls \/ Uart
    <2>1. PICK c \in Contexts, op \in Ops, n \in Nat :
              call' = [call EXCEPT ![c] = Calling(op, n)]
      BY <1>5, Starts, Zenon
    <2>2. UDFNUML' = UDFNUML
      BY <1>5, Zenon DEF Calls, Call, Uart
    <2>3. /\ call'[c].pc = "enter" /\ call'[c].waited = 0 /\ ~call'[c].looked
          /\ \A d \in Contexts : d # c => call'[d] = call[d]
      BY <2>1, StartIs, Zenon DEF Types
    <2> QED BY <2>2, <2>3 DEF WaitInv, OnTime, Waiting
  <1>6. CASE SetConfiguration
    <2>1. UDFNUML' = UDFNUML
      BY <1>6, Zenon DEF SetConfiguration
    <2>2. ASSUME NEW c \in Contexts
          PROVE  OnTime(c)'
      <3>1. OnTime(c) /\ call[c] \in CallType
        BY Zenon DEF WaitInv, Types
      <3>2. call'[c] = IF call[c].pc = "idle" THEN Idle ELSE [call[c] EXCEPT !.again = @ \/ open]
        BY <1>6, Zenon DEF SetConfiguration
      <3>3. CASE call[c].pc = "idle"
        BY <3>2, <3>3, IdleWait, Zenon
      <3>4. CASE call[c].pc # "idle"
        <4>1. /\ call'[c].pc = call[c].pc /\ call'[c].held = call[c].held
              /\ call'[c].waited = call[c].waited /\ call'[c].timeout = call[c].timeout
              /\ call'[c].looked = call[c].looked
          BY <3>1, <3>2, <3>4, Zenon DEF CallType
        <4> QED BY <2>1, <3>1, <4>1, Zenon DEF OnTime, Waiting
      <3> QED BY <3>3, <3>4, Zenon
    <2> QED BY <2>2, Zenon DEF WaitInv
  <1> QED BY <1>1, <1>2, <1>4, <1>5, <1>6, Zenon DEF Next, Com

\* A wait for an endpoint that is not held up by another routine ends within
\* three frames, for every width of the frame number and whatever it was when
\* the wait began: the addition and the comparison wrap alike (bulk.c:27, bulk.c:33).
THEOREM WaitsAreBounded == Spec => []WaitBounded
  <1>1. Init => Types /\ WaitInv
    <2>1. ASSUME Init PROVE WaitInv
      <3>1. \A c \in Contexts : call[c] = Idle
        BY <2>1, Zenon DEF Init
      <3>2. Idle.pc = "idle"
        BY Zenon DEF Idle
      <3>3. \A c \in Contexts : call[c].pc = "idle"
        BY <3>1, <3>2, Zenon
      <3>4. \A c \in Contexts : call[c].pc # "enter" /\ ~Waiting(c)
        BY <3>3, Zenon DEF Waiting
      <3> QED BY <3>4, Zenon DEF WaitInv, OnTime
    <2> QED BY <2>1, InitTypes, Zenon
  <1>2. Types /\ WaitInv /\ [Next]_vars => (Types /\ WaitInv)'
    BY NextTypes, NextWait, Zenon
  <1>3. WaitInv => WaitBounded
    BY ZenonT(60) DEF WaitInv, OnTime, WaitBounded
  <1> QED BY <1>1, <1>2, <1>3, PTL DEF Spec
-----------------------------------------------------------------------------
(***************************************************************************)
(* One session.  While the endpoints are closed after a bus reset, the     *)
(* frames that a transfer has waited and the frames that the host is still *)
(* silent add up to the recovery time.  The wait ends within three frames, *)
(* so it is over before the host makes a request; a request finds a        *)
(* transfer in progress only with the endpoints open.                      *)
(***************************************************************************)
Steady(c) ==
    /\ call[c].last # {} => Waiting(c)
    /\ Waiting(c) /\ ~call[c].again /\ ~call[c].held =>
           /\ call[c].last \subseteq {session}
           /\ ~open /\ call[c].last # {} => call[c].waited + quiet >= Recovery
SessionInv ==
    /\ received \in {0, session} /\ quiet \in Nat
    /\ setup # NoRequest => quiet = 0
    /\ \A c \in Contexts : Steady(c)

\* A call that only moves within the wait, or whose context is not the one that
\* runs, stays in its session.
LEMMA SameSteady ==
    ASSUME NEW c \in Contexts, Steady(c), UNCHANGED <<session, open, quiet>>,
           Waiting(c)' <=> Waiting(c),
           call'[c].last = call[c].last, call'[c].again = call[c].again,
           call'[c].held = call[c].held, call'[c].waited = call[c].waited
    PROVE  Steady(c)'
  BY Zenon DEF Steady

\* So does one that has not moved a packet yet.
LEMMA FreshSteady ==
    ASSUME NEW c \in Contexts, call'[c].last = {}
    PROVE  Steady(c)'
  BY Zenon DEF Steady

\* A step of the driver: the bank it uses belongs to the session, and a call
\* that moves a packet finds the endpoints open.
LEMMA StepSteady ==
    ASSUME Types, OwnEndpoint, SessionInv, NEW c \in Contexts, Step(c)
    PROVE  SessionInv'
  <1>1. UNCHANGED <<session, open, quiet, setup>>
    BY Zenon DEF Step, Enter, NotReady, Receives, Transmits, Puts, Late, Online, Select, banks, line
  <1>2. received' \in {0, session'}
    <2>1. received' = 0 \/ received' = received
      BY Zenon DEF Step, Enter, NotReady, Receives, Transmits, Puts, Late, Online, Select, banks
    <2> QED BY <1>1, <2>1, Zenon DEF SessionInv
  <1>3. \A d \in Contexts \ {c} : call'[d] = call[d]
    BY StepOthers, Zenon
  <1>4. \A d \in Contexts : d # c => Steady(d)'
    BY <1>1, <1>3, Zenon DEF SessionInv, Steady, Waiting
  <1>5. SUFFICES Steady(c)'
    BY <1>1, <1>2, <1>4, Zenon DEF SessionInv
  <1>6. Steady(c) /\ call[c] \in CallType
    BY Zenon DEF SessionInv, Types
  <1>7. ASSUME NEW s, Leave(c, s)
        PROVE  Steady(c)'
    BY <1>7, LeaveCall, FreshSteady, Zenon
  <1>8. CASE Enter(c)
    <2>1. CASE Leave(c, intr)
      BY <1>7, <2>1, Zenon
    <2>2. CASE ~Leave(c, intr)
      <3>1. /\ call[c].pc = "enter"
            /\ call' = [call EXCEPT ![c].pc = "poll", ![c].timeout = Deadline, ![c].sreg = intr]
        BY <1>8, <2>2, Zenon DEF Enter
      <3>2. call[c].last = {}
        BY <1>6, <3>1, Zenon DEF Steady, Waiting
      <3>3. call'[c].last = call[c].last
        BY <1>6, <3>1, Zenon DEF Types, CallType
      <3> QED BY <3>2, <3>3, FreshSteady, Zenon
    <2> QED BY <2>1, <2>2, Zenon
  <1>9. ASSUME NEW s, Moved(c, s), s = session, open, call[c].pc = "poll"
        PROVE  Steady(c)'
    <2>1. CASE \E z : Leave(c, z)
      BY <1>7, <2>1, Zenon
    <2>2. CASE ~\E z : Leave(c, z)
      <3>1. call' = [call EXCEPT ![c].left = @ - 1, ![c].timeout = Deadline, ![c].waited = 0,
                                 ![c].held = FALSE, ![c].looked = FALSE,
                                 ![c].last = {s}, ![c].again = FALSE]
        BY <1>9, <2>2, ZenonT(60) DEF Moved
      <3>2. call'[c].pc = call[c].pc /\ call'[c].last = {s}
        BY <1>6, <3>1, Zenon DEF Types, CallType
      <3> QED BY <1>1, <1>9, <3>2, Zenon DEF Steady, Waiting
    <2> QED BY <2>1, <2>2, Zenon
  <1>10. CASE Receives(c)
    <2>1. Moved(c, received) /\ RWAL(UENUM) /\ call[c].pc = "poll" /\ call[c].op = "receive"
      BY <1>10, Zenon DEF Receives
    <2>2. UENUM = BULK_OUT
      BY <2>1 DEF OwnEndpoint, Endpoint
    <2>3. open /\ received # 0
      BY <2>1, <2>2 DEF RWAL, BULK_IN, BULK_OUT, DEBUG_IN
    <2>4. received = session
      BY <2>3, Zenon DEF SessionInv
    <2> QED BY <1>9, <2>1, <2>3, <2>4, Zenon
  <1>11. CASE Transmits(c)
    <2>1. Moved(c, session) /\ open /\ call[c].pc = "poll"
      BY <1>11, Zenon DEF Transmits, RWAL
    <2> QED BY <1>9, <2>1, Zenon
  <1>12. CASE Puts(c)
    <2>1. Leave(c, call[c].sreg)
      BY <1>12, Zenon DEF Puts
    <2> QED BY <1>7, <2>1, Zenon
  <1>13. CASE Late(c) \/ Online(c) \/ NotReady(c) \/ Select(c)
    <2>1. CASE Leave(c, intr)
      BY <1>7, <2>1, Zenon
    <2>2. CASE ~Leave(c, intr)
      <3>1. /\ Waiting(c)
            /\ \/ call' = [call EXCEPT ![c].pc = "online", ![c].looked = TRUE]
               \/ call' = [call EXCEPT ![c].pc = "select"]
               \/ call' = [call EXCEPT ![c].pc = "late"]
               \/ call' = [call EXCEPT ![c].pc = "poll", ![c].sreg = intr]
        BY <1>13, <2>2, Zenon DEF Late, Online, NotReady, Select, Goes, Waiting
      <3>2. /\ call'[c].last = call[c].last /\ call'[c].again = call[c].again
            /\ call'[c].held = call[c].held /\ call'[c].waited = call[c].waited
            /\ call'[c].pc \in {"poll", "late", "online", "select"}
        BY <1>6, <3>1 DEF Types, CallType
      <3> QED BY <1>1, <1>6, <3>1, <3>2, SameSteady, Zenon DEF Waiting
    <2> QED BY <2>1, <2>2, Zenon
  <1> QED BY <1>8, <1>10, <1>11, <1>12, <1>13, Zenon DEF Step

\* A frame that the host is silent for is a frame that a transfer waits.
LEMMA TickSteady ==
    ASSUME Types, WaitInv, SessionInv, Tick
    PROVE  SessionInv'
  <1>1. UNCHANGED <<session, open, setup, received>>
    BY Zenon DEF Tick, banks
  <1>2. quiet \in Nat /\ quiet' = IF quiet > 0 THEN quiet - 1 ELSE 0
    BY Zenon DEF Tick, SessionInv
  <1>3. quiet' \in Nat /\ (setup' # NoRequest => quiet' = 0)
    BY <1>1, <1>2 DEF SessionInv
  <1>4. ASSUME NEW c \in Contexts
        PROVE  Steady(c)'
    <2>1. Steady(c) /\ OnTime(c) /\ call[c] \in CallType
      BY Zenon DEF SessionInv, WaitInv, Types
    <2>2. CASE ~Waiting(c)
      <3>1. call'[c] = call[c]
        BY <2>2, TickCall, Zenon
      <3> QED BY <2>1, <2>2, <3>1, FreshSteady, Zenon DEF Steady
    <2>3. CASE Waiting(c)
      <3>1. /\ call'[c].pc = call[c].pc
            /\ call'[c].last = call[c].last /\ call'[c].again = call[c].again
            /\ call'[c].held = (call[c].held \/ running # c)
            /\ call'[c].waited = IF call[c].waited > LF_USB_TIMEOUT_MS
                                 THEN call[c].waited ELSE call[c].waited + 1
        BY <2>3, TickCall, Zenon
      <3>2. Waiting(c)'
        BY <2>3, <3>1, ZenonT(60) DEF Waiting
      <3>3. ASSUME ~call'[c].again, ~call'[c].held
            PROVE  /\ call'[c].last \subseteq {session'}
                   /\ ~open' /\ call'[c].last # {} => call'[c].waited + quiet' >= Recovery
        <4>1. ~call[c].again /\ ~call[c].held
          BY <3>1, <3>3, ZenonT(60)
        <4>2. call[c].waited \in Nat /\ call'[c].waited = call[c].waited + 1
          BY <2>1, <2>3, <3>1, <4>1 DEF OnTime, CallType, LF_USB_TIMEOUT_MS
        <4>3. call'[c].waited + quiet' >= call[c].waited + quiet
          BY <1>2, <4>2
        <4>4. /\ call[c].last \subseteq {session}
              /\ ~open /\ call[c].last # {} => call[c].waited + quiet >= Recovery
          BY <2>1, <2>3, <4>1, Zenon DEF Steady
        <4>5. Recovery \in Nat
          BY MegaUsbAssumption, Zenon
        <4> QED BY <1>1, <1>2, <1>3, <3>1, <4>2, <4>3, <4>4, <4>5
      <3> QED BY <3>2, <3>3, Zenon DEF Steady
    <2> QED BY <2>2, <2>3, Zenon
  <1> QED BY <1>1, <1>3, <1>4, Zenon DEF SessionInv

\* SET_CONFIGURATION begins a session: it marks the transfers that find the
\* endpoints open, and meets none with the endpoints closed.
LEMMA ConfigureSteady ==
    ASSUME Recovery > LF_USB_TIMEOUT_MS, Types, WaitInv, SessionInv, SetConfiguration
    PROVE  SessionInv'
  <1>1. received' = 0 /\ quiet' = quiet /\ setup' = NoRequest /\ open'
    BY Zenon DEF SetConfiguration, Served
  <1>2. quiet = 0
    BY DEF SetConfiguration, SessionInv, NoRequest
  <1>3. ASSUME NEW c \in Contexts
        PROVE  Steady(c)'
    <2>1. Steady(c) /\ OnTime(c) /\ call[c] \in CallType
      BY Zenon DEF SessionInv, WaitInv, Types
    <2>2. call'[c] = IF call[c].pc = "idle" THEN Idle ELSE [call[c] EXCEPT !.again = @ \/ open]
      BY Zenon DEF SetConfiguration
    <2>3. CASE call[c].pc = "idle"
      <3>1. call'[c].last = {}
        BY <2>2, <2>3 DEF Idle
      <3> QED BY <3>1, FreshSteady, Zenon
    <2>4. CASE call[c].pc # "idle"
      <3>1. /\ call'[c].pc = call[c].pc /\ call'[c].held = call[c].held
            /\ call'[c].last = call[c].last /\ call'[c].again = (call[c].again \/ open)
        BY <2>1, <2>2, <2>4, Zenon DEF CallType
      <3>2. CASE call[c].last = {}
        BY <3>1, <3>2, FreshSteady, Zenon
      <3>3. CASE call[c].last # {}
        <4>1. Waiting(c) /\ Waiting(c)'
          BY <2>1, <3>1, <3>3, Zenon DEF Steady, Waiting
        <4>2. call'[c].again \/ call'[c].held
          <5> SUFFICES ASSUME ~call'[c].again, ~call'[c].held PROVE FALSE
            BY Zenon
          <5>1. ~call[c].again /\ ~open /\ ~call[c].held
            BY <3>1, Zenon
          <5>2. call[c].waited + quiet >= Recovery
            BY <2>1, <3>3, <4>1, <5>1, Zenon DEF Steady
          <5>3. call[c].waited <= LF_USB_TIMEOUT_MS
            BY <2>1, <4>1, <5>1, Zenon DEF OnTime
          <5>4. call[c].waited \in Nat /\ Recovery \in Nat
            BY <2>1, MegaUsbAssumption, Zenon DEF CallType
          <5> QED BY <1>2, <5>2, <5>3, <5>4 DEF LF_USB_TIMEOUT_MS
        <4> QED BY <4>1, <4>2, ZenonT(60) DEF Steady
      <3> QED BY <3>2, <3>3, Zenon
    <2> QED BY <2>3, <2>4, Zenon
  <1> QED BY <1>1, <1>2, <1>3, Zenon DEF SessionInv

\* Every step keeps the transfers within their sessions.
LEMMA NextSteady ==
    ASSUME Recovery > LF_USB_TIMEOUT_MS, Types, OwnEndpoint, WaitInv, SessionInv, [Next]_vars
    PROVE  SessionInv'
  <1>1. CASE \E c \in Contexts : Step(c)
    BY <1>1, StepSteady, Zenon
  <1>2. CASE Tick
    BY <1>2, TickSteady, Zenon
  <1>3. CASE SetConfiguration
    BY <1>3, ConfigureSteady, Zenon
  <1>4. CASE UNCHANGED vars \/ Gen \/ GenBody \/ Answer \/ Feature \/ Stall \/ Answering
             \/ HostSends \/ (\E r \in Request : Setup(r)) \/ (\E e \in busy : HostTakes(e))
    <2>1. UNCHANGED <<call, session, open, quiet>>
      BY <1>4, Zenon DEF vars, Gen, GenBody, Answer, Feature, Stall, Answering, HostSends, Setup,
                         HostTakes, banks, line
    <2>2. received' \in {0, received, session}
      BY <1>4, Zenon DEF vars, Gen, GenBody, Answer, Feature, Stall, Answering, HostSends, Setup,
                  HostTakes, banks
    <2>3. setup' \in {NoRequest, setup} \/ quiet = 0
      BY <1>4, Zenon DEF vars, Gen, GenBody, Answer, Feature, Stall, Answering, HostSends, Setup,
                  HostTakes, line, Served
    <2>4. \A c \in Contexts : Steady(c)'
      BY <2>1, Zenon DEF SessionInv, Steady, Waiting
    <2> QED BY <2>1, <2>2, <2>3, <2>4, Zenon DEF SessionInv
  <1>5. CASE Calls \/ Uart
    <2>1. PICK c \in Contexts, op \in Ops, n \in Nat :
              call' = [call EXCEPT ![c] = Calling(op, n)]
      BY <1>5, Starts, Zenon
    <2>2. UNCHANGED <<session, open, quiet, setup, received>>
      BY <1>5, Zenon DEF Calls, Call, Uart, banks, line
    <2>3. call'[c].last = {} /\ \A d \in Contexts : d # c => call'[d] = call[d]
      BY <2>1, StartIs, Zenon DEF Types
    <2>4. \A d \in Contexts : d # c => Steady(d)'
      BY <2>2, <2>3, Zenon DEF SessionInv, Steady, Waiting
    <2>5. Steady(c)'
      BY <2>3, FreshSteady, Zenon
    <2> QED BY <2>2, <2>4, <2>5, Zenon DEF SessionInv
  <1>6. CASE BusReset
    <2>1. /\ received' = 0 /\ setup' = NoRequest /\ quiet' = Recovery /\ ~open'
          /\ UNCHANGED <<call, session>>
      BY <1>6, Zenon DEF BusReset
    <2>2. Recovery \in Nat
      BY MegaUsbAssumption, Zenon
    <2>3. ASSUME NEW c \in Contexts
          PROVE  Steady(c)'
      <3>1. Steady(c) /\ call[c].waited \in Nat
        BY Zenon DEF SessionInv, Types, CallType
      <3>2. call[c].waited + quiet' >= Recovery
        BY <2>1, <2>2, <3>1
      <3> QED BY <2>1, <3>1, <3>2, Zenon DEF Steady, Waiting
    <2> QED BY <2>1, <2>2, <2>3, Zenon DEF SessionInv
  <1> QED BY <1>1, <1>2, <1>3, <1>4, <1>5, <1>6, Zenon DEF Next, Com, Host

\* When the host is silent after a bus reset for longer than the driver waits
\* (10 ms in the USB standard against 3), consecutive packets of a transfer
\* belong to one session, even if the flag of the reset was cleared unseen,
\* unless an interrupt routine held the processor for a frame or a second
\* SET_CONFIGURATION came between the two (bulk.c:33, control.c:37).
THEOREM TransfersStayInSession ==
    ASSUME Recovery > LF_USB_TIMEOUT_MS
    PROVE  Spec => OneSession
  <1> DEFINE I == Types /\ OwnEndpoint /\ WaitInv /\ SessionInv
             Kept == \A c \in Contexts :
                         LET split == call[c].again \/ call[c].held
                         IN  /\ Receives(c) => split \/ call[c].last \subseteq {received}
                             /\ Transmits(c) => split \/ call[c].last \subseteq {session}
  <1>1. Init => I
    <2> SUFFICES ASSUME Init PROVE I
      BY Zenon
    <2>1. OwnEndpoint
      BY Zenon DEF Init, OwnEndpoint, Idle
    <2>2. \A c \in Contexts : call[c].pc = "idle" /\ call[c].last = {}
      BY Zenon DEF Init, Idle
    <2>3. WaitInv
      BY <2>2, Zenon DEF WaitInv, OnTime, Waiting
    <2>4. received = 0 /\ quiet \in Nat /\ setup = NoRequest
      BY MegaUsbAssumption, Zenon DEF Init
    <2>5. SessionInv
      BY <2>2, <2>4, Zenon DEF SessionInv, Steady
    <2> QED BY <2>1, <2>3, <2>5, InitTypes, Zenon
  <1>2. I /\ [Next]_vars => I'
    BY NextTypes, NextOwn, NextWait, NextSteady, Zenon
  <1>3. I => Kept
    <2> SUFFICES ASSUME I, NEW c \in Contexts, ~call[c].again, ~call[c].held
                 PROVE  /\ Receives(c) => call[c].last \subseteq {received}
                        /\ Transmits(c) => call[c].last \subseteq {session}
      BY Zenon
    <2>1. call[c].pc = "poll" => call[c].last \subseteq {session}
      BY Zenon DEF SessionInv, Steady, Waiting
    <2>2. ASSUME Receives(c) PROVE received = session
      <3>1. RWAL(UENUM) /\ call[c].pc = "poll" /\ call[c].op = "receive"
        BY <2>2, Zenon DEF Receives
      <3>2. UENUM = BULK_OUT
        BY <3>1 DEF OwnEndpoint, Endpoint
      <3>3. received # 0
        BY <3>1, <3>2, SMTT(60) DEF RWAL, BULK_IN, BULK_OUT, DEBUG_IN
      <3> QED BY <3>3, Zenon DEF SessionInv
    <2> QED BY <2>1, <2>2, Zenon DEF Receives, Transmits
  <1>4. I /\ [Next]_vars => [Kept]_vars
    BY <1>3, Zenon
  <1> HIDE DEF I, Kept
  <1>5. Spec => [][Kept]_vars
    BY <1>1, <1>2, <1>4, PTL DEF Spec
  <1> QED BY <1>5, Zenon DEF OneSession, Kept
================================================================================
