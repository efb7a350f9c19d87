-------------------------------- MODULE Fdebug --------------------------------
(***************************************************************************)
(* The debug console (utils/fdebug): one thread prints what the device     *)
(* sends on its USB debug endpoint, another what a host program writes to  *)
(* the debug socket (platforms/posix/src/error.c), and a mutex decides who *)
(* has stdout.  A thread takes the mutex when a section begins, prints a   *)
(* header and keeps it until a read with a short timeout brings nothing.   *)
(*                                                                         *)
(* The text is a count of pieces: what matters is whose section a piece is *)
(* printed in and whether it is printed at all.  The message of a failed   *)
(* accept() is not part of any section and is left out.                    *)
(***************************************************************************)
EXTENDS Integers

CONSTANT MaxSent   \* bound on the pieces each side sends

ASSUME MaxSentAssumption == MaxSent \in Nat

Threads == {"usb", "net"}
None == "none"

VARIABLES
    pc,        \* of main and of the two threads
    timeout,   \* each thread's: 0 outside a section, 5 inside
    read,      \* what the last read left in the variable read
    late,      \* the last USB transfer ended with LIBUSB_ERROR_TIMEOUT
    owner,     \* who holds the mutex
    section,   \* whose header was printed last
    sent, taken, printed, lost,   \* pieces of text, per thread
    gone,      \* the threads whose other end is gone (unplugged, closed)
    process    \* "up", "exited" or "crashed"

peerVars == <<sent, gone>>
textVars == <<taken, printed, lost>>
vars == <<pc, timeout, read, late, owner, section, textVars, peerVars, process>>

\* The variable read of usb_debug_thread is not initialised.
Init ==
    /\ pc = [x \in Threads \cup {"main"} |-> IF x = "main" THEN "setup" ELSE "none"]
    /\ timeout = [t \in Threads |-> 0]
    /\ read \in {r \in [Threads -> -1..1] : r["net"] = 0}
    /\ late = FALSE
    /\ owner = None /\ section = None
    /\ sent = [t \in Threads |-> 0] /\ taken = sent /\ printed = sent /\ lost = sent
    /\ gone = {}
    /\ process = "up"

At(x, from, to) == pc[x] = from /\ pc' = [pc EXCEPT ![x] = to]
Pending(t) == sent[t] - taken[t]
-----------------------------------------------------------------------------
(***************************************************************************)
(* main, and the other ends.                                               *)
(***************************************************************************)
Ends(how) == process' = how /\ UNCHANGED <<pc, timeout, read, late, owner, section, textVars, peerVars>>

\* Without the device main ends; without the socket it goes on, and accept()
\* and every recv() fail.
Setup ==
    \/ /\ At("main", "setup", "mutex")
       /\ gone' \in {gone, gone \cup {"net"}}
       /\ UNCHANGED <<timeout, read, late, owner, section, textVars, sent, process>>
    \/ pc["main"] = "setup" /\ Ends("exited")

MutexInit ==
    \/ /\ At("main", "mutex", "usb")
       /\ UNCHANGED <<timeout, read, late, owner, section, textVars, peerVars, process>>
    \/ pc["main"] = "mutex" /\ Ends("exited")

\* pthread_create, for the USB thread first.
Create(t) ==
    /\ pc["main"] = t
    /\ pc' = [pc EXCEPT !["main"] = IF t = "usb" THEN "net" ELSE "join",
                        ![t] = IF t = "usb" THEN "read" ELSE "accept"]
    /\ UNCHANGED <<timeout, read, late, owner, section, textVars, peerVars, process>>

Main == Setup \/ MutexInit \/ Create("usb") \/ Create("net")

\* The device has a packet on its debug endpoint, or the host program writes
\* to the socket (_lf_debug, _lf_assert).
Sends(t) ==
    /\ pc["main"] # "setup" /\ t \notin gone /\ sent[t] < MaxSent
    /\ sent' = [sent EXCEPT ![t] = @ + 1]
    /\ UNCHANGED <<pc, timeout, read, late, owner, section, textVars, gone, process>>

\* The device is unplugged, or the host program exits.
Goes(t) ==
    /\ pc["main"] # "setup"
    /\ gone' = gone \cup {t}
    /\ UNCHANGED <<pc, timeout, read, late, owner, section, textVars, sent, process>>
-----------------------------------------------------------------------------
(***************************************************************************)
(* The threads.                                                            *)
(***************************************************************************)
Accept ==
    /\ sent["net"] > 0 \/ "net" \in gone
    /\ At("net", "accept", "read")
    /\ UNCHANGED <<timeout, read, late, owner, section, textVars, peerVars, process>>

Read(t, n) ==
    /\ At(t, "read", IF timeout[t] = 0 THEN "lock" ELSE "decide")
    /\ read' = [read EXCEPT ![t] = n]
    /\ taken' = [taken EXCEPT ![t] = IF n > 0 THEN @ + n ELSE @]
    /\ UNCHANGED <<timeout, owner, section, printed, lost, peerVars, process>>

\* libusb_interrupt_transfer: a packet; or, inside a section, the timeout,
\* perhaps with a packet that came at the last moment; or an error, of the
\* transfer or, with read as it was, of its submission.
UsbReads ==
    \/ Pending("usb") > 0 /\ "usb" \notin gone /\ Read("usb", 1) /\ late' = FALSE
    \/ /\ timeout["usb"] # 0 /\ "usb" \notin gone
       /\ \E n \in {0, 1} : n <= Pending("usb") /\ Read("usb", n)
       /\ late' = TRUE
    \/ /\ "usb" \in gone
       /\ \/ Read("usb", 0)
          \/ /\ At("usb", "read", IF timeout["usb"] = 0 THEN "lock" ELSE "decide")
             /\ UNCHANGED <<timeout, read, owner, section, textVars, peerVars, process>>
       /\ late' = FALSE

\* recv: whatever part of the stream has arrived, or the end of it.  The
\* timeout is passed as recv's flags: with 5 it asks for urgent data, which
\* nobody sends, and fails at once.
NetReads ==
    /\ \/ timeout["net"] = 0 /\ \E n \in 1..Pending("net") : Read("net", n)
       \/ timeout["net"] = 0 /\ "net" \in gone /\ Pending("net") = 0 /\ \E n \in {0, -1} : Read("net", n)
       \/ timeout["net"] # 0 /\ Read("net", -1)
    /\ UNCHANGED late

\* pthread_mutex_lock.
Lock(t) ==
    /\ owner = None
    /\ At(t, "lock", "header")
    /\ owner' = t
    /\ UNCHANGED <<timeout, read, late, section, textVars, peerVars, process>>

Header(t) ==
    /\ At(t, "header", "decide")
    /\ section' = t
    /\ UNCHANGED <<timeout, read, late, owner, textVars, peerVars, process>>

Nothing(t) == IF t = "usb" THEN late \/ read[t] = 0 ELSE read[t] <= 0

\* Mutant: the mutex is released after every piece.
Shows_Unlocks(t) ==
    /\ ~Nothing(t) /\ read[t] > 0
    /\ At(t, "decide", "read")
    /\ timeout' = [timeout EXCEPT ![t] = 5]
    /\ printed' = [printed EXCEPT ![t] = @ + read[t]]
    /\ read' = [read EXCEPT ![t] = -1]
    /\ owner' = None
    /\ UNCHANGED <<late, section, taken, lost, peerVars, process>>

\* The piece is printed; the loop leaves -1 in read.
Shows(t) ==
    /\ ~Nothing(t) /\ read[t] > 0
    /\ At(t, "decide", "read")
    /\ timeout' = [timeout EXCEPT ![t] = 5]
    /\ printed' = [printed EXCEPT ![t] = @ + read[t]]
    /\ read' = [read EXCEPT ![t] = -1]
    /\ UNCHANGED <<late, owner, section, taken, lost, peerVars, process>>

\* With a negative read the loop runs beyond the buffer until the process
\* faults.
Overruns(t) == pc[t] = "decide" /\ ~Nothing(t) /\ read[t] < 0 /\ Ends("crashed")

\* Mutant: the end of a section leaves the timeout as it is.
Closes_Timeout(t) ==
    /\ Nothing(t)
    /\ At(t, "decide", "read")
    /\ owner' = None
    /\ lost' = [lost EXCEPT ![t] = IF read[t] > 0 THEN @ + read[t] ELSE @]
    /\ UNCHANGED <<timeout, read, late, section, taken, printed, peerVars, process>>

\* Mutant: the mutex is not released at the end of a section.
Closes_KeepsMutex(t) ==
    /\ Nothing(t)
    /\ At(t, "decide", "read")
    /\ timeout' = [timeout EXCEPT ![t] = 0]
    /\ lost' = [lost EXCEPT ![t] = IF read[t] > 0 THEN @ + read[t] ELSE @]
    /\ UNCHANGED <<read, late, owner, section, taken, printed, peerVars, process>>

\* The section ends; a packet that came with the timeout is not printed.
Closes(t) ==
    /\ Nothing(t)
    /\ At(t, "decide", "read")
    /\ timeout' = [timeout EXCEPT ![t] = 0]
    /\ owner' = None
    /\ lost' = [lost EXCEPT ![t] = IF read[t] > 0 THEN @ + read[t] ELSE @]
    /\ UNCHANGED <<read, late, section, taken, printed, peerVars, process>>

Thread(t) ==
    \/ t = "usb" /\ UsbReads
    \/ t = "net" /\ (Accept \/ NetReads)
    \/ Lock(t) \/ Header(t) \/ Shows(t) \/ Overruns(t) \/ Closes(t)

Next ==
    /\ process = "up"
    /\ Main \/ \E t \in Threads : Sends(t) \/ Goes(t) \/ Thread(t)

Spec == Init /\ [][Next]_vars

\* main and the threads keep running, and a read returns when there is
\* something to return.  pthread_mutex_lock promises no order: a thread that
\* waits gets the mutex only if it is not taken again and again.
Fairness ==
    /\ WF_vars(process = "up" /\ Main)
    /\ \A t \in Threads : WF_vars(process = "up" /\ Thread(t))
FairSpec == Spec /\ Fairness
-----------------------------------------------------------------------------
PCs == {"none", "accept", "read", "lock", "header", "decide"}

\* Type invariant of main, the threads and the text they pass on.
TypeOK ==
    /\ pc \in [Threads \cup {"main"} -> PCs \cup {"setup", "mutex", "usb", "net", "join"}]
    /\ timeout \in [Threads -> {0, 5}] /\ read \in [Threads -> Int] /\ late \in BOOLEAN
    /\ owner \in Threads \cup {None} /\ section \in Threads \cup {None}
    /\ sent \in [Threads -> Nat] /\ taken \in [Threads -> Nat]
    /\ printed \in [Threads -> Nat] /\ lost \in [Threads -> Nat]
    /\ gone \subseteq Threads
    /\ process \in {"up", "exited", "crashed"}

\* A thread that reads with the short timeout, prints a header or decides what
\* to print holds the mutex, and no other thread does: it is never locked
\* twice by one thread, never unlocked by a thread that does not hold it, and
\* never held in a read that may block for ever.
Holds(t) == pc[t] \in {"header", "decide"} \/ (pc[t] = "read" /\ timeout[t] = 5)
MutexHeld == \A t \in Threads : owner = t <=> Holds(t)

\* Text is printed under the header of the thread that read it and under no
\* other.
UnderOwnHeader == [][\A t \in Threads : printed'[t] # printed[t] => section = t /\ section' = t]_vars

\* The inductive invariant behind UnderOwnHeader: besides holding the mutex, a
\* thread has the short timeout only inside its section, and has printed its
\* header before it decides what to print; and no thread runs before main has
\* created it.
InSection(t) ==
    /\ pc[t] \in {"none", "accept", "lock", "header"} => timeout[t] = 0
    /\ Holds(t) /\ pc[t] # "header" => section = t
Created ==
    /\ pc["main"] \notin {"net", "join"} => pc["usb"] = "none"
    /\ pc["main"] # "join" => pc["net"] = "none"
SectionInv == TypeOK /\ Created /\ MutexHeld /\ \A t \in Threads : InSection(t)

\* While both ends stay connected, whatever the device or a host program sends
\* is printed, although each thread keeps the other waiting for as long as its
\* own section lasts.  Only a packet that completes together with the timeout
\* of its transfer is dropped.
EverythingShown ==
    \A t \in Threads : \A n \in 1..MaxSent :
        sent[t] >= n ~> printed[t] + lost[t] >= n \/ gone # {} \/ process # "up"
=============================================================================
