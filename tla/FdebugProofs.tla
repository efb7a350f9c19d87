----------------------------- MODULE FdebugProofs -----------------------------
(***************************************************************************)
(* Proofs about the debug console, for any number of pieces of text.       *)
(***************************************************************************)
EXTENDS Fdebug, TLAPS

\* main() starts with the mutex free, no thread created and nothing printed.
LEMMA InitSection == Init => SectionInv
<1> SUFFICES ASSUME Init PROVE SectionInv
  OBVIOUS
<1>1. TypeOK
  <2>1. pc \in [Threads \cup {"main"} -> PCs \cup {"setup", "mutex", "usb", "net", "join"}]
    BY DEF Init, PCs
  <2>2. read \in [Threads -> Int]
    BY DEF Init
  <2> QED
    BY <2>1, <2>2, Zenon DEF Init, TypeOK, None
<1>2. Created /\ MutexHeld /\ \A t \in Threads : InSection(t)
  BY DEF Init, Created, MutexHeld, Holds, InSection, Threads, None
<1> QED
  BY <1>1, <1>2 DEF SectionInv

\* Every step of main(), of the two threads and of their peers keeps the types.
LEMMA TypeStep == TypeOK /\ [Next]_vars => TypeOK'
<1> SUFFICES ASSUME TypeOK, [Next]_vars PROVE TypeOK'
  OBVIOUS
<1> USE DEF TypeOK
<1>0. "usb" \in Threads /\ "net" \in Threads
  BY DEF Threads
<1>1. CASE UNCHANGED vars
  BY <1>1 DEF vars, textVars, peerVars
<1>2. CASE Main
  <2>1. ASSUME NEW t \in Threads, Create(t) PROVE TypeOK'
    BY <2>1 DEF Create, textVars, peerVars, PCs
  <2>2. CASE Setup
    BY <1>0, <2>2 DEF Setup, At, Ends, textVars, peerVars
  <2>3. CASE MutexInit
    BY <2>3 DEF MutexInit, At, Ends, textVars, peerVars
  <2> QED
    BY <1>0, <1>2, <2>1, <2>2, <2>3 DEF Main
<1>3. ASSUME NEW t \in Threads, Sends(t) \/ Goes(t) PROVE TypeOK'
  <2>1. CASE Sends(t)
    BY <2>1 DEF Sends, textVars
  <2>2. CASE Goes(t)
    BY <2>2 DEF Goes, textVars
  <2> QED
    BY <1>3, <2>1, <2>2
<1>4. ASSUME NEW t \in Threads, NEW n \in Int, Read(t, n), late' \in BOOLEAN PROVE TypeOK'
  BY <1>4 DEF Read, At, peerVars, PCs
<1>5. CASE UsbReads
  <2>0. late' \in BOOLEAN
    BY <1>5, Zenon DEF UsbReads
  <2>1. CASE \E n \in {0, 1} : Read("usb", n)
    BY <1>0, <1>4, <2>0, <2>1
  <2>2. CASE /\ At("usb", "read", IF timeout["usb"] = 0 THEN "lock" ELSE "decide")
             /\ UNCHANGED <<timeout, read, owner, section, textVars, peerVars, process>>
    BY <1>0, <2>0, <2>2 DEF At, textVars, peerVars, PCs
  <2> QED
    BY <1>5, <2>1, <2>2 DEF UsbReads
<1>6. CASE Accept
  BY <1>0, <1>6 DEF Accept, At, textVars, peerVars, PCs
<1>7. CASE NetReads
  <2>1. \E n \in Int : Read("net", n)
    BY <1>0, <1>7 DEF NetReads, Pending
  <2> QED
    BY <1>0, <1>4, <1>7, <2>1 DEF NetReads
<1>8. ASSUME NEW t \in Threads, Lock(t) \/ Header(t) PROVE TypeOK'
  BY <1>8 DEF Lock, Header, At, textVars, peerVars, PCs
<1>9. ASSUME NEW t \in Threads, Shows(t) PROVE TypeOK'
  BY <1>9 DEF Shows, At, peerVars, PCs
<1>10. ASSUME NEW t \in Threads, Overruns(t) PROVE TypeOK'
  BY <1>10 DEF Overruns, Ends, textVars, peerVars
<1>11. ASSUME NEW t \in Threads, Closes(t) PROVE TypeOK'
  BY <1>11 DEF Closes, At, peerVars, PCs, None
<1> HIDE DEF TypeOK
<1> QED
  BY <1>1, <1>2, <1>3, <1>5, <1>6, <1>7, <1>8, <1>9, <1>10, <1>11, Zenon DEF Next, Thread

-----------------------------------------------------------------------------
\* What a step of thread t may do to the mutex.
Stays(t) == pc'[t] = pc[t] /\ timeout'[t] = timeout[t]

\* If a step leaves the mutex and the header alone and moves one thread only,
\* and that thread holds the mutex after the step if it did before, both
\* invariants are kept.
LEMMA Kept ==
    ASSUME SectionInv, NEW t \in Threads, UNCHANGED <<owner, section>>,
           \A u \in Threads \ {t} : Stays(u),
           Holds(t)' <=> Holds(t), InSection(t)'
    PROVE  MutexHeld' /\ \A u \in Threads : InSection(u)'
BY DEF SectionInv, MutexHeld, Holds, InSection, Stays

\* A step that moves neither thread and leaves the mutex alone keeps what is
\* known of the critical sections.
LEMMA AllStay ==
    ASSUME SectionInv, UNCHANGED <<owner, section>>, \A t \in Threads : Stays(t)
    PROVE  MutexHeld' /\ \A t \in Threads : InSection(t)'
BY DEF SectionInv, MutexHeld, Holds, InSection, Stays

\* main() creates the threads after the mutex and takes no part in the printing.
LEMMA MainStep ==
    ASSUME SectionInv, Main
    PROVE  Created' /\ MutexHeld' /\ \A t \in Threads : InSection(t)'
<1>1. TypeOK /\ Created
  BY DEF SectionInv
<1>2. CASE Setup \/ MutexInit
  <2>1. \A t \in Threads : Stays(t)
    BY <1>1, <1>2 DEF Setup, MutexInit, At, Ends, Stays, TypeOK, Threads
  <2>2. UNCHANGED <<owner, section>>
    BY <1>2 DEF Setup, MutexInit, Ends
  <2>3. Created'
    BY <1>1, <1>2 DEF Setup, MutexInit, At, Ends, TypeOK, Threads, Created
  <2> QED
    BY <2>1, <2>2, <2>3, AllStay
<1>3. ASSUME NEW t \in Threads, Create(t)
      PROVE  Created' /\ MutexHeld' /\ \A u \in Threads : InSection(u)'
  <2>1. pc'[t] \in {"read", "accept"} /\ timeout' = timeout
    BY <1>1, <1>3 DEF Create, TypeOK, Threads
  <2>2. \A u \in Threads \ {t} : Stays(u)
    BY <1>1, <1>3 DEF Create, TypeOK, Stays, Threads
  <2>3. pc[t] = "none" /\ timeout[t] = 0
    BY <1>1, <1>3 DEF SectionInv, InSection, Created, Create, Threads
  <2>4. UNCHANGED <<owner, section>>
    BY <1>3 DEF Create
  <2>5. ~Holds(t) /\ ~Holds(t)' /\ InSection(t)'
    BY <2>1, <2>3 DEF Holds, InSection
  <2>6. Created'
    BY <1>1, <1>3 DEF Create, TypeOK, Created, Threads
  <2> QED
    BY <2>2, <2>4, <2>5, <2>6, Kept
<1>4. "usb" \in Threads /\ "net" \in Threads
  BY DEF Threads
<1> QED
  BY <1>2, <1>3, <1>4 DEF Main

\* A thread that has not been created takes no step, and creates none.
LEMMA CreatedKept ==
    ASSUME TypeOK, Created, NEW t \in Threads, Thread(t)
    PROVE  Created' /\ \A u \in Threads \ {t} : pc'[u] = pc[u]
<1>1. pc[t] # "none" /\ (pc' = pc \/ \E to : At(t, pc[t], to))
  <2>1. CASE t = "usb" /\ UsbReads
    BY <2>1 DEF UsbReads, Read, At
  <2>2. CASE t = "net" /\ (Accept \/ NetReads)
    BY <2>2 DEF Accept, NetReads, Read, At
  <2>3. CASE Lock(t) \/ Header(t) \/ Shows(t) \/ Overruns(t) \/ Closes(t)
    BY <2>3 DEF Lock, Header, Shows, Overruns, Closes, Ends, At
  <2> QED
    BY <2>1, <2>2, <2>3 DEF Thread
<1> QED
  BY <1>1 DEF At, Created, TypeOK, Threads

\* The steps of a thread, with what each does to the mutex and to the header.
LEMMA ThreadStep ==
    ASSUME SectionInv, NEW t \in Threads, Thread(t)
    PROVE  MutexHeld' /\ \A u \in Threads : InSection(u)'
<1>0. TypeOK /\ Created /\ MutexHeld /\ InSection(t)
  BY DEF SectionInv
<1>1. \A u \in Threads \ {t} : pc'[u] = pc[u]
  BY <1>0, CreatedKept
<1>2. ASSUME timeout' = timeout, UNCHANGED <<owner, section>>,
             \/ At(t, "read", IF timeout[t] = 0 THEN "lock" ELSE "decide")
             \/ At(t, "accept", "read")
             \/ pc' = pc
      PROVE  MutexHeld' /\ \A u \in Threads : InSection(u)'
  <2>1. \A u \in Threads \ {t} : Stays(u)
    BY <1>1, <1>2 DEF Stays
  <2>2. (Holds(t)' <=> Holds(t)) /\ InSection(t)'
    BY <1>0, <1>2 DEF TypeOK, InSection, Holds, At
  <2> QED
    BY <1>2, <2>1, <2>2, Kept
<1>3. CASE t = "usb" /\ UsbReads
  <2>1. /\ timeout' = timeout /\ UNCHANGED <<owner, section>>
        /\ At(t, "read", IF timeout[t] = 0 THEN "lock" ELSE "decide")
    BY <1>3 DEF UsbReads, Read
  <2> QED
    BY <1>2, <2>1
<1>4. CASE t = "net" /\ (Accept \/ NetReads)
  <2>1. /\ timeout' = timeout /\ UNCHANGED <<owner, section>>
        /\ \/ At(t, "read", IF timeout[t] = 0 THEN "lock" ELSE "decide")
           \/ At(t, "accept", "read")
    BY <1>4 DEF Accept, NetReads, Read
  <2> QED
    BY <1>2, <2>1
<1>5. CASE Lock(t)
  BY <1>0, <1>1, <1>5 DEF SectionInv, MutexHeld, InSection, Holds, Lock, At, TypeOK, Threads, None
<1>6. CASE Header(t)
  <2>1. owner = t /\ \A u \in Threads \ {t} : ~Holds(u)
    BY <1>0, <1>6 DEF MutexHeld, Holds, Header, At
  <2> QED
    BY <1>0, <1>1, <1>6, <2>1 DEF SectionInv, MutexHeld, InSection, Holds, Header, At, TypeOK
<1>7. CASE Shows(t)
  <2>1. \A u \in Threads \ {t} : Stays(u)
    BY <1>0, <1>1, <1>7 DEF Stays, Shows, TypeOK
  <2>2. (Holds(t)' <=> Holds(t)) /\ InSection(t)' /\ UNCHANGED <<owner, section>>
    BY <1>0, <1>7 DEF TypeOK, InSection, Holds, Shows, At
  <2> QED
    BY <2>1, <2>2, Kept
<1>8. CASE Overruns(t)
  BY <1>2, <1>8 DEF Overruns, Ends
<1>9. CASE Closes(t)
  <2>1. owner = t /\ \A u \in Threads \ {t} : ~Holds(u)
    BY <1>0, <1>9 DEF MutexHeld, Holds, Closes, At
  <2>2. pc'[t] = "read" /\ timeout'[t] = 0 /\ \A u \in Threads \ {t} : Stays(u)
    BY <1>0, <1>1, <1>9 DEF Closes, At, Stays, TypeOK
  <2>3. owner' = None /\ None \notin Threads /\ section' = section
    BY <1>9 DEF Closes, None, Threads
  <2> QED
    BY <2>1, <2>2, <2>3 DEF SectionInv, MutexHeld, InSection, Holds, Stays
<1> QED
  BY <1>3, <1>4, <1>5, <1>6, <1>7, <1>8, <1>9 DEF Thread
-----------------------------------------------------------------------------
\* However much text both sides send: no thread reads, prints or unlocks in a
\* section that it does not hold the mutex for, or blocks for ever in one that
\* it does.
THEOREM SectionsAreExclusive == Spec => []SectionInv
<1>1. SectionInv /\ [Next]_vars => SectionInv'
  <2> SUFFICES ASSUME SectionInv, [Next]_vars PROVE SectionInv'
    OBVIOUS
  <2>1. TypeOK' /\ TypeOK /\ Created
    BY TypeStep DEF SectionInv
  <2>2. CASE Main
    BY <2>1, <2>2, MainStep DEF SectionInv
  <2>3. CASE \E t \in Threads : Thread(t)
    BY <2>1, <2>3, ThreadStep, CreatedKept DEF SectionInv
  <2>4. CASE UNCHANGED vars \/ \E t \in Threads : Sends(t) \/ Goes(t)
    <3>1. UNCHANGED <<pc, timeout, owner, section>>
      BY <2>4 DEF vars, Sends, Goes
    <3>2. Created' /\ \A t \in Threads : Stays(t)
      BY <2>1, <3>1 DEF Created, Stays
    <3> QED
      BY <2>1, <3>1, <3>2, AllStay DEF SectionInv
  <2> QED
    BY <2>2, <2>3, <2>4 DEF Next
<1> QED
  BY <1>1, InitSection, PTL DEF Spec

\* Text is printed under its own header, in every behaviour.
THEOREM TextUnderOwnHeader == Spec => UnderOwnHeader
<1>1. SectionInv /\ [Next]_vars =>
        [\A t \in Threads : printed'[t] # printed[t] => section = t /\ section' = t]_vars
  <2> SUFFICES ASSUME SectionInv, Next,
                      NEW t \in Threads, printed'[t] # printed[t]
               PROVE  section = t /\ section' = t
    OBVIOUS
  <2>1. TypeOK
    BY SMTT(60) DEF SectionInv
  <2>2. PICK u \in Threads : Shows(u)
    BY ZenonT(60) DEF Next, Main, Setup, MutexInit, Create, Ends, Sends, Goes, Thread, UsbReads, Accept,
           NetReads, Read, Lock, Header, Overruns, Closes, textVars
  <2>3. u = t
    BY <2>1, <2>2 DEF Shows, TypeOK
  <2> QED
    BY <2>2, <2>3 DEF SectionInv, InSection, Holds, Shows, At
<1> QED
  BY <1>1, SectionsAreExclusive, PTL DEF Spec, UnderOwnHeader
==============================================================================
