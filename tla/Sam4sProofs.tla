---------------------------- MODULE Sam4sProofs ----------------------------
(***************************************************************************)
(* What runs on the ATSAM4S: theorems about the scheduler and about the    *)
(* start of the firmware, with the inductive invariants they rest on.      *)
(*                                                                         *)
(* The theorems about the scheduler say which calls they allow: with the   *)
(* others the properties fail (README.md).  RingInv says how the records   *)
(* are linked whatever the processor does; RunInv adds which task has the  *)
(* processor and which one PendSV may choose.  That os_task_next finds its *)
(* task in the ring is an induction over the walk, done with a least       *)
(* counterexample.                                                         *)
(***************************************************************************)
EXTENDS Scheduler, Sam4sBoot, TLAPS, WellFoundedInduction, FiniteSetTheorems

\* What the system task may call, and nobody else.
SystemTaskCalls(ops) == Callers \subseteq {Kernel} /\ Operations \subseteq ops

\* The statements of os_task_create and os_task_add from the allocation of the
\* record to its link, and those of the other calls.
Adding == {"fill", "add", "walk", "link"}
Counting == {"count", "counted"}
Choosing == {"next", "advance", "check", "activate", "pend"}
Marking == {"found", "mark"}
Waking == {"wake", "wake2", "clear", "choose"}
Statements == {"run", "create", "find"} \cup Adding \cup Counting \cup Choosing \cup Marking \cup Waking

\* The records and the threads, whatever their fields hold.
Shaped(r) == DOMAIN r = Tasks /\ \A t \in Tasks : DOMAIN r[t] = {"next", "status", "pid"}
ThreadFields == {"at", "op", "pid", "task", "ptr", "n"}

\* What kind of value the ring's variables hold.
Types ==
    /\ Shaped(task)
    /\ DOMAIN th = Tasks /\ \A t \in Tasks : DOMAIN th[t] = ThreadFields
    /\ th[Kernel].at \in Statements
    /\ ring \in Seq(Tasks)

\* The calls the system task may be in.
Kinds == {"none", "load", "pause", "resume"}

\* Only the system task is inside a call, nothing is released, and the call that
\* a statement belongs to is known.
Alone ==
    /\ freed = {}
    /\ \A t \in Tasks \ {Kernel} : th[t] = Idle
    /\ th[Kernel].at \in {"create"} \cup Adding \cup Counting => th[Kernel].op = "load"
    /\ th[Kernel].at \in {"find"} \cup Marking => th[Kernel].op \in {"pause", "resume"}
    /\ th[Kernel].at \in Waking => th[Kernel].op = "resume"
    /\ th[Kernel].op \in Kinds

\* The records of the ring are allocated and linked in the order of their numbers.
InRing == 0..Len(ring) - 1

\* malloc hands the records out in order and the system task links each before
\* it asks for the next, so that the i-th of the ring is record i - 1; the record
\* being added is allocated, not yet reached from the ring, and points to its head.
Chained ==
    /\ ring # <<>>
    /\ \A i \in 1..Len(ring) : ring[i] = i - 1
    /\ made = IF th[Kernel].at \in Adding THEN 0..Len(ring) ELSE InRing
    /\ \A t \in InRing : task[t].next = IF t = Len(ring) - 1 THEN Kernel ELSE t + 1
    /\ th[Kernel].at \in Adding => th[Kernel].task = Len(ring) /\ Len(ring) \in Tasks
    /\ th[Kernel].at \in Adding \ {"fill"} => task[Len(ring)].next = Kernel

\* The count is the length of the ring, but for the moment between the link and
\* the write of the count; the walk of os_task_add is n records before the tail.
Counted ==
    /\ count = IF th[Kernel].at \in Counting THEN Len(ring) - 1 ELSE Len(ring)
    /\ th[Kernel].at = "walk" => th[Kernel].n \in 1..Len(ring) /\ th[Kernel].ptr = Len(ring) - th[Kernel].n
    /\ th[Kernel].at = "link" => th[Kernel].ptr = Len(ring) - 1
    /\ th[Kernel].at = "counted" => th[Kernel].n = count

\* The inductive invariant of the ring and its count.
RingInv == Types /\ Alone /\ Chained /\ Counted

\* The processor runs os_current_task, and every other linked task has its own
\* context in its record, and so has the task that is about to be linked.
Contexts ==
    /\ sp \in [Tasks -> Tasks \cup {NULL}]
    /\ current \in InRing /\ running = current
    /\ \A t \in InRing \ {running} : sp[t] = t
    /\ th[Kernel].at \in Adding \ {"fill"} => sp[Len(ring)] = Len(ring)

\* os_next_task is a linked task that is not paused whenever PendSV may read it.
\* While a thread looks for one, the value it last wrote (ptr) and the one SysTick
\* left (next) may differ, and then the latter is not paused.
Choices ==
    /\ next \in InRing \cup {NULL}
    /\ pending \/ switching => next \in InRing \ off
    /\ th[Kernel].at = "check" => /\ next \in InRing /\ th[Kernel].ptr \in InRing
                                  /\ next = th[Kernel].ptr \/ next \notin off
    /\ th[Kernel].at = "activate" => {next, th[Kernel].ptr} \subseteq InRing \ off
    /\ th[Kernel].at = "pend" => next \in InRing \ off

\* A paused task has the status paused, is not the system task and does not run.
Pauses ==
    /\ off \subseteq InRing \ {Kernel, current}
    /\ \A t \in off : task[t].status = "paused"
    /\ task[Kernel].pid = 0

\* Which call a statement belongs to and what os_task_from_pid has found.
Stands ==
    /\ th[Kernel].at \notin Waking
    /\ th[Kernel].at \in Choosing => th[Kernel].op = "load"
    /\ th[Kernel].at \in {"find"} \cup Marking => th[Kernel].op = "pause"
    /\ th[Kernel].at = "find" => th[Kernel].ptr \in InRing /\ th[Kernel].pid \in 1..MaxPid
    /\ th[Kernel].at \in Marking => th[Kernel].task \in InRing \ {Kernel}

\* The inductive invariant of the processor.
RunInv == RingInv /\ Contexts /\ Choices /\ Pauses /\ Stands

-----------------------------------------------------------------------------
\* The system task is one of the tasks, and NULL is not.
LEMMA SystemTask == Kernel \in Tasks /\ Tasks \subseteq Nat /\ NULL \notin Tasks
  BY SchedulerAssumption, SMTT(60) DEF Kernel, Tasks, NULL

\* The bound on the tasks, as arithmetic.
LEMMA Sizes == MaxTasks \in Nat /\ 1 <= MaxTasks /\ MaxTasks <= 255
<1>1. MaxTasks \in 1..255
  BY SchedulerAssumption, Zenon
<1> QED
  BY <1>1

\* The count of the tasks does not overflow.
LEMMA NoOverflow ==
    ASSUME NEW n \in 1..MaxTasks
    PROVE  ((n - 1) + 1) % 256 = n
<1>1. n \in Nat /\ n <= 255 /\ (n - 1) + 1 = n
  BY Sizes
<1>2. \A k \in 0..255 : k % 256 = k
  OBVIOUS
<1> QED
  BY <1>1, <1>2

\* The records m have the links and the pids of r.
SameLinks(m, r) ==
    /\ Shaped(m)
    /\ \A t \in Tasks : m[t].next = r[t].next /\ m[t].pid = r[t].pid

\* A change of one status leaves the links and the pids.
LEMMA Marked ==
    ASSUME NEW r, Shaped(r), NEW a, NEW s
    PROVE  /\ SameLinks([r EXCEPT ![a].status = s], r)
           /\ \A t \in Tasks : [r EXCEPT ![a].status = s][t].status = IF t = a THEN s ELSE r[t].status
<1> DEFINE m == [r EXCEPT ![a].status = s]
<1>1. /\ DOMAIN m = Tasks
      /\ \A t \in Tasks : m[t] = IF t = a THEN [r[a] EXCEPT !.status = s] ELSE r[t]
  BY Zenon DEF Shaped
<1>2. \A t \in Tasks : LET q == [r[t] EXCEPT !.status = s]
                       IN  /\ DOMAIN q = {"next", "status", "pid"}
                           /\ q.next = r[t].next /\ q.pid = r[t].pid /\ q.status = s
  BY Zenon DEF Shaped
<1> HIDE DEF m
<1>3. SameLinks(m, r) /\ \A t \in Tasks : m[t].status = IF t = a THEN s ELSE r[t].status
  BY <1>1, <1>2, ZenonT(60) DEF Shaped, SameLinks
<1> QED
  BY <1>3, Zenon DEF m

\* Nobody but the system task executes a statement of the scheduler.
LEMMA OnlyKernel ==
    ASSUME SystemTaskCalls({"load", "pause", "resume"}), Alone, NEW t \in Tasks, Calls(t) \/ Thread(t)
    PROVE  t = Kernel
<1> SUFFICES ASSUME t # Kernel PROVE FALSE
  BY ZenonT(60)
<1>1. th[t].at = "run"
  <2>1. th[t] = Idle
    BY Zenon DEF Alone
  <2> QED
    BY <2>1 DEF Idle
<1>2. ~Calls(t)
  BY Zenon DEF Calls, SystemTaskCalls
<1>3. Thread(t)
  BY <1>2, Zenon
<1> QED
  BY <1>1, <1>3, ZenonT(60) DEF Thread, Create, Fill, Add, Walk, Link, ReadCount, WriteCount, NextIdle, NextAdvance,
     NextCheck, NextActivate, NextPend, Find, PauseFound, PauseMark, ResumeWake, ResumeIdle, Clear,
     Choose, Release, Unlink, Free, At

\* What the other statements keep: the links, and everything that was made.
SameRing ==
    /\ SameLinks(task', task)
    /\ UNCHANGED <<made, freed, count, ring>>

\* The system task goes to a statement with the fields given.
Moves(at, op, x, ptr, n) ==
    /\ DOMAIN th' = Tasks /\ \A t \in Tasks : DOMAIN th'[t] = ThreadFields
    /\ \A t \in Tasks \ {Kernel} : th'[t] = th[t]
    /\ th'[Kernel].at = at /\ th'[Kernel].op = op /\ th'[Kernel].task = x
    /\ th'[Kernel].ptr = ptr /\ th'[Kernel].n = n

\* The same, with what the properties do not ask for left open.
Moved(at, op) == \E x, ptr, n : Moves(at, op, x, ptr, n)

\* What an assignment to the whole thread of the system task does.
LEMMA Update ==
    ASSUME Types, NEW r, DOMAIN r = ThreadFields, th' = [th EXCEPT ![Kernel] = r]
    PROVE  Moves(r.at, r.op, r.task, r.ptr, r.n) /\ th'[Kernel] = r
  BY SystemTask, Zenon DEF Types, Moves

\* What an assignment to the place of the statement does to the system task.
LEMMA Going ==
    ASSUME Types, NEW at, Goes(Kernel, at)
    PROVE  Moves(at, th[Kernel].op, th[Kernel].task, th[Kernel].ptr, th[Kernel].n) /\ th'[Kernel].pid = th[Kernel].pid
  BY SystemTask, ZenonT(60) DEF Types, Moves, Goes, ThreadFields

\* What a return from a call of the scheduler does to the system task.
LEMMA Returning ==
    ASSUME Types, Returns(Kernel)
    PROVE  Moves("run", "none", NULL, NULL, 0) /\ th'[Kernel] = Idle
  BY SystemTask, ZenonT(60) DEF Types, Moves, Returns, ThreadFields, Idle

\* The ring is not empty and fits into the heap.
LEMMA RingFits ==
    ASSUME Types, Chained
    PROVE  Len(ring) \in 1..MaxTasks /\ InRing \subseteq Tasks /\ Kernel \in InRing /\ Linked = InRing
<1>1. Len(ring) \in Nat /\ Len(ring) >= 1 /\ \A i \in 1..Len(ring) : ring[i] \in Tasks
  BY SMTT(60) DEF Types, Chained
<1>2. ring[Len(ring)] = Len(ring) - 1 /\ Len(ring) - 1 \in Tasks
  BY <1>1 DEF Chained
<1>3. Len(ring) \in 1..MaxTasks /\ InRing \subseteq Tasks /\ Kernel \in InRing
  BY <1>1, <1>2, SchedulerAssumption, SMTT(60) DEF Tasks, InRing, Kernel
<1>4. DOMAIN ring = 1..Len(ring)
  BY DEF Types
<1>5. Linked \subseteq InRing
  <2> SUFFICES ASSUME NEW t \in Linked PROVE t \in InRing
    BY Zenon
  <2>1. PICK i \in 1..Len(ring) : t = ring[i]
    BY <1>4, Zenon DEF Linked
  <2> QED
    BY <1>1, <2>1 DEF InRing, Chained
<1>6. ASSUME NEW t \in InRing PROVE t \in Linked
  <2>1. t + 1 \in 1..Len(ring) /\ ring[t + 1] = t
    BY <1>1 DEF InRing, Chained
  <2> QED
    BY <2>1, <1>4, ZenonT(60) DEF Linked
<1> QED
  BY <1>3, <1>5, <1>6, Zenon

\* A statement outside os_task_create and os_task_add keeps the invariant.
LEMMA Aside ==
    ASSUME RingInv, SameRing, NEW at \in Statements \ (Adding \cup Counting), NEW op \in Kinds,
           Moved(at, op), th[Kernel].at \notin Adding \cup Counting,
           at \in {"find"} \cup Marking => op \in {"pause", "resume"},
           at \in Waking => op = "resume", at = "create" => op = "load"
    PROVE  RingInv'
<1> USE DEF RingInv, Moved, Moves, SameRing, SameLinks
<1>1. Types'
  BY Zenon DEF Types
<1>2. Alone'
  BY ZenonT(60) DEF Alone, Adding, Counting
<1>3. Chained'
  <2>1. InRing' = InRing /\ InRing \subseteq Tasks /\ th'[Kernel].at \notin Adding /\ UNCHANGED <<ring, made>>
    BY RingFits, ZenonT(60) DEF InRing
  <2> QED
    BY <2>1, ZenonT(60) DEF Chained
<1>4. Counted'
  BY Zenon DEF Counted, Statements, Adding, Counting
<1> QED
  BY <1>1, <1>2, <1>3, <1>4, ZenonT(60)

\* So does a step that leaves the thread where it is.
LEMMA Undisturbed ==
    ASSUME RingInv, SameRing, th' = th
    PROVE  RingInv'
<1> USE DEF RingInv, SameRing, SameLinks
<1>1. Types'
  BY Zenon DEF Types
<1>2. Alone' /\ Counted'
  BY Zenon DEF Alone, Counted
<1>3. Chained'
  <2>1. /\ InRing' = InRing /\ InRing \subseteq Tasks /\ UNCHANGED <<ring, made>>
        /\ th[Kernel].at \in Adding => Len(ring) \in Tasks
    BY RingFits, ZenonT(60) DEF InRing, Chained
  <2> QED
    BY <2>1, Zenon DEF Chained
<1> QED
  BY <1>1, <1>2, <1>3, ZenonT(60)

\* os_task_next only marks tasks.
LEMMA TickSame ==
    ASSUME RingInv, SysTick
    PROVE  SameRing
<1> DEFINE marked == IF current = NULL THEN task ELSE [task EXCEPT ![current].status = "idle"]
<1>1. Shaped(task)
  BY Zenon DEF RingInv, Types
<1>2. Shaped(marked) /\ SameLinks(marked, task)
  <2>1. CASE current = NULL
    BY <1>1, <2>1, ZenonT(60) DEF SameLinks
  <2>2. CASE current # NULL
    <3>1. marked = [task EXCEPT ![current].status = "idle"]
      BY <2>2, Zenon
    <3> QED
      <4>1. SameLinks([task EXCEPT ![current].status = "idle"], task)
        BY <1>1, Marked, Zenon
      <4> QED
        BY <3>1, <4>1, Zenon DEF SameLinks
  <2> QED
    BY <2>1, <2>2, ZenonT(60)
<1>3. PICK to \in Tasks : task' = [marked EXCEPT ![to].status = "active"]
  BY Zenon DEF SysTick, os_task_next, Skip
<1> HIDE DEF marked
<1>4. SameLinks(task', marked)
  BY <1>2, <1>3, Marked, Zenon
<1>5. UNCHANGED <<made, freed, count, ring>>
  BY Zenon DEF SysTick, history
<1> QED
  BY <1>2, <1>4, <1>5, ZenonT(60) DEF SameRing, SameLinks

\* The statements of os_task_create and os_task_add.
LEMMA AddStep ==
    ASSUME RingInv, Create(Kernel) \/ Fill(Kernel) \/ Add(Kernel) \/ Walk(Kernel) \/ Link(Kernel)
                       \/ ReadCount(Kernel) \/ WriteCount(Kernel)
    PROVE  RingInv'
<1> USE DEF RingInv
<1> DEFINE me == th[Kernel]
<1>f. Len(ring) \in 1..MaxTasks /\ InRing \subseteq Tasks /\ Kernel \in InRing
  BY RingFits, ZenonT(60)
<1>g. Kernel \in Tasks /\ DOMAIN th = Tasks /\ \A t \in Tasks : DOMAIN th[t] = ThreadFields
  BY SystemTask, Zenon DEF Types
<1>s. Shaped(task) => (UNCHANGED <<task, made, freed, count, ring>> => SameRing)
  BY Zenon DEF SameRing, SameLinks
<1>1. CASE Create(Kernel)
  <2>1. CASE Returns(Kernel) /\ UNCHANGED made /\ UNCHANGED freed
    <3>1. SameRing
      BY <1>1, <1>s, <2>1, ZenonT(60) DEF Create, Types, globals, history
    <3>2. th[Kernel].at = "create"
      BY <1>1, Zenon DEF Create, At
    <3>3. Moves("run", "none", NULL, NULL, 0)
      BY <2>1, Returning, Zenon
    <3> QED
      BY <3>1, <3>2, <3>3, Aside, SMTT(60) DEF Moved, Kinds, Statements, Adding, Counting, Marking, Waking
  <2>2. CASE ~(Returns(Kernel) /\ UNCHANGED made /\ UNCHANGED freed)
    <3>1. PICK x \in (Tasks \ made) \cup freed :
             /\ \A y \in (Tasks \ made) \cup freed : x <= y
             /\ made' = made \cup {x} /\ freed' = freed \ {x}
             /\ th' = [th EXCEPT ![x] = Idle,
                                 ![Kernel].at = "fill", ![Kernel].task = x, ![Kernel].n = next_pid]
      BY <1>1, <2>2, ZenonT(60) DEF Create
    <3>2. th[Kernel].at = "create" /\ UNCHANGED <<task, count, ring>>
      BY <1>1, ZenonT(60) DEF Create, At, globals, history
    <3>3. made = InRing /\ freed = {}
      BY <3>2, ZenonT(60) DEF Chained, Alone, Adding
    <3>4. x = Len(ring) /\ x \in Tasks /\ x # Kernel
      <4>1. x \in Nat /\ x <= MaxTasks - 1 /\ ~(x \in 0..Len(ring) - 1)
        BY <3>1, <3>3, Sizes, SMTT(60) DEF InRing, Tasks
      <4>2. Len(ring) \in Tasks \ made
        BY <1>f, <3>3, <4>1, Sizes, SMTT(60) DEF InRing, Tasks
      <4>3. x <= Len(ring)
        BY <3>1, <4>2, ZenonT(60)
      <4> QED
        BY <1>f, <4>1, <4>2, <4>3, SMTT(60) DEF Kernel
    <3>5. th[x] = Idle
      BY <3>4, ZenonT(60) DEF Alone
    <3>6. Moves("fill", th[Kernel].op, x, th[Kernel].ptr, next_pid)
      BY <1>g, <3>1, <3>4, <3>5, ZenonT(60) DEF Moves, ThreadFields
    <3>7. made' = 0..Len(ring)
      BY <1>f, <3>1, <3>3, <3>4, SMTT(60) DEF InRing
    <3>8. Types' /\ Alone'
      BY <3>1, <3>2, <3>3, <3>6, SMTT(60) DEF Types, Alone, Moves, Statements, Adding, Counting, Marking, Waking
    <3>9. Chained' /\ Counted'
      BY <3>2, <3>4, <3>6, <3>7, ZenonT(60) DEF Chained, Counted, Moves, Adding, Counting, InRing
    <3> QED
      BY <3>8, <3>9, ZenonT(60)
  <2> QED
    BY <2>1, <2>2, ZenonT(60)
<1>2. CASE Fill(Kernel)
  <2>1. /\ th[Kernel].at = "fill" /\ UNCHANGED <<made, freed, count, ring>>
        /\ task' = [task EXCEPT ![th[Kernel].task] = [next |-> Kernel, status |-> "idle", pid |-> th[Kernel].n]]
    BY <1>2, ZenonT(60) DEF Fill, At, history
  <2>2. Moves("add", th[Kernel].op, th[Kernel].task, th[Kernel].ptr, th[Kernel].n)
    BY <1>2, Going, ZenonT(60) DEF Fill
  <2>3. th[Kernel].task = Len(ring) /\ Len(ring) \in Tasks
    BY <2>1, ZenonT(60) DEF Chained, Adding
  <2>4. /\ Shaped(task') /\ task'[Len(ring)].next = Kernel
        /\ \A t \in Tasks \ {Len(ring)} : task'[t] = task[t]
    BY <2>1, <2>3, ZenonT(60) DEF Types, Shaped
  <2>5. Len(ring) \notin InRing
    BY <1>f DEF InRing
  <2>6. Types' /\ Alone'
    BY <2>1, <2>2, <2>4, ZenonT(60) DEF Types, Alone, Moves, Statements, Adding, Counting, Marking, Waking
  <2>7. Chained' /\ Counted'
    BY <1>f, <2>1, <2>2, <2>3, <2>4, <2>5 DEF Chained, Counted, Moves, Adding, Counting, InRing
  <2> QED
    BY <2>6, <2>7, ZenonT(60)
<1>3. CASE Add(Kernel)
  <2>1. th[Kernel].at = "add" /\ UNCHANGED <<task, made, freed, count, ring>> /\ count = Len(ring)
    <3>1. th[Kernel].at = "add" /\ UNCHANGED <<task, made, freed, count, ring>>
      BY <1>3, Zenon DEF Add, At, memory, globals, history
    <3> QED
      BY <3>1, ZenonT(60) DEF Counted, Counting
  <2>2. Moves("walk", th[Kernel].op, th[Kernel].task, Kernel, count)
    <3>1. th' = [th EXCEPT ![Kernel].at = "walk", ![Kernel].ptr = Kernel, ![Kernel].n = count]
      <4>1. count # 0
        BY <1>f, <2>1, SMTT(60)
      <4> QED
        BY <1>3, <4>1, ZenonT(60) DEF Add
    <3> QED
      BY <1>g, <3>1, ZenonT(60) DEF Moves, ThreadFields
  <2>3. Types' /\ Alone'
    BY <2>1, <2>2, ZenonT(60) DEF Types, Alone, Moves, Statements, Adding, Counting, Marking, Waking
  <2>4. Chained' /\ Counted'
    BY <1>f, <2>1, <2>2 DEF Chained, Counted, Moves, Adding, Counting, InRing, Kernel
  <2> QED
    BY <2>3, <2>4, ZenonT(60)
<1>4. CASE Walk(Kernel)
  <2>1. th[Kernel].at = "walk" /\ UNCHANGED <<task, made, freed, count, ring>>
    BY <1>4, ZenonT(60) DEF Walk, At, memory, globals, history
  <2>2. me.n \in 1..Len(ring) /\ me.ptr = Len(ring) - me.n /\ count = Len(ring)
    BY <2>1, Zenon DEF Counted, Counting
  <2>3. CASE me.n = 1
    <3>1. Moves("link", me.op, me.task, me.ptr, me.n)
      <4>1. Goes(Kernel, "link")
        BY <1>4, <2>3, ZenonT(60) DEF Walk, Goes
      <4> QED
        BY <4>1, Going, Zenon
    <3>2. Types' /\ Alone'
      BY <2>1, <3>1, SMTT(60) DEF Types, Alone, Moves, Statements, Adding, Counting, Marking, Waking
    <3>3. Chained' /\ Counted'
      BY <1>f, <2>1, <2>2, <2>3, <3>1, Zenon DEF Chained, Counted, Moves, Adding, Counting, InRing, Kernel
    <3> QED
      BY <3>2, <3>3, Zenon
  <2>4. CASE me.n # 1
    <3>1. me.ptr \in InRing /\ task[me.ptr].next = me.ptr + 1
      <4>1. me.ptr \in InRing /\ me.ptr # Len(ring) - 1
        BY <1>f, <2>2, <2>4, SMTT(60) DEF InRing
      <4>2. task[me.ptr].next = IF me.ptr = Len(ring) - 1 THEN Kernel ELSE me.ptr + 1
        BY <4>1, Zenon DEF Chained
      <4> QED
        BY <4>1, <4>2, Zenon
    <3>2. Moves("walk", me.op, me.task, me.ptr + 1, me.n - 1)
      <4>1. th' = [th EXCEPT ![Kernel].n = @ - 1, ![Kernel].ptr = task[@].next]
        BY <1>4, <2>4, ZenonT(60) DEF Walk
      <4>2. th' = [th EXCEPT ![Kernel] = [[me EXCEPT !.n = @ - 1] EXCEPT !.ptr = task[@].next]]
        BY <1>g, <4>1, Zenon
      <4>3. th'[Kernel] = [[me EXCEPT !.n = @ - 1] EXCEPT !.ptr = task[@].next]
        BY <1>g, <4>2, ZenonT(60)
      <4> QED
        BY <1>g, <2>1, <3>1, <4>2, <4>3, ZenonT(60) DEF Moves, ThreadFields
    <3>3. Types' /\ Alone'
      BY <2>1, <3>2, ZenonT(60) DEF Types, Alone, Moves, Statements, Adding, Counting, Marking, Waking
    <3>4. Chained' /\ Counted'
      BY <1>f, <2>1, <2>2, <2>4, <3>2, SMTT(60) DEF Chained, Counted, Moves, Adding, Counting, InRing, Kernel
    <3> QED
      BY <3>3, <3>4, ZenonT(60)
  <2> QED
    BY <2>3, <2>4, ZenonT(60)
<1>5. CASE Link(Kernel)
  <2>1. /\ th[Kernel].at = "link" /\ UNCHANGED <<made, freed, count>>
        /\ task' = [task EXCEPT ![me.ptr].next = me.task] /\ ring' = Append(ring, me.task)
    BY <1>5, ZenonT(60) DEF Link, At, globals
  <2>2. Moves("count", me.op, me.task, me.ptr, me.n)
    BY <1>5, Going, Zenon DEF Link
  <2>3. me.task = Len(ring) /\ Len(ring) \in Tasks /\ me.ptr = Len(ring) - 1 /\ count = Len(ring)
    BY <2>1, ZenonT(60) DEF Chained, Counted, Adding, Counting
  <2>4. me.ptr \in Tasks
    BY <1>f, <2>3 DEF InRing
  <2>5. /\ Shaped(task') /\ task'[Len(ring) - 1].next = Len(ring)
        /\ \A t \in Tasks \ {Len(ring) - 1} : task'[t] = task[t]
    BY <2>1, <2>3, <2>4, ZenonT(60) DEF Types, Shaped
  <2>6. /\ ring' \in Seq(Tasks) /\ Len(ring') = Len(ring) + 1 /\ ring' # <<>>
        /\ \A i \in 1..Len(ring) + 1 : ring'[i] = i - 1
    BY <1>f, <2>1, <2>3, SMTT(60) DEF Types, Chained
  <2>7. Types' /\ Alone'
    BY <2>1, <2>2, <2>5, <2>6, SMTT(60) DEF Types, Alone, Moves, Statements, Adding, Counting, Marking, Waking
  <2>8. InRing' = 0..Len(ring) /\ InRing = 0..Len(ring) - 1
    BY <1>f, <2>6 DEF InRing
  <2>9. \A t \in InRing' : task'[t].next = IF t = Len(ring) THEN Kernel ELSE t + 1
    <3>1. task[Len(ring)].next = Kernel
      BY <2>1, ZenonT(60) DEF Chained, Adding
    <3>2. \A t \in InRing : t # Len(ring) - 1 => task[t].next = t + 1
      BY ZenonT(60) DEF Chained
    <3> QED
      <4> TAKE t \in InRing'
      <4>1. CASE t = Len(ring)
        <5>1. t \in Tasks \ {Len(ring) - 1}
          BY <1>f, <2>3, <4>1, SMTT(60)
        <5> QED
          BY <2>5, <3>1, <4>1, <5>1, ZenonT(60)
      <4>2. CASE t = Len(ring) - 1
        BY <1>f, <2>5, <4>2, SMTT(60)
      <4>3. CASE t \notin {Len(ring), Len(ring) - 1}
        <5>1. t \in InRing /\ t \in Tasks \ {Len(ring) - 1}
          BY <1>f, <2>8, <4>3
        <5>2. task[t].next = t + 1 /\ task'[t] = task[t]
          BY <2>5, <3>2, <5>1, ZenonT(60)
        <5> QED
          BY <4>3, <5>2, ZenonT(60)
      <4> QED
        BY <4>1, <4>2, <4>3, Zenon
  <2>10. Chained'
    BY <1>f, <2>1, <2>2, <2>6, <2>8, <2>9, SMTT(60) DEF Chained, Moves, Adding
  <2>11. Counted'
    BY <1>f, <2>1, <2>2, <2>3, <2>6 DEF Counted, Moves, Adding, Counting
  <2> QED
    BY <2>7, <2>10, <2>11, ZenonT(60)
<1>6. CASE ReadCount(Kernel)
  <2>1. th[Kernel].at = "count" /\ UNCHANGED <<task, made, freed, count, ring>>
    BY <1>6, ZenonT(60) DEF ReadCount, At, memory, globals, history
  <2>2. Moves("counted", me.op, me.task, me.ptr, count)
    <3>1. th' = [th EXCEPT ![Kernel].at = "counted", ![Kernel].n = count]
      BY <1>6, ZenonT(60) DEF ReadCount
    <3> QED
      BY <1>g, <3>1, ZenonT(60) DEF Moves, ThreadFields
  <2>3. Types' /\ Alone'
    BY <2>1, <2>2, SMTT(60) DEF Types, Alone, Moves, Statements, Adding, Counting, Marking, Waking
  <2>4. Chained' /\ Counted'
    BY <1>f, <2>1, <2>2, Zenon DEF Chained, Counted, Moves, Adding, Counting, InRing
  <2> QED
    BY <2>3, <2>4, ZenonT(60)
<1>7. CASE WriteCount(Kernel)
  <2>1. th[Kernel].at = "counted" /\ UNCHANGED <<task, made, freed, ring>> /\ me.op = "load"
    BY <1>7, ZenonT(60) DEF WriteCount, At, memory, history, Alone, Counting
  <2>2. Moves("next", me.op, me.task, me.ptr, me.n)
    BY <1>7, <2>1, Going, ZenonT(60) DEF WriteCount
  <2>3. count' = Len(ring)
    <3>1. me.n = Len(ring) - 1 /\ count' = (me.n + 1) % 256
      BY <1>7, <2>1, ZenonT(60) DEF WriteCount, Counted, Counting
    <3>2. ((Len(ring) - 1) + 1) % 256 = Len(ring)
      BY <1>f, NoOverflow, ZenonT(60)
    <3> QED
      BY <3>1, <3>2, ZenonT(60)
  <2>4. Types' /\ Alone'
    BY <2>1, <2>2, ZenonT(60) DEF Types, Alone, Moves, Statements, Adding, Counting, Marking, Waking, Choosing
  <2>5. Chained' /\ Counted'
    BY <1>f, <2>1, <2>2, <2>3, ZenonT(60) DEF Chained, Counted, Moves, Adding, Counting, InRing
  <2> QED
    BY <2>4, <2>5, Zenon
<1> QED
  BY <1>1, <1>2, <1>3, <1>4, <1>5, <1>6, <1>7, ZenonT(60)

\* A call begins.
LEMMA CallStep ==
    ASSUME SystemTaskCalls({"load", "pause", "resume"}), RingInv, Calls(Kernel)
    PROVE  /\ SameRing /\ th[Kernel].at = "run"
           /\ \/ Moves("create", "load", NULL, NULL, 0)
              \/ /\ \E op \in Operations \cap {"pause", "resume"} : Moves("find", op, NULL, Kernel, 0)
                 /\ th'[Kernel].pid \in 1..MaxPid
<1>1. SameRing /\ th[Kernel].at = "run"
  BY Zenon DEF RingInv, Types, Calls, At, SameRing, SameLinks, memory, globals, history
<1>2. ASSUME th' = [th EXCEPT ![Kernel] = [Idle EXCEPT !.at = "create", !.op = "load"]]
      PROVE  Moves("create", "load", NULL, NULL, 0)
  <2> DEFINE r == [Idle EXCEPT !.at = "create", !.op = "load"]
  <2>1. /\ DOMAIN r = ThreadFields /\ r.at = "create" /\ r.op = "load"
        /\ r.task = NULL /\ r.ptr = NULL /\ r.n = 0
    BY Zenon DEF Idle, ThreadFields
  <2> HIDE DEF r
  <2> QED
    BY <1>2, <2>1, Update, Zenon DEF RingInv, r
<1>3. ASSUME NEW op \in Operations \cap {"pause", "resume"}, NEW pid \in 1..MaxPid,
             th' = [th EXCEPT ![Kernel] = [Idle EXCEPT !.at = "find", !.op = op, !.pid = pid, !.ptr = Kernel]]
      PROVE  Moves("find", op, NULL, Kernel, 0) /\ th'[Kernel].pid \in 1..MaxPid
  <2> DEFINE r == [Idle EXCEPT !.at = "find", !.op = op, !.pid = pid, !.ptr = Kernel]
  <2>1. /\ DOMAIN r = ThreadFields /\ r.at = "find" /\ r.op = op /\ r.pid = pid
        /\ r.task = NULL /\ r.ptr = Kernel /\ r.n = 0
    BY Zenon DEF Idle, ThreadFields
  <2> HIDE DEF r
  <2>2. th' = [th EXCEPT ![Kernel] = r]
    BY <1>3, Zenon DEF r
  <2> QED
    BY <2>1, <2>2, Update, Zenon DEF RingInv
<1>4. "stop" \notin Operations /\ "finish" \notin Operations
  BY Zenon DEF SystemTaskCalls
<1> QED
  BY <1>1, <1>2, <1>3, <1>4, ZenonT(60) DEF Calls

\* os_task_next in a thread.
LEMMA NextStep ==
    ASSUME RingInv, NextIdle(Kernel) \/ NextAdvance(Kernel) \/ NextCheck(Kernel) \/ NextActivate(Kernel)
                       \/ NextPend(Kernel)
    PROVE  RingInv'
<1> DEFINE me == th[Kernel]
<1>g. Kernel \in Tasks /\ DOMAIN th = Tasks /\ \A t \in Tasks : DOMAIN th[t] = ThreadFields
  BY SystemTask, Zenon DEF RingInv, Types
<1>1. me.at \in Choosing
  BY Zenon DEF NextIdle, NextAdvance, NextCheck, NextActivate, NextPend, At, Choosing
<1>t. Types /\ Shaped(task)
  BY Zenon DEF RingInv, Types
<1>2. SameRing
  <2>1. UNCHANGED <<made, freed, count, ring>>
    BY Zenon DEF NextIdle, NextAdvance, NextCheck, NextActivate, NextPend, memory, globals, history
  <2>2. \/ task' = task
        \/ \E a : task' = [task EXCEPT ![a].status = "idle"]
        \/ \E a : task' = [task EXCEPT ![a].status = "active"]
    BY Zenon DEF NextIdle, NextAdvance, NextCheck, NextActivate, NextPend, memory
  <2>3. SameLinks(task, task)
    BY <1>t, Zenon DEF SameLinks
  <2>4. \A a, st : SameLinks([task EXCEPT ![a].status = st], task)
    BY <1>t, Marked, ZenonT(60)
  <2>5. SameLinks(task', task)
    <3>1. CASE task' = task
      BY <2>3, <3>1, ZenonT(60)
    <3>2. ASSUME NEW a, NEW st, task' = [task EXCEPT ![a].status = st] PROVE SameLinks(task', task)
      BY <2>4, <3>2, Zenon
    <3> QED
      BY <2>2, <3>1, <3>2, ZenonT(60)
  <2> QED
    BY <2>1, <2>5, ZenonT(60) DEF SameRing
<1>p. me.op \in Kinds
  BY Zenon DEF RingInv, Alone
<1>3. \E at \in Choosing \cup {"run", "mark"}, op \in Kinds : Moved(at, op) /\ (at = "mark" => op = "pause")
  <2>1. ASSUME NEW at \in Choosing, Goes(Kernel, at)
        PROVE  Moved(at, me.op)
    BY <1>t, <2>1, Going, ZenonT(60) DEF Moved
  <2>2. ASSUME NEW at, NEW p, th' = [th EXCEPT ![Kernel].at = at, ![Kernel].ptr = p]
        PROVE  Moved(at, me.op)
    <3>1. Moves(at, me.op, me.task, p, me.n)
      BY <1>g, <2>2, Zenon DEF Moves, ThreadFields
    <3> QED
      BY <3>1, Zenon DEF Moved
  <2>c. "mark" \notin Choosing /\ {"advance", "check", "activate", "pend"} \subseteq Choosing
    BY Zenon DEF Choosing
  <2>3. CASE NextIdle(Kernel)
    <3>1. \/ Goes(Kernel, "advance")
          \/ \E p : th' = [th EXCEPT ![Kernel].at = "check", ![Kernel].ptr = p]
      BY <2>3, Zenon DEF NextIdle
    <3>2. Moved("advance", me.op) \/ Moved("check", me.op)
      BY <2>1, <2>2, <2>c, <3>1, ZenonT(60)
    <3> QED
      BY <1>p, <2>c, <3>2, Zenon
  <2>4. CASE NextAdvance(Kernel)
    <3>1. \E p : th' = [th EXCEPT ![Kernel].at = "check", ![Kernel].ptr = p]
      BY <2>4, Zenon DEF NextAdvance
    <3>2. Moved("check", me.op)
      BY <2>2, <3>1, Zenon
    <3> QED
      BY <1>p, <2>c, <3>2, Zenon
  <2>5. CASE NextCheck(Kernel)
    <3>1. \/ \E p : th' = [th EXCEPT ![Kernel].ptr = p]
          \/ \E p : th' = [th EXCEPT ![Kernel].at = "activate", ![Kernel].ptr = p]
      BY <2>5, Zenon DEF NextCheck
    <3>2. ASSUME NEW p, th' = [th EXCEPT ![Kernel].ptr = p]
          PROVE  Moved(me.at, me.op)
      <4>1. Moves(me.at, me.op, me.task, p, me.n)
        BY <1>g, <3>2, Zenon DEF Moves, ThreadFields
      <4> QED
        BY <4>1, Zenon DEF Moved
    <3>3. Moved(me.at, me.op) \/ Moved("activate", me.op)
      BY <2>2, <3>1, <3>2, Zenon
    <3> QED
      BY <1>1, <1>p, <2>c, <3>3, ZenonT(60)
  <2>6. CASE NextActivate(Kernel)
    <3>1. Moved("pend", me.op)
      BY <2>1, <2>6, <2>c, ZenonT(60) DEF NextActivate
    <3> QED
      BY <1>p, <2>c, <3>1, Zenon
  <2>7. CASE NextPend(Kernel)
    <3>1. CASE me.op = "pause"
      <4>1. Goes(Kernel, "mark")
        BY <2>7, <3>1, Zenon DEF NextPend
      <4>2. Moved("mark", me.op)
        BY <1>t, <4>1, Going, Zenon DEF Moved
      <4> QED
        BY <1>p, <3>1, <4>2, Zenon
    <3>2. CASE me.op # "pause"
      <4>1. me.op \notin {"stop", "finish"}
        BY <1>p, Zenon DEF Kinds
      <4>2. Returns(Kernel)
        BY <2>7, <3>2, <4>1, ZenonT(60) DEF NextPend
      <4>3. Moved("run", "none") /\ "none" \in Kinds /\ "run" # "mark"
        BY <1>t, <4>2, Returning, ZenonT(60) DEF Moved, Kinds
      <4> QED
        BY <4>3, Zenon
    <3> QED
      BY <3>1, <3>2, Zenon
  <2> QED
    BY <2>3, <2>4, <2>5, <2>6, <2>7, ZenonT(60)
<1>4. PICK at \in Choosing \cup {"run", "mark"}, op \in Kinds : Moved(at, op) /\ (at = "mark" => op = "pause")
  BY <1>3, Zenon
<1>5. me.at \notin Adding \cup Counting
  BY <1>1, Zenon DEF Choosing, Adding, Counting
<1>6. /\ at \in Statements \ (Adding \cup Counting) /\ at \notin Waking /\ at # "create"
      /\ at \in {"find"} \cup Marking => at = "mark"
  BY Zenon DEF Statements, Choosing, Marking, Waking, Adding, Counting
<1> QED
  BY <1>2, <1>4, <1>5, <1>6, Aside, ZenonT(60)

\* os_task_from_pid, os_task_pause and os_task_resume.
LEMMA MarkStep ==
    ASSUME RingInv, Find(Kernel) \/ PauseFound(Kernel) \/ PauseMark(Kernel) \/ ResumeWake(Kernel)
                       \/ ResumeIdle(Kernel) \/ Clear(Kernel) \/ Choose(Kernel)
    PROVE  RingInv'
<1> DEFINE me == th[Kernel]
<1>g. Kernel \in Tasks /\ DOMAIN th = Tasks /\ \A t \in Tasks : DOMAIN th[t] = ThreadFields
  BY SystemTask, ZenonT(60) DEF RingInv, Types
<1>1. me.at \in {"find"} \cup Marking \cup Waking
  BY Zenon DEF Find, PauseFound, PauseMark, ResumeWake, ResumeIdle, Clear, Choose, At, Marking, Waking
<1>t. Types /\ Shaped(task)
  BY Zenon DEF RingInv, Types
<1>2. SameRing
  <2>1. UNCHANGED <<made, freed, count, ring>>
    BY Zenon DEF Find, PauseFound, PauseMark, ResumeWake, ResumeIdle, Clear, Choose, memory, globals, history
  <2>2. task' = task \/ \E a, st : task' = [task EXCEPT ![a].status = st]
    BY Zenon DEF Find, PauseFound, PauseMark, ResumeWake, ResumeIdle, Clear, Choose, memory
  <2>3. SameLinks(task, task)
    BY <1>t, Zenon DEF SameLinks
  <2>4. \A a, st : SameLinks([task EXCEPT ![a].status = st], task)
    BY <1>t, Marked, Zenon
  <2>5. SameLinks(task', task)
    <3>1. CASE task' = task
      BY <2>3, <3>1, Zenon
    <3>2. ASSUME NEW a, NEW st, task' = [task EXCEPT ![a].status = st] PROVE SameLinks(task', task)
      BY <2>4, <3>2, ZenonT(60)
    <3> QED
      BY <2>2, <3>1, <3>2, Zenon
  <2> QED
    BY <2>1, <2>5, Zenon DEF SameRing
<1>p. /\ me.op \in {"pause", "resume"} /\ me.op \in Kinds
      /\ me.at \in Waking => me.op = "resume"
  BY <1>1, Zenon DEF RingInv, Alone, Kinds
<1>r. Returns(Kernel) => Moved("run", "none")
  BY <1>t, Returning, Zenon DEF Moved
<1>o. \A at : Goes(Kernel, at) => Moved(at, me.op)
  BY <1>t, Going, Zenon DEF Moved
<1>3. \E at \in {"run", "find", "next"} \cup Marking \cup Waking, op \in Kinds :
          /\ Moved(at, op) /\ (at # "run" => op = me.op)
          /\ at \in Waking => op = "resume"
  <2>1. CASE Returns(Kernel)
    <3>1. "none" \in Kinds /\ "run" \notin Waking
      BY Zenon DEF Kinds, Waking
    <3> QED
      BY <1>r, <2>1, <3>1, Zenon
  <2>2. CASE Find(Kernel) /\ ~Returns(Kernel)
    <3>1. CASE task[me.ptr].pid = me.pid
      <4>1. me.op \notin {"stop", "finish"}
        BY <1>p, Zenon DEF Kinds
      <4> DEFINE to == IF me.op = "pause" THEN "found" ELSE "wake"
      <4>2. to \in Marking \cup Waking /\ (to \in Waking => me.op = "resume")
        BY <1>p, Zenon DEF Marking, Waking
      <4>3. th' = [th EXCEPT ![Kernel].task = me.ptr, ![Kernel].ptr = NULL, ![Kernel].at = to]
        <5>1. (CASE me.op = "pause" -> "found" [] me.op = "resume" -> "wake" [] OTHER -> "release") = to
          BY <1>p, Zenon
        <5>2. th' = [th EXCEPT ![Kernel].task = me.ptr, ![Kernel].ptr = NULL,
                       ![Kernel].at = CASE me.op = "pause" -> "found"
                                         [] me.op = "resume" -> "wake"
                                         [] OTHER -> "release"]
          BY <2>2, <3>1, Zenon DEF Find
        <5> QED
          BY <5>1, <5>2, Zenon
      <4> HIDE DEF to
      <4>4. Moves(to, me.op, me.ptr, NULL, me.n)
        BY <1>g, <4>3, Zenon DEF Moves, ThreadFields
      <4> QED
        BY <1>p, <4>2, <4>4, ZenonT(60) DEF Moved
    <3>2. CASE task[me.ptr].pid # me.pid
      <4>1. th' = [th EXCEPT ![Kernel].ptr = task[@].next, ![Kernel].n = @ + 1]
        BY <2>2, <3>2, Zenon DEF Find
      <4>2. Moves(me.at, me.op, me.task, task[me.ptr].next, me.n + 1)
        BY <1>g, <4>1, ZenonT(60) DEF Moves, ThreadFields
      <4>3. me.at = "find" /\ "find" \notin Waking
        BY <2>2, Zenon DEF Find, At, Waking
      <4> QED
        BY <1>p, <4>2, <4>3, ZenonT(60) DEF Moved
    <3> QED
      BY <3>1, <3>2, Zenon
  <2>3. CASE PauseFound(Kernel)
    <3>1. Moved("next", me.op) \/ Moved("mark", me.op)
      BY <1>o, <2>3, Zenon DEF PauseFound
    <3>2. "mark" \in Marking /\ "next" \notin Waking /\ "mark" \notin Waking
      BY Zenon DEF Marking, Waking
    <3> QED
      BY <1>p, <3>1, <3>2, ZenonT(60)
  <2>4. CASE ResumeWake(Kernel) \/ ResumeIdle(Kernel) \/ Clear(Kernel)
    <3>1. \E at \in Waking : Moved(at, me.op)
      BY <1>o, <2>4, ZenonT(60) DEF ResumeWake, ResumeIdle, Clear, Waking
    <3>2. me.at \in Waking
      BY <2>4, Zenon DEF ResumeWake, ResumeIdle, Clear, At, Waking
    <3> QED
      BY <1>p, <3>1, <3>2, Zenon
  <2>5. CASE Choose(Kernel)
    <3>1. Moved("next", me.op)
      BY <1>o, <2>5, Zenon DEF Choose
    <3>2. "next" \notin Waking
      BY Zenon DEF Waking
    <3> QED
      BY <1>p, <3>1, <3>2, ZenonT(60)
  <2> QED
    BY <2>1, <2>2, <2>3, <2>4, <2>5, ZenonT(60) DEF PauseMark
<1>4. PICK at \in {"run", "find", "next"} \cup Marking \cup Waking, op \in Kinds :
          /\ Moved(at, op) /\ (at # "run" => op = me.op)
          /\ at \in Waking => op = "resume"
  BY <1>3, Zenon
<1>5. me.at \notin Adding \cup Counting
  BY <1>1, ZenonT(60) DEF Marking, Waking, Adding, Counting
<1>6. /\ at \in Statements \ (Adding \cup Counting) /\ at # "create"
      /\ at \in {"find"} \cup Marking => at # "run"
  BY Zenon DEF Statements, Choosing, Marking, Waking, Adding, Counting
<1> QED
  BY <1>2, <1>4, <1>5, <1>6, <1>p, Aside, Zenon

\* Every step keeps the ring.
LEMMA RingStep ==
    ASSUME SystemTaskCalls({"load", "pause", "resume"}), RingInv, [Next]_vars
    PROVE  RingInv'
<1>t. Shaped(task)
  BY Zenon DEF RingInv, Types
<1>1. CASE SysTick
  <2>1. th' = th
    BY <1>1, Zenon DEF SysTick
  <2> QED
    BY <1>1, <2>1, TickSame, Undisturbed, Zenon
<1>2. CASE PendSV \/ Switch \/ UNCHANGED vars
  <2>1. UNCHANGED <<task, made, freed, count, ring, th>>
    BY <1>2, Zenon DEF PendSV, Switch, vars, memory, globals, history
  <2>2. SameRing
    BY <1>t, <2>1, Zenon DEF SameRing, SameLinks
  <2> QED
    BY <2>1, <2>2, Undisturbed, Zenon
<1>3. CASE Calls(Kernel)
  <2>1. \/ Moved("create", "load")
        \/ \E op \in {"pause", "resume"} : Moved("find", op)
    BY <1>3, CallStep, Zenon DEF Moved
  <2>2. SameRing /\ th[Kernel].at = "run"
    BY <1>3, CallStep, Zenon
  <2>3. /\ th[Kernel].at \notin Adding \cup Counting
        /\ {"create", "find"} \subseteq Statements \ (Adding \cup Counting)
        /\ {"create", "find"} \cap Waking = {} /\ "create" \notin {"find"} \cup Marking
        /\ {"load", "pause", "resume"} \subseteq Kinds /\ "find" # "create"
    BY <2>2, Zenon DEF Statements, Adding, Counting, Waking, Marking, Kinds
  <2>4. CASE Moved("create", "load")
    BY <2>2, <2>3, <2>4, Aside, Zenon
  <2>5. ASSUME NEW op \in {"pause", "resume"}, Moved("find", op)
        PROVE  RingInv'
    BY <2>2, <2>3, <2>5, Aside, Zenon
  <2> QED
    BY <2>1, <2>4, <2>5, Zenon
<1>4. CASE Thread(Kernel)
  <2>1. th[Kernel].at \in Statements
    BY Zenon DEF RingInv, Types
  <2>2. ~Release(Kernel) /\ ~Unlink(Kernel) /\ ~Free(Kernel)
    BY <2>1, Zenon DEF Release, Unlink, Free, At, Statements, Adding, Counting, Choosing, Marking, Waking
  <2> QED
    BY <1>4, <2>2, AddStep, NextStep, MarkStep, Zenon DEF Thread
<1> QED
  BY <1>1, <1>2, <1>3, <1>4, OnlyKernel, ZenonT(60) DEF Next, RingInv

\* The ring's invariant holds from os_scheduler_init on.
LEMMA RingHolds ==
    ASSUME SystemTaskCalls({"load", "pause", "resume"})
    PROVE  Spec => []RingInv
<1>1. Init => RingInv
  <2> SUFFICES ASSUME Init PROVE RingInv
    BY Zenon
  <2>1. ring = <<0>> /\ Len(ring) = 1 /\ ring[1] = 0 /\ ring \in Seq(Tasks) /\ ring # <<>>
    BY SystemTask DEF Init, Kernel
  <2>2. th[Kernel] = Idle /\ \A t \in Tasks : th[t] = Idle
    BY SystemTask, Zenon DEF Init
  <2>3. Types
    BY SystemTask, <2>1, <2>2, ZenonT(60) DEF Init, Types, Shaped, NoRecord, Idle, ThreadFields, Statements
  <2>4. Alone
    BY <2>2 DEF Init, Alone, Idle, Kinds, Adding, Counting, Marking, Waking
  <2>5. InRing = {0} /\ made = {0} /\ task[0].next = 0
    BY <2>1, SystemTask DEF Init, InRing, Kernel
  <2>6. Chained
    BY <2>1, <2>2, <2>5 DEF Chained, Idle, Adding, Kernel
  <2>7. Counted
    BY <2>1, <2>2 DEF Init, Counted, Idle, Counting
  <2> QED
    BY <2>3, <2>4, <2>6, <2>7, Zenon DEF RingInv
<1> QED
  BY <1>1, RingStep, PTL DEF Spec

\* For any number of tasks, as long as only the system task calls
\* os_load_application, os_task_pause and os_task_resume: the tasks that
\* os_task_add has linked form one ring from the system task back to it, between
\* any two statements, wherever SysTick and PendSV come.
THEOREM RingIsComplete ==
    ASSUME SystemTaskCalls({"load", "pause", "resume"})
    PROVE  Spec => []RingComplete
<1>1. RingInv => RingComplete
  <2> SUFFICES ASSUME RingInv PROVE RingComplete
    BY Zenon
  <2>1. /\ Types /\ Chained /\ Len(ring) \in Nat /\ Len(ring) >= 1 /\ DOMAIN ring = 1..Len(ring)
    BY RingFits DEF RingInv, Types
  <2>2. \A i \in DOMAIN ring : ring[i] = i - 1 /\ i - 1 \in InRing /\ i \in Nat
    <3> SUFFICES ASSUME NEW i \in 1..Len(ring)
                 PROVE  ring[i] = i - 1 /\ i - 1 \in InRing /\ i \in Nat
      BY <2>1, Zenon
    <3>1. ring[i] = i - 1
      BY Zenon DEF RingInv, Chained
    <3> QED
      BY <2>1, <3>1 DEF InRing
  <2>3. ring[1] = Kernel /\ ring # <<>>
    BY <2>1, <2>2 DEF Chained, Kernel
  <2>4. \A i, j \in DOMAIN ring : ring[i] = ring[j] => i = j
    BY <2>2
  <2>5. ASSUME NEW i \in DOMAIN ring
        PROVE  task[ring[i]].next = IF i = Len(ring) THEN Kernel ELSE ring[i + 1]
    <3>1. task[i - 1].next = IF i - 1 = Len(ring) - 1 THEN Kernel ELSE i
      BY <2>1, <2>2 DEF Chained
    <3>2. i # Len(ring) => ring[i + 1] = i
      BY <2>1, <2>2
    <3> QED
      BY <2>1, <2>2, <3>1, <3>2
  <2> QED
    BY <2>3, <2>4, <2>5, Zenon DEF RingComplete
<1> QED
  BY <1>1, RingHolds, PTL

\* Under the same calls, schedule.count is the number of linked tasks whenever no
\* call is under way, and no task is switched away inside a release; the count
\* cannot overflow its uint8_t.
THEOREM CountIsExact ==
    ASSUME SystemTaskCalls({"load", "pause", "resume"})
    PROVE  Spec => []CountIsRing
<1>1. RingInv => CountIsRing
  <2> SUFFICES ASSUME RingInv, \A t \in made \ freed : th[t].at = "run" \/ t \in SwitchedAway
               PROVE  count = Len(ring) + Cardinality(SwitchedAway)
    BY Zenon DEF CountIsRing
  <2>1. Kernel \in made \ freed
    BY RingFits, SystemTask DEF RingInv, Chained, Alone, InRing, Kernel
  <2>2. SwitchedAway = {}
    <3> SUFFICES ASSUME NEW t \in SwitchedAway PROVE FALSE
      BY Zenon
    <3>1. t \in made /\ th[t].task = t /\ t \notin Linked
      BY Zenon DEF SwitchedAway
    <3>2. Kernel \in Linked
      <4>1. 1 \in DOMAIN ring /\ ring[1] = Kernel
        BY RingFits DEF RingInv, Types, Chained, Kernel
      <4> QED
        BY <4>1, Zenon DEF Linked
    <3>3. t \in Tasks \ {Kernel}
      <4>1. t \in Tasks
        BY <3>1, RingFits DEF RingInv, Chained, InRing, Tasks
      <4> QED
        BY <3>1, <3>2, <4>1, Zenon
    <3>4. th[t] = Idle
      BY <3>3, Zenon DEF RingInv, Alone
    <3>5. t = NULL
      BY <3>1, <3>4 DEF Idle
    <3> QED
      BY <3>3, <3>5 DEF Tasks, NULL
  <2>3. count = Len(ring)
    BY <2>1, <2>2, Zenon DEF RingInv, Counted, Counting
  <2>4. Cardinality(SwitchedAway) = 0
    BY <2>2, FS_EmptySet, Zenon
  <2>5. Len(ring) \in Nat
    BY DEF RingInv, Types
  <2> QED
    BY <2>3, <2>4, <2>5
<1> QED
  BY <1>1, RingHolds, PTL

-----------------------------------------------------------------------------
\* A set of natural numbers that is not empty has a least element.
LEMMA Least ==
    ASSUME NEW S \in SUBSET Nat, S # {}
    PROVE  \E m \in S : \A k \in S : m <= k
<1> DEFINE R == OpToRel(<, Nat)
<1>1. IsWellFoundedOn(R, Nat)
  BY NatLessThanWellFounded, Zenon
<1>2. \A x, y \in Nat : x < y => <<x, y>> \in R
  BY Zenon DEF OpToRel
<1> HIDE DEF R
<1>3. PICK x \in S : \A y \in S : ~ (<<y, x>> \in R)
  BY <1>1, WFMin, Zenon
<1>4. ASSUME NEW k \in S PROVE x <= k
  <2>1. ~(k < x)
    BY <1>2, <1>3, Zenon
  <2> QED
    BY <2>1
<1> QED
  BY <1>4, Zenon

\* The loop of os_task_next does not leave a set of records that is closed under
\* next: there is a walk of every length, so that Follow is one.
LEMMA FollowStays ==
    ASSUME NEW r, NEW S, NEW t \in S, \A x \in S : r[x].next \in S, NEW k \in 0..MaxTasks
    PROVE  Follow(r, t)[k] \in S
<1> DEFINE Is(n, f) == f = [i \in 0..n |-> IF i = 0 THEN t ELSE r[f[i - 1]].next]
           Good == {n \in Nat : \E f \in [0..n -> S] : Is(n, f)}
           Bad == Nat \ Good
<1>1. Bad = {}
  <2> SUFFICES ASSUME Bad # {} PROVE FALSE
    BY Zenon
  <2>1. PICK m \in Bad : \A n \in Bad : m <= n
    BY Least, Zenon
  <2>2. CASE m = 0
    <3> DEFINE f == [i \in 0..0 |-> t]
    <3>1. f \in [0..0 -> S] /\ Is(0, f)
      OBVIOUS
    <3> QED
      BY <2>1, <2>2, <3>1, Zenon
  <2>3. CASE m # 0
    <3>1. m - 1 \in Nat /\ m - 1 \in Good
      <4>1. m - 1 \in Nat /\ ~(m <= m - 1)
        BY <2>3
      <4> QED
        BY <2>1, <4>1, Zenon
    <3>2. PICK f \in [0..m - 1 -> S] : Is(m - 1, f)
      BY <3>1, Zenon
    <3> DEFINE g == [i \in 0..m |-> IF i = 0 THEN t ELSE r[f[i - 1]].next]
    <3>3. \A i \in 0..m - 1 : g[i] = f[i] /\ f[i] \in S
      <4> SUFFICES ASSUME NEW i \in 0..m - 1 PROVE g[i] = f[i] /\ f[i] \in S
        BY Zenon
      <4>1. i \in 0..m
        BY <2>1
      <4>2. f[i] = IF i = 0 THEN t ELSE r[f[i - 1]].next
        BY <3>2, Zenon
      <4> QED
        BY <3>2, <4>1, <4>2, Zenon
    <3>4. g \in [0..m -> S]
      <4> SUFFICES ASSUME NEW i \in 0..m PROVE (IF i = 0 THEN t ELSE r[f[i - 1]].next) \in S
        BY Zenon
      <4>1. CASE i = 0
        BY <4>1, Zenon
      <4>2. CASE i # 0
        <5>1. i - 1 \in 0..m - 1
          BY <2>1, <4>2
        <5> QED
          BY <3>3, <4>2, <5>1, Zenon
      <4> QED
        BY <4>1, <4>2, Zenon
    <3>5. Is(m, g)
      <4>1. \A i \in 0..m : i # 0 => g[i - 1] = f[i - 1]
        <5> SUFFICES ASSUME NEW i \in 0..m PROVE i # 0 => g[i - 1] = f[i - 1]
          BY Zenon
        <5>1. i # 0 => i - 1 \in 0..m - 1
          BY <2>1
        <5> QED
          BY <3>3, <5>1, Zenon
      <4> QED
        BY <4>1, Zenon
    <3> QED
      BY <3>4, <3>5, <2>1, Zenon
  <2> QED
    BY <2>2, <2>3, Zenon
<1>n. MaxTasks \in Nat
  BY Sizes, Zenon
<1>2. PICK f \in [0..MaxTasks -> S] : Is(MaxTasks, f)
  BY <1>1, <1>n, Zenon
<1> DEFINE hop[i \in 0..MaxTasks] == IF i = 0 THEN t ELSE r[hop[i - 1]].next
<1>3. hop = CHOOSE h : Is(MaxTasks, h)
  BY Zenon DEF hop
<1>4. Is(MaxTasks, hop)
  BY <1>2, <1>3, Zenon
<1>5. Follow(r, t) = hop
  BY Zenon DEF Follow
<1> HIDE DEF hop, Good, Bad
<1>6. \A i \in 0..MaxTasks : hop[i] = IF i = 0 THEN t ELSE r[hop[i - 1]].next
  BY <1>4, Zenon
<1> DEFINE Out == {i \in 0..MaxTasks : hop[i] \notin S}
<1>7. Out = {}
  <2> SUFFICES ASSUME Out # {} PROVE FALSE
    BY Zenon
  <2>1. PICK m \in Out : \A n \in Out : m <= n
    <3>1. Out \in SUBSET Nat
      BY <1>n
    <3> QED
      BY <3>1, Least, Zenon
  <2>2. m # 0 /\ m - 1 \in 0..MaxTasks /\ m \in 0..MaxTasks
    <3>1. m \in 0..MaxTasks /\ hop[m] \notin S
      BY Zenon
    <3>2. m # 0
      BY <1>6, <3>1, Zenon
    <3> QED
      BY <1>n, <3>1, <3>2
  <2>3. m - 1 \notin Out
    BY <2>1, <2>2
  <2>4. hop[m - 1] \in S
    BY <2>2, <2>3, Zenon
  <2>5. hop[m] = r[hop[m - 1]].next
    BY <1>6, <2>2, Zenon
  <2> QED
    BY <2>4, <2>5, Zenon
<1> QED
  BY <1>5, <1>7, Zenon

\* A walk along the ring stays in it.
LEMMA RingClosed ==
    ASSUME RingInv
    PROVE  \A t \in InRing : task[t].next \in InRing
<1>1. Len(ring) \in Nat /\ Len(ring) >= 1
  BY RingFits DEF RingInv
<1>2. ASSUME NEW t \in InRing PROVE (IF t = Len(ring) - 1 THEN Kernel ELSE t + 1) \in InRing
  BY <1>1 DEF InRing, Kernel
<1> QED
  BY <1>2, Zenon DEF RingInv, Chained

\* The statements of a thread that leave the processor and the records alone.
Held == UNCHANGED <<current, next, pending, switching, running, sp, ring, off, task>>

\* Such a statement keeps what the processor runs and may run.
LEMMA HeldRuns ==
    ASSUME RunInv, Held, Stands', th'[Kernel].at \notin {"check", "activate", "pend"},
           th'[Kernel].at \in Adding \ {"fill"} => th[Kernel].at \in Adding \ {"fill"}
    PROVE  (Contexts /\ Choices /\ Pauses)'
<1>1. InRing' = InRing
  BY Zenon DEF Held, InRing
<1>2. Contexts'
  BY <1>1, Zenon DEF RunInv, Held, Contexts
<1>3. Choices'
  BY <1>1, Zenon DEF RunInv, Held, Choices
<1>4. Pauses'
  BY <1>1, Zenon DEF RunInv, Held, Pauses
<1> QED
  BY <1>2, <1>3, <1>4, Zenon

\* SysTick chooses a task of the ring that is not paused.
LEMMA TickRuns ==
    ASSUME RunInv, SysTick
    PROVE  (Contexts /\ Choices /\ Pauses /\ Stands)'
<1> DEFINE marked == [task EXCEPT ![current].status = "idle"]
<1>i. RingInv /\ Contexts /\ Choices /\ Pauses /\ Stands /\ Shaped(task)
  BY Zenon DEF RunInv, RingInv, Types
<1>r. Kernel \in InRing /\ InRing \subseteq Tasks /\ current \in InRing /\ current # NULL
  BY <1>i, RingFits, SystemTask, Zenon DEF RingInv, Contexts
<1>1. UNCHANGED <<current, switching, running, sp, th, ring, off>> /\ InRing' = InRing
  BY Zenon DEF SysTick, context, history, InRing
<1>2. PICK to \in Skip(marked, task[current].next) :
          next' = to /\ task' = [marked EXCEPT ![to].status = "active"]
  BY <1>r, Zenon DEF SysTick, os_task_next
<1>3. /\ SameLinks(marked, task)
      /\ \A t \in Tasks : marked[t].status = IF t = current THEN "idle" ELSE task[t].status
  <2>1. SameLinks(marked, task)
    BY <1>i, Marked, Zenon
  <2>2. \A t \in Tasks : marked[t].status = IF t = current THEN "idle" ELSE task[t].status
    BY <1>i, Marked
  <2> QED
    BY <2>1, <2>2, Zenon
<1> HIDE DEF marked
<1>4. \A t \in Tasks : task'[t].status = IF t = to THEN "active" ELSE marked[t].status
  <2>1. Shaped(marked)
    BY <1>3, Zenon DEF SameLinks
  <2>2. \A t \in Tasks : [marked EXCEPT ![to].status = "active"][t].status
                           = IF t = to THEN "active" ELSE marked[t].status
    BY <2>1, Zenon DEF Shaped
  <2> QED
    BY <1>2, <2>2, Zenon
<1>5. \A t \in InRing : marked[t].next \in InRing
  BY <1>i, <1>r, <1>3, RingClosed, Zenon DEF SameLinks
<1>6. task[current].next \in InRing
  BY <1>i, <1>r, RingClosed, Zenon
<1>7. to \in InRing /\ to \in Tasks /\ marked[to].status # "paused"
  <2>1. PICK k \in 0..MaxTasks : to = Follow(marked, task[current].next)[k]
    BY <1>2, Zenon DEF Skip
  <2>2. Follow(marked, task[current].next)[k] \in InRing
    BY <1>5, <1>6, FollowStays, Zenon
  <2> QED
    BY <1>2, <2>1, <2>2, Zenon DEF Skip
<1>8. to \notin off
  BY <1>i, <1>3, <1>7, Zenon DEF Pauses
<1>9. task'[Kernel].pid = task[Kernel].pid
  BY <1>i, SystemTask, TickSame, Zenon DEF SameRing, SameLinks
<1>10. \A t \in off : task'[t].status = "paused"
  BY <1>i, <1>r, <1>3, <1>4, <1>8, ZenonT(60) DEF Pauses
<1>11. Contexts' /\ Stands'
  BY <1>i, <1>1, Zenon DEF Contexts, Stands
<1>12. Choices'
  BY <1>i, <1>1, <1>2, <1>7, <1>8, ZenonT(60) DEF Choices
<1>13. Pauses'
  BY <1>i, <1>1, <1>9, <1>10, ZenonT(60) DEF Pauses
<1> QED
  BY <1>11, <1>12, <1>13, Zenon

\* PendSV gives the processor to the task chosen.
LEMMA SwitchRuns ==
    ASSUME RunInv, Switch
    PROVE  (Contexts /\ Choices /\ Pauses /\ Stands)' /\ running' = next
<1> DEFINE kept == [sp EXCEPT ![current] = running]
<1>i. RingInv /\ Contexts /\ Choices /\ Pauses /\ Stands
  BY Zenon DEF RunInv
<1>r. /\ InRing \subseteq Tasks /\ current \in InRing /\ current # NULL /\ Len(ring) \notin InRing
      /\ next \in InRing \ off /\ running = current /\ sp \in [Tasks -> Tasks \cup {NULL}]
  <2>1. InRing \subseteq Tasks /\ Len(ring) \in Nat
    BY <1>i, RingFits DEF RingInv
  <2> QED
    BY <1>i, <2>1, SystemTask DEF Contexts, Choices, Switch, InRing
<1>1. /\ running' = kept[next] /\ sp' = [kept EXCEPT ![next] = NULL] /\ current' = next /\ switching' = FALSE
      /\ UNCHANGED <<next, pending, th, task, ring, off>> /\ InRing' = InRing
  BY <1>r, Zenon DEF Switch, memory, history, InRing
<1>2. kept \in [Tasks -> Tasks \cup {NULL}] /\ \A t \in Tasks : kept[t] = IF t = current THEN running ELSE sp[t]
  BY <1>r, Zenon
<1> HIDE DEF kept
<1>3. sp' \in [Tasks -> Tasks \cup {NULL}] /\ \A t \in Tasks \ {next} : sp'[t] = kept[t]
  BY <1>1, <1>2, Zenon
<1>4. running' = next
  BY <1>i, <1>r, <1>1, <1>2, Zenon DEF Contexts
<1>5. \A t \in InRing \ {next} : sp'[t] = t
  BY <1>i, <1>r, <1>2, <1>3, Zenon DEF Contexts
<1>6. th[Kernel].at \in Adding \ {"fill"} => sp'[Len(ring)] = Len(ring)
  <2> SUFFICES ASSUME th[Kernel].at \in Adding \ {"fill"} PROVE sp'[Len(ring)] = Len(ring)
    BY Zenon
  <2>1. Len(ring) \in Tasks /\ sp[Len(ring)] = Len(ring)
    BY <1>i, Zenon DEF RingInv, Chained, Contexts
  <2> QED
    BY <1>r, <1>2, <1>3, <2>1, Zenon
<1>7. Contexts'
  BY <1>r, <1>1, <1>3, <1>4, <1>5, <1>6, ZenonT(60) DEF Contexts
<1>8. Choices' /\ Stands'
  BY <1>i, <1>1, Zenon DEF Choices, Stands
<1>9. Pauses'
  BY <1>i, <1>r, <1>1, Zenon DEF Pauses
<1> QED
  BY <1>4, <1>7, <1>8, <1>9, Zenon

\* A statement of os_task_create or os_task_add.
LEMMA AddRuns ==
    ASSUME RunInv, Create(Kernel) \/ Fill(Kernel) \/ Add(Kernel) \/ Walk(Kernel) \/ Link(Kernel)
                      \/ ReadCount(Kernel) \/ WriteCount(Kernel)
    PROVE  (Contexts /\ Choices /\ Pauses /\ Stands)'
<1> DEFINE me == th[Kernel]
<1>i. RingInv /\ Contexts /\ Choices /\ Pauses /\ Stands /\ Types /\ Shaped(task)
  BY Zenon DEF RunInv, RingInv, Types
<1>g. Kernel \in Tasks /\ DOMAIN th = Tasks /\ \A t \in Tasks : DOMAIN th[t] = ThreadFields
  BY <1>i, SystemTask, Zenon DEF Types
<1>r. Len(ring) \in 1..MaxTasks /\ InRing \subseteq Tasks /\ Kernel \in InRing /\ Len(ring) \notin InRing
  <2>1. Len(ring) \in 1..MaxTasks /\ InRing \subseteq Tasks /\ Kernel \in InRing
    BY <1>i, RingFits, Zenon DEF RingInv
  <2> QED
    BY <2>1 DEF InRing
<1>s. \A at \in {"run", "create"} \cup Adding \cup Counting : 
          at \notin Waking \cup Choosing \cup Marking \cup {"find", "check", "activate", "pend"}
  BY Zenon DEF Waking, Choosing, Marking, Adding, Counting
<1>1. CASE Create(Kernel) \/ Add(Kernel) \/ Walk(Kernel) \/ ReadCount(Kernel)
  <2>1. Held
    BY <1>1, Zenon DEF Create, Add, Walk, ReadCount, Held, memory, globals, context, history
  <2>2. /\ th'[Kernel].at \in {"run"} \cup Adding \cup Counting
        /\ th'[Kernel].at \in Adding \ {"fill"} => th[Kernel].at \in Adding \ {"fill"}
    <3>1. CASE Create(Kernel)
      <4>1. CASE Returns(Kernel)
        <5>1. th'[Kernel].at = "run"
          BY <1>i, <4>1, Returning, Zenon DEF Moves
        <5> QED
          BY <5>1, Zenon DEF Adding
      <4>2. CASE ~Returns(Kernel)
        <5>1. PICK x : th' = [th EXCEPT ![x] = Idle, ![Kernel].at = "fill", ![Kernel].task = x,
                                        ![Kernel].n = next_pid]
          BY <3>1, <4>2, Zenon DEF Create
        <5>2. th'[Kernel].at = "fill"
          <6> DEFINE f == [th EXCEPT ![x] = Idle]
          <6>1. DOMAIN f = Tasks /\ DOMAIN f[Kernel] = ThreadFields
            BY <1>g, Zenon DEF Idle, ThreadFields
          <6> HIDE DEF f
          <6>2. th' = [f EXCEPT ![Kernel].at = "fill", ![Kernel].task = x, ![Kernel].n = next_pid]
            BY <5>1, Zenon DEF f
          <6> QED
            BY <1>g, <6>1, <6>2, ZenonT(60) DEF ThreadFields
        <5> QED
          BY <5>2, Zenon DEF Adding
      <4> QED
        BY <4>1, <4>2, Zenon
    <3>2. CASE Add(Kernel)
      <4>1. th'[Kernel].at \in {"count", "walk"} /\ th[Kernel].at = "add"
        BY <1>g, <3>2, Zenon DEF Add, At, ThreadFields
      <4> QED
        BY <4>1, Zenon DEF Adding, Counting
    <3>3. CASE Walk(Kernel)
      <4>1. th[Kernel].at = "walk" /\ th'[Kernel].at \in {"walk", "link"}
        BY <1>g, <3>3, Zenon DEF Walk, At, ThreadFields
      <4> QED
        BY <4>1, Zenon DEF Adding
    <3>4. CASE ReadCount(Kernel)
      <4>1. th'[Kernel].at = "counted"
        BY <1>g, <3>4, Zenon DEF ReadCount, ThreadFields
      <4> QED
        BY <4>1, Zenon DEF Adding, Counting
    <3> QED
      BY <1>1, <3>1, <3>2, <3>3, <3>4, ZenonT(60)
  <2>3. Stands' /\ th'[Kernel].at \notin {"check", "activate", "pend"}
    BY <1>s, <2>2, Zenon DEF Stands
  <2> QED
    BY <2>1, <2>2, <2>3, HeldRuns, Zenon
<1>2. CASE Fill(Kernel)
  <2>1. /\ me.at = "fill" /\ UNCHANGED <<current, next, pending, switching, running, ring, off>>
        /\ task' = [task EXCEPT ![me.task] = [next |-> Kernel, status |-> "idle", pid |-> me.n]]
        /\ sp' = [sp EXCEPT ![me.task] = me.task]
    BY <1>2, Zenon DEF Fill, At, history
  <2>2. th'[Kernel].at = "add"
    BY <1>2, <1>i, Going, ZenonT(60) DEF Fill, Moves
  <2>3. me.task = Len(ring) /\ Len(ring) \in Tasks /\ InRing' = InRing
    BY <1>i, <2>1, Zenon DEF RingInv, Chained, Adding, InRing
  <2>4. \A t \in InRing : task'[t] = task[t] /\ sp'[t] = sp[t]
    BY <1>i, <1>r, <2>1, <2>3, Zenon DEF Shaped, Contexts
  <2>5. sp' \in [Tasks -> Tasks \cup {NULL}] /\ sp'[Len(ring)] = Len(ring)
    BY <1>i, <2>1, <2>3, Zenon DEF Contexts
  <2>6. Contexts'
    BY <1>i, <2>1, <2>3, <2>4, <2>5, ZenonT(60) DEF Contexts
  <2>7. "add" \in Adding
    BY Zenon DEF Adding
  <2>8. Stands'
    BY <1>s, <2>2, <2>7, Zenon DEF Stands
  <2>9. Choices'
    BY <1>i, <1>s, <2>1, <2>2, <2>3, <2>7, Zenon DEF Choices
  <2>10. Pauses'
    BY <1>i, <1>r, <2>1, <2>3, <2>4, Zenon DEF Pauses
  <2> QED
    BY <2>6, <2>8, <2>9, <2>10, ZenonT(60)
<1>3. CASE Link(Kernel)
  <2>1. /\ me.at = "link" /\ UNCHANGED <<current, next, pending, switching, running, sp, off>>
        /\ task' = [task EXCEPT ![me.ptr].next = me.task] /\ ring' = Append(ring, me.task)
    BY <1>3, Zenon DEF Link, At, globals, context
  <2>2. th'[Kernel].at = "count"
    BY <1>3, <1>i, Going, Zenon DEF Link, Moves
  <2>3. InRing' = InRing \cup {Len(ring)}
    <3>1. Len(ring') = Len(ring) + 1
      BY <1>i, <1>r, <2>1 DEF Types
    <3> QED
      BY <1>r, <3>1 DEF InRing
  <2>4. sp[Len(ring)] = Len(ring)
    BY <1>i, <2>1, Zenon DEF Contexts, Adding
  <2>5. \A t \in Tasks : task'[t].status = task[t].status /\ task'[t].pid = task[t].pid
    BY <1>i, <2>1, Zenon DEF Shaped
  <2>6. Contexts'
    BY <1>i, <2>1, <2>2, <2>3, <2>4, Zenon DEF Contexts, Adding
  <2>7. "count" \in Counting
    BY Zenon DEF Counting
  <2>8. Stands'
    BY <1>s, <2>2, <2>7, Zenon DEF Stands
  <2>9. Choices'
    BY <1>i, <1>s, <2>1, <2>2, <2>3, <2>7, ZenonT(60) DEF Choices
  <2>10. Pauses'
    BY <1>i, <1>r, <2>1, <2>3, <2>5, Zenon DEF Pauses
  <2> QED
    BY <2>6, <2>8, <2>9, <2>10, Zenon
<1>4. CASE WriteCount(Kernel)
  <2>1. Held /\ me.at = "counted"
    BY <1>4, ZenonT(60) DEF WriteCount, At, Held, memory, context, history
  <2>2. me.op = "load"
    BY <1>i, <2>1, Zenon DEF RingInv, Alone, Counting
  <2>3. th'[Kernel].at = "next" /\ th'[Kernel].op = "load"
    BY <1>4, <1>i, <2>2, Going, ZenonT(60) DEF WriteCount, Moves
  <2>4. Stands' /\ th'[Kernel].at \notin {"check", "activate", "pend"} \cup Adding
    BY <2>3, Zenon DEF Stands, Waking, Marking, Adding
  <2> QED
    BY <2>1, <2>4, HeldRuns, Zenon
<1> QED
  BY <1>1, <1>2, <1>3, <1>4, Zenon

\* A statement of os_task_next in the thread that loads a task.
LEMMA NextRuns ==
    ASSUME RunInv, NextIdle(Kernel) \/ NextAdvance(Kernel) \/ NextCheck(Kernel) \/ NextActivate(Kernel)
                      \/ NextPend(Kernel)
    PROVE  (Contexts /\ Choices /\ Pauses /\ Stands)'
<1> DEFINE me == th[Kernel]
<1>i. RingInv /\ Contexts /\ Choices /\ Pauses /\ Stands /\ Types /\ Shaped(task)
  BY Zenon DEF RunInv, RingInv, Types
<1>g. Kernel \in Tasks /\ DOMAIN th = Tasks /\ \A t \in Tasks : DOMAIN th[t] = ThreadFields
  BY <1>i, SystemTask, ZenonT(60) DEF Types
<1>r. Kernel \in InRing /\ InRing \subseteq Tasks /\ current \in InRing /\ current # NULL /\ current \notin off
  BY <1>i, RingFits, SystemTask, Zenon DEF RingInv, Contexts, Pauses
<1>l. me.op = "load"
  <2>1. me.at \in Choosing
    BY Zenon DEF NextIdle, NextAdvance, NextCheck, NextActivate, NextPend, At, Choosing
  <2> QED
    BY <1>i, <2>1, Zenon DEF Stands
<1>u. /\ UNCHANGED <<current, switching, running, sp, ring, off>> /\ InRing' = InRing
      /\ ~pending /\ ~switching
  BY Zenon DEF NextIdle, NextAdvance, NextCheck, NextActivate, NextPend, At, globals, context, history, InRing
<1>c. \A at \in Choosing \cup {"run"} : at \notin Waking \cup Adding \cup Marking \cup {"find"}
  BY Zenon DEF Choosing, Waking, Adding, Marking
<1>o. {"next", "advance", "check", "activate", "pend"} = Choosing
  BY Zenon DEF Choosing
<1>h. ASSUME th'[Kernel].at \in Choosing, th'[Kernel].op = "load" PROVE Contexts' /\ Stands'
  BY <1>i, <1>u, <1>c, <1>h, Zenon DEF Contexts, Stands
<1>m. ASSUME NEW a, a \notin off, NEW st, task' = [task EXCEPT ![a].status = st] PROVE Pauses'
  <2>1. \A t \in Tasks : task'[t].pid = task[t].pid
    BY <1>i, <1>m, Zenon DEF Shaped
  <2>2. \A t \in Tasks \ {a} : task'[t] = task[t]
    BY <1>i, <1>m, Zenon DEF Shaped
  <2> QED
    BY <1>i, <1>r, <1>u, <1>m, <2>1, <2>2, ZenonT(60) DEF Pauses
<1>1. CASE NextIdle(Kernel)
  <2>1. /\ task' = [task EXCEPT ![current].status = "idle"] /\ Goes(Kernel, "advance")
        /\ UNCHANGED <<next, pending>>
    BY <1>1, <1>r, Zenon DEF NextIdle, globals
  <2>2. th'[Kernel].at = "advance" /\ th'[Kernel].op = "load"
    BY <1>i, <1>l, <2>1, Going, Zenon DEF Moves
  <2>3. Choices'
    BY <1>i, <1>u, <2>1, <2>2, Zenon DEF Choices
  <2> QED
    BY <1>h, <1>m, <1>o, <1>r, <2>1, <2>2, <2>3, ZenonT(60)
<1>2. CASE NextAdvance(Kernel)
  <2>1. /\ next' = task[current].next /\ UNCHANGED <<task, pending>>
        /\ th' = [th EXCEPT ![Kernel].at = "check", ![Kernel].ptr = task[current].next]
    BY <1>2, Zenon DEF NextAdvance, memory
  <2>2. /\ th'[Kernel].at = "check" /\ th'[Kernel].op = "load" /\ th'[Kernel].ptr = task[current].next
    BY <1>g, <1>l, <2>1, Zenon DEF ThreadFields
  <2>3. task[current].next \in InRing
    BY <1>i, <1>r, RingClosed, ZenonT(60)
  <2>4. Choices'
    BY <1>i, <1>u, <2>1, <2>2, <2>3 DEF Choices
  <2>5. Pauses'
    BY <1>i, <1>u, <2>1, Zenon DEF Pauses
  <2> QED
    BY <1>h, <1>o, <2>2, <2>4, <2>5, Zenon
<1>3. CASE NextCheck(Kernel)
  <2>1. UNCHANGED <<task, pending>> /\ me.at = "check"
    BY <1>3, Zenon DEF NextCheck, At, memory
  <2>2. Pauses'
    BY <1>i, <1>u, <2>1, Zenon DEF Pauses
  <2>3. PICK x \in {next, me.ptr} :
           IF task[x].status = "paused"
           THEN next' = task[x].next /\ th' = [th EXCEPT ![Kernel].ptr = task[x].next]
           ELSE th' = [th EXCEPT ![Kernel].at = "activate", ![Kernel].ptr = x] /\ UNCHANGED next
    BY <1>3, Zenon DEF NextCheck
  <2>4. /\ next \in InRing /\ me.ptr \in InRing /\ x \in InRing
        /\ next = me.ptr \/ next \notin off
    BY <1>i, <2>1, Zenon DEF Choices
  <2>5. CASE task[x].status = "paused"
    <3>1. next' = task[x].next /\ th' = [th EXCEPT ![Kernel].ptr = task[x].next]
      BY <2>3, <2>5, Zenon
    <3>2. th'[Kernel].at = "check" /\ th'[Kernel].op = "load" /\ th'[Kernel].ptr = task[x].next
      BY <1>g, <1>l, <2>1, <3>1, ZenonT(60) DEF ThreadFields
    <3>3. task[x].next \in InRing
      BY <1>i, <2>4, RingClosed, ZenonT(60)
    <3>4. Choices'
      BY <1>i, <1>u, <2>1, <3>1, <3>2, <3>3, SMTT(60) DEF Choices
    <3> QED
      BY <1>h, <1>o, <2>2, <3>2, <3>4, Zenon
  <2>6. CASE task[x].status # "paused"
    <3>1. th' = [th EXCEPT ![Kernel].at = "activate", ![Kernel].ptr = x] /\ UNCHANGED next
      BY <2>3, <2>6, Zenon
    <3>2. th'[Kernel].at = "activate" /\ th'[Kernel].op = "load" /\ th'[Kernel].ptr = x
      BY <1>g, <1>l, <3>1, Zenon DEF ThreadFields
    <3>3. x \notin off /\ next \notin off
      BY <1>i, <2>4, <2>6, Zenon DEF Pauses
    <3>4. Choices'
      BY <1>i, <1>u, <2>1, <2>4, <3>1, <3>2, <3>3, ZenonT(60) DEF Choices
    <3> QED
      BY <1>h, <1>o, <2>2, <3>2, <3>4, ZenonT(60)
  <2> QED
    BY <2>5, <2>6, Zenon
<1>4. CASE NextActivate(Kernel)
  <2>1. PICK x \in {next, me.ptr} : task' = [task EXCEPT ![x].status = "active"]
    BY <1>4, Zenon DEF NextActivate
  <2>2. me.at = "activate" /\ Goes(Kernel, "pend") /\ UNCHANGED <<next, pending>>
    BY <1>4, Zenon DEF NextActivate, At, globals
  <2>3. x \notin off /\ next \in InRing \ off
    BY <1>i, <2>2, Zenon DEF Choices
  <2>4. th'[Kernel].at = "pend" /\ th'[Kernel].op = "load"
    BY <1>i, <1>l, <2>2, Going, ZenonT(60) DEF Moves
  <2>5. Choices'
    BY <1>i, <1>u, <2>2, <2>3, <2>4, ZenonT(60) DEF Choices
  <2> QED
    BY <1>h, <1>m, <1>o, <2>1, <2>3, <2>4, <2>5, ZenonT(60)
<1>5. CASE NextPend(Kernel)
  <2>1. me.at = "pend" /\ UNCHANGED <<task, next>>
    BY <1>5, Zenon DEF NextPend, At, memory
  <2>2. Returns(Kernel)
    BY <1>5, <1>l, Zenon DEF NextPend
  <2>3. th'[Kernel].at = "run"
    BY <1>i, <2>2, Returning, Zenon DEF Moves
  <2>4. next \in InRing \ off
    BY <1>i, <2>1, ZenonT(60) DEF Choices
  <2>5. Choices'
    BY <1>i, <1>u, <2>1, <2>3, <2>4, ZenonT(60) DEF Choices
  <2>6. Contexts'
    BY <1>i, <1>u, <1>c, <2>3, ZenonT(60) DEF Contexts
  <2>7. Stands'
    BY <1>c, <2>3, Zenon DEF Stands, Choosing
  <2>8. Pauses'
    BY <1>i, <1>u, <2>1, Zenon DEF Pauses
  <2> QED
    BY <2>5, <2>6, <2>7, <2>8, Zenon
<1> QED
  BY <1>1, <1>2, <1>3, <1>4, <1>5, ZenonT(60)

\* A statement of os_task_from_pid or os_task_pause.
LEMMA MarkRuns ==
    ASSUME RunInv, Find(Kernel) \/ PauseFound(Kernel) \/ PauseMark(Kernel)
    PROVE  (Contexts /\ Choices /\ Pauses /\ Stands)'
<1> DEFINE me == th[Kernel]
<1>i. RingInv /\ Contexts /\ Choices /\ Pauses /\ Stands /\ Types /\ Shaped(task)
  BY Zenon DEF RunInv, RingInv, Types
<1>g. Kernel \in Tasks /\ DOMAIN th = Tasks /\ \A t \in Tasks : DOMAIN th[t] = ThreadFields
  BY <1>i, SystemTask, Zenon DEF Types
<1>r. Kernel \in InRing /\ InRing \subseteq Tasks
  BY <1>i, RingFits, Zenon DEF RingInv
<1>1. CASE Find(Kernel)
  <2>1. Held /\ me.at = "find" /\ InRing' = InRing
    BY <1>1, Zenon DEF Find, At, Held, memory, globals, context, history, InRing
  <2>2. me.op = "pause" /\ me.ptr \in InRing /\ me.pid \in 1..MaxPid
    BY <1>i, <2>1, Zenon DEF Stands
  <2>3. Stands' /\ th'[Kernel].at \in {"run", "find", "found"}
    <3>1. CASE Returns(Kernel)
      <4>1. th'[Kernel].at = "run"
        BY <1>i, <3>1, Returning, ZenonT(60) DEF Moves
      <4> QED
        BY <4>1, Zenon DEF Stands, Waking, Choosing, Marking
    <3>2. CASE ~Returns(Kernel) /\ task[me.ptr].pid = me.pid
      <4>1. th' = [th EXCEPT ![Kernel].task = me.ptr, ![Kernel].ptr = NULL, ![Kernel].at = "found"]
        <5>1. (CASE me.op = "pause" -> "found" [] me.op = "resume" -> "wake" [] OTHER -> "release") = "found"
          BY <2>2, Zenon
        <5>2. th' = [th EXCEPT ![Kernel].task = me.ptr, ![Kernel].ptr = NULL,
                       ![Kernel].at = CASE me.op = "pause" -> "found"
                                         [] me.op = "resume" -> "wake"
                                         [] OTHER -> "release"]
          BY <1>1, <3>2, Zenon DEF Find
        <5> QED
          BY <5>1, <5>2, Zenon
      <4>2. th'[Kernel].at = "found" /\ th'[Kernel].op = "pause" /\ th'[Kernel].task = me.ptr
        BY <1>g, <2>2, <4>1, Zenon DEF ThreadFields
      <4>3. me.pid # 0
        BY <2>2
      <4>4. me.ptr # Kernel
        BY <1>i, <3>2, <4>3, ZenonT(60) DEF Pauses
      <4> QED
        BY <2>1, <2>2, <4>2, <4>4, ZenonT(60) DEF Stands, Waking, Choosing, Marking
    <3>3. CASE ~Returns(Kernel) /\ task[me.ptr].pid # me.pid
      <4>1. th' = [th EXCEPT ![Kernel].ptr = task[@].next, ![Kernel].n = @ + 1]
        BY <1>1, <3>3, Zenon DEF Find
      <4>2. /\ th'[Kernel].at = "find" /\ th'[Kernel].op = "pause" /\ th'[Kernel].pid = me.pid
            /\ th'[Kernel].ptr = task[me.ptr].next
        BY <1>g, <2>1, <2>2, <4>1, Zenon DEF ThreadFields
      <4>3. task[me.ptr].next \in InRing
        BY <1>i, <2>2, RingClosed, ZenonT(60)
      <4> QED
        BY <2>1, <2>2, <4>2, <4>3, Zenon DEF Stands, Waking, Choosing, Marking
    <3> QED
      BY <3>1, <3>2, <3>3, Zenon
  <2>4. th'[Kernel].at \notin {"check", "activate", "pend"} \cup Adding
    BY <2>3, Zenon DEF Adding
  <2> QED
    BY <2>1, <2>3, <2>4, HeldRuns, ZenonT(60)
<1>2. CASE PauseFound(Kernel)
  <2>1. Held /\ me.at = "found" /\ InRing' = InRing /\ running = Kernel
    BY <1>2, ZenonT(60) DEF PauseFound, At, Held, memory, globals, context, history, InRing
  <2>2. me.op = "pause" /\ me.task \in InRing \ {Kernel}
    BY <1>i, <2>1, Zenon DEF Stands, Marking
  <2>3. Goes(Kernel, "mark")
    BY <1>2, <1>i, <2>1, <2>2, Zenon DEF PauseFound, Contexts
  <2>4. th'[Kernel].at = "mark" /\ th'[Kernel].op = "pause" /\ th'[Kernel].task = me.task
    BY <1>i, <2>2, <2>3, Going, ZenonT(60) DEF Moves
  <2>5. Stands' /\ th'[Kernel].at \notin {"check", "activate", "pend"} \cup Adding
    BY <2>1, <2>2, <2>4, Zenon DEF Stands, Waking, Choosing, Marking, Adding
  <2> QED
    BY <2>1, <2>5, HeldRuns, Zenon
<1>3. CASE PauseMark(Kernel)
  <2>1. /\ UNCHANGED <<current, next, pending, switching, running, sp, ring>> /\ InRing' = InRing
        /\ me.at = "mark" /\ running = Kernel /\ ~pending /\ ~switching
        /\ task' = [task EXCEPT ![me.task].status = "paused"] /\ off' = off \cup {me.task}
    BY <1>3, Zenon DEF PauseMark, At, globals, context, InRing
  <2>2. me.task \in InRing \ {Kernel} /\ current = Kernel
    BY <1>i, <2>1, Zenon DEF Stands, Marking, Contexts
  <2>3. th'[Kernel].at = "run"
    BY <1>3, <1>i, Returning, ZenonT(60) DEF PauseMark, Moves
  <2>4. Stands' /\ th'[Kernel].at \notin {"check", "activate", "pend"} \cup Adding
    BY <2>3, Zenon DEF Stands, Waking, Choosing, Marking, Adding
  <2>5. \A t \in Tasks : /\ task'[t].status = IF t = me.task THEN "paused" ELSE task[t].status
                         /\ task'[t].pid = task[t].pid
    BY <1>i, <2>1, Zenon DEF Shaped
  <2>6. Pauses'
    BY <1>i, <1>r, <2>1, <2>2, <2>5, ZenonT(60) DEF Pauses
  <2>7. Contexts'
    BY <1>i, <2>1, <2>4, Zenon DEF Contexts
  <2>8. Choices'
    BY <1>i, <2>1, <2>4, Zenon DEF Choices
  <2> QED
    BY <2>4, <2>6, <2>7, <2>8, Zenon
<1> QED
  BY <1>1, <1>2, <1>3, Zenon

\* Every step keeps the invariant when the system task loads and pauses.
LEMMA RunStep ==
    ASSUME SystemTaskCalls({"load", "pause"}), RunInv, [Next]_vars
    PROVE  RunInv'
<1>a. SystemTaskCalls({"load", "pause", "resume"}) /\ "resume" \notin Operations
  BY Zenon DEF SystemTaskCalls
<1>i. RingInv /\ Contexts /\ Choices /\ Pauses /\ Stands
  BY Zenon DEF RunInv
<1>r. RingInv'
  BY <1>a, <1>i, RingStep, Zenon
<1>1. CASE SysTick
  BY <1>1, <1>r, TickRuns, Zenon DEF RunInv
<1>2. CASE Switch
  BY <1>2, <1>r, SwitchRuns, Zenon DEF RunInv
<1>3. CASE PendSV
  <2>1. /\ UNCHANGED <<current, next, running, sp, th, ring, off, task>> /\ InRing' = InRing
        /\ pending
    BY <1>3, Zenon DEF PendSV, memory, history, InRing
  <2>2. (Contexts /\ Choices /\ Pauses /\ Stands)'
    BY <1>i, <2>1, Zenon DEF Contexts, Choices, Pauses, Stands
  <2> QED
    BY <1>r, <2>2, Zenon DEF RunInv
<1>4. CASE UNCHANGED vars
  <2>1. /\ UNCHANGED <<current, next, pending, switching, running, sp, th, ring, off, task>> /\ InRing' = InRing
    BY <1>4, Zenon DEF vars, memory, globals, context, history, InRing
  <2>2. (Contexts /\ Choices /\ Pauses /\ Stands)'
    BY <1>i, <2>1, Zenon DEF Contexts, Choices, Pauses, Stands
  <2> QED
    BY <1>r, <2>2, Zenon DEF RunInv
<1>5. CASE Calls(Kernel)
  <2>1. Held /\ InRing' = InRing
    BY <1>5, Zenon DEF Calls, Held, memory, globals, context, history, InRing
  <2>2. \/ th'[Kernel].at = "create"
        \/ /\ th'[Kernel].at = "find" /\ th'[Kernel].op = "pause" /\ th'[Kernel].ptr = Kernel
           /\ th'[Kernel].pid \in 1..MaxPid
    BY <1>5, <1>a, <1>i, CallStep, Zenon DEF Moves
  <2>3. Kernel \in InRing
    BY <1>i, RingFits, Zenon DEF RingInv
  <2>4. Stands' /\ th'[Kernel].at \notin {"check", "activate", "pend"} \cup Adding
    BY <2>1, <2>2, <2>3, Zenon DEF Stands, Waking, Choosing, Marking, Adding
  <2> QED
    BY <1>r, <2>1, <2>4, HeldRuns, Zenon DEF RunInv
<1>6. CASE Thread(Kernel)
  <2>1. th[Kernel].at \in Statements /\ th[Kernel].at \notin Waking
    BY <1>i, Zenon DEF RingInv, Types, Stands
  <2>2. ~Release(Kernel) /\ ~Unlink(Kernel) /\ ~Free(Kernel)
    BY <2>1, Zenon DEF Release, Unlink, Free, At, Statements, Adding, Counting, Choosing, Marking, Waking
  <2>3. ~ResumeWake(Kernel) /\ ~ResumeIdle(Kernel) /\ ~Clear(Kernel) /\ ~Choose(Kernel)
    BY <2>1, Zenon DEF ResumeWake, ResumeIdle, Clear, Choose, At, Waking
  <2>4. (Contexts /\ Choices /\ Pauses /\ Stands)'
    BY <1>6, <2>2, <2>3, AddRuns, NextRuns, MarkRuns, ZenonT(60) DEF Thread
  <2> QED
    BY <1>r, <2>4, Zenon DEF RunInv
<1> QED
  BY <1>1, <1>2, <1>3, <1>4, <1>5, <1>6, <1>a, <1>i, OnlyKernel, ZenonT(60) DEF Next, RingInv

\* The processor's invariant holds from os_scheduler_init on.
LEMMA RunHolds ==
    ASSUME SystemTaskCalls({"load", "pause"})
    PROVE  Spec => []RunInv
<1>a. SystemTaskCalls({"load", "pause", "resume"})
  BY Zenon DEF SystemTaskCalls
<1>1. RingInv /\ Init => RunInv
  <2> SUFFICES ASSUME RingInv, Init PROVE RunInv
    BY Zenon
  <2>1. ring = <<0>> /\ InRing = {0}
    BY DEF Init, InRing, Kernel
  <2>2. th[Kernel] = Idle /\ Idle.at = "run"
    BY SystemTask, Zenon DEF Init, Idle
  <2>3. task[Kernel].pid = 0
    BY SystemTask, Zenon DEF Init
  <2>4. Contexts
    BY SystemTask, <2>1, <2>2, Zenon DEF Init, Contexts, Adding, Kernel
  <2>5. Choices /\ Pauses /\ Stands
    BY <2>1, <2>2, <2>3, Zenon DEF Init, Choices, Pauses, Stands, Waking, Choosing, Marking
  <2> QED
    BY <2>4, <2>5, Zenon DEF RunInv
<1>2. Spec => []RingInv
  BY <1>a, RingHolds, Zenon
<1> QED
  BY <1>1, <1>2, RunStep, PTL DEF Spec

\* As long as only the system task loads and pauses tasks, PendSV finds the last
\* context of a linked task in its record, for any number of tasks: no SysTick
\* inside os_task_next or before PendSV disables interrupts makes it save a
\* context in the record of another task.
THEOREM ContextIsSaved ==
    ASSUME SystemTaskCalls({"load", "pause"})
    PROVE  Spec => []ContextSaved
<1>1. RunInv => ContextSaved
  BY RingFits, Zenon DEF RunInv, RingInv, Contexts, ContextSaved
<1> QED
  BY <1>1, RunHolds, PTL

\* Under the same calls PendSV never switches to a task that os_task_pause has
\* paused, although os_next_task is read and written by SysTick and by the
\* thread without a lock.
THEOREM PausedIsOff ==
    ASSUME SystemTaskCalls({"load", "pause"})
    PROVE  Spec => PausedStaysOff
<1>1. RunInv /\ [Next]_vars => [running' # running => running' \notin off']_vars
  <2> SUFFICES ASSUME RunInv, Next, running' # running PROVE running' \notin off'
    BY Zenon DEF vars
  <2>1. CASE Switch
    <3>1. running' = next /\ off' = off /\ switching
      BY <2>1, SwitchRuns, Zenon DEF Switch, history
    <3> QED
      BY <3>1, Zenon DEF RunInv, Choices
  <2>2. CASE ~Switch
    <3>1. SysTick \/ PendSV => running' = running
      BY Zenon DEF SysTick, PendSV, context
    <3>2. ASSUME NEW t \in Tasks, Calls(t) PROVE running' = running
      BY <3>2, Zenon DEF Calls, context
    <3>3. ASSUME NEW t \in Tasks, Thread(t) PROVE running' = running
      <4>1. Create(t) \/ Add(t) \/ Walk(t) \/ Link(t) \/ ReadCount(t) \/ WriteCount(t) \/ Fill(t) => running' = running
        BY Zenon DEF Create, Fill, Add, Walk, Link, ReadCount, WriteCount, context
      <4>2. NextIdle(t) \/ NextAdvance(t) \/ NextCheck(t) \/ NextActivate(t) \/ NextPend(t) => running' = running
        BY Zenon DEF NextIdle, NextAdvance, NextCheck, NextActivate, NextPend, context
      <4>3. Find(t) \/ PauseFound(t) \/ PauseMark(t) \/ ResumeWake(t) \/ ResumeIdle(t) => running' = running
        BY Zenon DEF Find, PauseFound, PauseMark, ResumeWake, ResumeIdle, context
      <4>4. Clear(t) \/ Choose(t) \/ Release(t) \/ Unlink(t) \/ Free(t) => running' = running
        BY Zenon DEF Clear, Choose, Release, Unlink, Free, context
      <4> QED
        BY <3>3, <4>1, <4>2, <4>3, <4>4, ZenonT(60) DEF Thread
    <3> QED
      BY <2>2, <3>1, <3>2, <3>3, Zenon DEF Next
  <2> QED
    BY <2>1, <2>2, Zenon
<1> QED
  BY <1>1, RunHolds, PTL DEF Spec, PausedStaysOff

-----------------------------------------------------------------------------
(***************************************************************************)
(* The start of the firmware.                                              *)
(***************************************************************************)

\* The statements of main() and dac_configure() up to a change of the clocks.
ToPllB == {"moscsel", "moscxts", "select", "moscsels", "css_main", "mckrdy1", "pllbr", "lockb"}
ToCssB == ToPllB \union {"pres1", "mckrdy2", "css_pllb"}
ToPllA == ToCssB \union {"mckrdy3", "plla_off", "pllar", "locka"}
ToCssA == ToPllA \union {"pres3", "mckrdy4", "css_plla"}
PCs == ToCssA \union {"mckrdy5", "mckrdy6", "clock", "reset", "mode", "interrupt", "return", "read",
                     "dac_isr"}

\* The values of the clock controller's registers.
Fields == [xtal : {"off", "starting", "on"}, moscsel : {"rc", "xtal"}, moscsels : BOOLEAN,
           css : {"main", "plla", "pllb"}, pres : {1, 3}, mck : {"main", "plla", "pllb"},
           mckrdy : BOOLEAN, plla : {"off", "locking", "locked"}, pllb : {"off", "locking", "locked"}]

\* The statement and the registers are values of their types.
BootTypes == pc \in PCs /\ pmc \in Fields

\* How far the program is tells the sources of MCK and the PLLs that have locked.
SourceInv ==
    /\ pc \in ToCssB => pmc.css = "main" /\ pmc.mck = "main"
    /\ pc \notin ToPllB => pmc.pllb = "locked" \/ "lockb" \in late
    /\ pc \in ToPllA => pmc.css # "plla" /\ pmc.mck # "plla"
    /\ pc \notin ToPllA => pmc.plla = "locked"

\* MCKRDY is set, or a wait gave up, at each statement that writes PMC_MCKR.
SwitchInv ==
    /\ pmc.mckrdy => pmc.mck = pmc.css
    /\ pc \in ToPllA => pmc.pres = 1
    /\ pc = "css_pllb" => pmc.mckrdy \/ "mckrdy2" \in late
    /\ pc \in {"plla_off", "pllar", "locka", "pres3"} => pmc.mckrdy \/ "mckrdy3" \in late
    /\ pc = "css_plla" => pmc.mckrdy

\* What dac_configure() has reached, unless one of its waits gave up.
ConfiguredInv ==
    /\ pc \notin ToPllA \union {"pres3"} => pmc.pres = 3
    /\ pc \notin ToCssA => pmc.css = "plla" \/ "mckrdy4" \in late
    /\ pc \in {"clock", "reset", "mode", "interrupt", "return", "read", "dac_isr"}
           => pmc.mckrdy \/ "mckrdy6" \in late

\* The inductive invariant of the start.
BootInv == BootTypes /\ SourceInv /\ SwitchInv /\ ConfiguredInv

\* What a write to MCKR does to the fields.
LEMMA Written ==
    ASSUME pmc \in Fields, NEW css \in {"main", "plla", "pllb"}, NEW pres \in {1, 3}
    PROVE  /\ Mckr(css, pres) \in Fields
           /\ Mckr(css, pres).css = css /\ Mckr(css, pres).pres = pres
           /\ Mckr(css, pres).mck = pmc.mck
           /\ Mckr(css, pres).plla = pmc.plla /\ Mckr(css, pres).pllb = pmc.pllb
           /\ Mckr(css, pres).mckrdy <=> pmc.mckrdy /\ css = pmc.css /\ pres = pmc.pres
<1> DEFINE b == pmc.mckrdy /\ css = pmc.css /\ pres = pmc.pres
<1>1. b \in BOOLEAN
  BY Zenon
<1>2. Mckr(css, pres) = [pmc EXCEPT !.css = css, !.pres = pres, !.mckrdy = b]
  BY Zenon DEF Mckr
<1> HIDE DEF b
<1>3. /\ Mckr(css, pres) \in Fields
      /\ Mckr(css, pres).css = css /\ Mckr(css, pres).pres = pres
      /\ Mckr(css, pres).mck = pmc.mck
      /\ Mckr(css, pres).plla = pmc.plla /\ Mckr(css, pres).pllb = pmc.pllb
      /\ Mckr(css, pres).mckrdy = b
  BY <1>1, <1>2, ZenonT(60) DEF Fields
<1> QED
  BY <1>3, Zenon DEF b

\* Every step keeps the types.
LEMMA BootTypesStep ==
    ASSUME BootTypes, [BootNext]_bootVars
    PROVE  BootTypes'
<1> USE DEF BootTypes, PCs, ToCssA, ToPllA, ToCssB, ToPllB
<1>1. CASE Program
  <2>1. pc' \in PCs
    BY <1>1, Zenon DEF Program, Oscillator, MainClock, PllB, PllA, SwitchToPllA, Converter,
                Writes, WaitOr, Programs, Steps
  <2>2. \A css \in {"main", "plla", "pllb"}, pres \in {1, 3} : Mckr(css, pres) \in Fields
    BY Written, Zenon
  <2>3. pmc' \in Fields
    <3>1. CASE Oscillator
      BY <3>1, Zenon DEF Oscillator, Writes, WaitOr, Fields
    <3>2. CASE MainClock
      <4>1. [pmc EXCEPT !.moscsel = "xtal", !.moscsels = @ /\ pmc.moscsel = "xtal"] \in Fields
        BY Zenon DEF Fields
      <4>2. Mckr("main", pmc.pres) \in Fields
        BY <2>2 DEF Fields
      <4> QED
        BY <3>2, <4>1, <4>2, Zenon DEF MainClock, Writes, WaitOr
    <3>3. CASE PllB
      <4>1. [pmc EXCEPT !.pllb = "locking"] \in Fields
        BY Zenon DEF Fields
      <4> QED
        BY <2>2, <3>3, <4>1, Zenon DEF PllB, Writes, WaitOr
    <3>4. CASE PllA
      BY <3>4 DEF PllA, Writes, Fields
    <3>5. CASE SwitchToPllA
      <4>1. pmc.css \in {"main", "plla", "pllb"} /\ pmc.pres \in {1, 3}
        BY Zenon DEF Fields
      <4> QED
        BY <2>2, <3>5, <4>1, ZenonT(60) DEF SwitchToPllA, Writes, WaitOr
    <3>6. CASE Converter
      BY <3>6, Zenon DEF Converter, Programs
    <3> QED
      BY <1>1, <3>1, <3>2, <3>3, <3>4, <3>5, <3>6, ZenonT(60) DEF Program
  <2> QED
    BY <2>1, <2>3, ZenonT(60)
<1>2. CASE DacInterrupt
  BY <1>2, Zenon DEF DacInterrupt, Steps
<1>3. CASE LockA \/ Clocks
  <2>1. pc' = pc /\ pmc' \in Fields
    BY <1>3, ZenonT(60) DEF LockA, Clocks, Becomes, Fields
  <2> QED
    BY <2>1, Zenon
<1>4. CASE UNCHANGED bootVars
  BY <1>4, Zenon DEF bootVars
<1> QED
  BY <1>1, <1>2, <1>3, <1>4, Zenon DEF BootNext

\* Every step keeps the invariant: one case for each function of the program and
\* one for the clocks.
LEMMA BootStep ==
    ASSUME BootInv, [BootNext]_bootVars
    PROVE  BootInv'
<1> USE DEF BootTypes, PCs, ToCssA, ToPllA, ToCssB, ToPllB, SourceInv, SwitchInv, ConfiguredInv
<1> DEFINE Master == <<pmc.css, pmc.pres, pmc.mck, pmc.mckrdy>>
<1>i. BootTypes /\ SourceInv /\ SwitchInv /\ ConfiguredInv
  BY ZenonT(60) DEF BootInv
<1>t. BootTypes'
  BY <1>i, BootTypesStep, Zenon
<1>f. pmc.css \in {"main", "plla", "pllb"} /\ pmc.pres \in {1, 3}
  BY <1>i, Zenon DEF Fields
<1>1. CASE Oscillator
  <2>1. /\ UNCHANGED <<Master, pmc.plla, pmc.pllb>> /\ late \subseteq late'
        /\ pc \in {"moscsel", "moscxts"} /\ pc' \in {"moscxts", "select"}
    BY <1>1, <1>i, Zenon DEF Oscillator, Writes, WaitOr, Steps, Fields
  <2> QED
    BY <1>i, <1>t, <2>1, Zenon DEF BootInv
<1>2. CASE MainClock
  <2>1. CASE pc = "css_main"
    <3>1. pc' = "mckrdy1" /\ pmc' = Mckr("main", pmc.pres)
      BY <1>2, <2>1, ZenonT(60) DEF MainClock, Writes, WaitOr, Steps
    <3> QED
      BY <1>i, <1>t, <1>f, <2>1, <3>1, Written, Zenon DEF BootInv
  <2>2. CASE pc # "css_main"
    <3>1. /\ UNCHANGED <<Master, pmc.plla, pmc.pllb>> /\ late \subseteq late'
          /\ pc \in {"select", "moscsels", "mckrdy1"} /\ pc' \in {"moscsels", "css_main", "pllbr"}
      BY <1>2, <1>i, <2>2, Zenon DEF MainClock, Writes, WaitOr, Steps, Fields
    <3> QED
      BY <1>i, <1>t, <3>1, Zenon DEF BootInv
  <2> QED
    BY <2>1, <2>2, Zenon
<1>3. CASE PllB
  <2>1. CASE pc = "pllbr"
    <3>1. UNCHANGED <<Master, pmc.plla, late>> /\ pc' = "lockb"
      BY <1>3, <1>i, <2>1, Zenon DEF PllB, Writes, WaitOr, Steps, Fields
    <3> QED
      BY <1>i, <1>t, <2>1, <3>1, Zenon DEF BootInv
  <2>2. CASE pc \in {"lockb", "mckrdy2", "mckrdy3"}
    <3>1. /\ pmc' = pmc /\ late \subseteq late'
          /\ pc = "lockb" => pc' = "pres1" /\ (pmc.pllb = "locked" \/ "lockb" \in late')
          /\ pc = "mckrdy2" => pc' = "css_pllb" /\ (pmc.mckrdy \/ "mckrdy2" \in late')
          /\ pc = "mckrdy3" => pc' = "plla_off" /\ (pmc.mckrdy \/ "mckrdy3" \in late')
      BY <1>3, <2>2, ZenonT(60) DEF PllB, Writes, WaitOr, Steps
    <3> QED
      BY <1>i, <1>t, <2>2, <3>1, Zenon DEF BootInv
  <2>3. CASE pc \in {"pres1", "css_pllb"}
    <3>1. /\ UNCHANGED late
          /\ pc = "pres1" => pc' = "mckrdy2" /\ pmc' = Mckr("main", 1)
          /\ pc = "css_pllb" => pc' = "mckrdy3" /\ pmc' = Mckr("pllb", 1)
      BY <1>3, <2>3, ZenonT(60) DEF PllB, Writes, WaitOr, Steps
    <3> QED
      BY <1>i, <1>t, <1>f, <2>3, <3>1, Written DEF BootInv
  <2> QED
    BY <1>3, <2>1, <2>2, <2>3, Zenon DEF PllB, Writes, WaitOr, Steps
<1>4. CASE PllA
  <2>1. /\ UNCHANGED <<Master, pmc.pllb, late>>
        /\ pc \in {"plla_off", "pllar", "locka"} /\ pc' \in {"pllar", "locka", "pres3"}
        /\ pc' = "pres3" => pmc'.plla = "locked"
    BY <1>4, <1>i DEF PllA, Writes, Steps, Fields
  <2> QED
    BY <1>i, <1>t, <2>1 DEF BootInv
<1>5. CASE SwitchToPllA
  <2>1. CASE pc \in {"pres3", "css_plla"}
    <3>1. /\ UNCHANGED late
          /\ pc = "pres3" => pc' = "mckrdy4" /\ pmc' = Mckr(pmc.css, 3)
          /\ pc = "css_plla" => pc' = "mckrdy5" /\ pmc' = Mckr("plla", pmc.pres)
      BY <1>5, <2>1, ZenonT(60) DEF SwitchToPllA, Writes, WaitOr, Steps
    <3> QED
      BY <1>i, <1>t, <1>f, <2>1, <3>1, Written, SMTT(60) DEF BootInv
  <2>2. CASE pc \in {"mckrdy4", "mckrdy5", "mckrdy6"}
    <3>1. /\ pmc' = pmc /\ late \subseteq late'
          /\ pc = "mckrdy4" => \/ pc' = "css_plla" /\ pmc.mckrdy
                               \/ pc' = "mckrdy6" /\ "mckrdy4" \in late'
          /\ pc = "mckrdy5" => pc' = "mckrdy6"
          /\ pc = "mckrdy6" => pc' = "clock" /\ (pmc.mckrdy \/ "mckrdy6" \in late')
      BY <1>5, <2>2, ZenonT(60) DEF SwitchToPllA, Writes, WaitOr, Steps
    <3> QED
      BY <1>i, <1>t, <2>2, <3>1, SMTT(60) DEF BootInv
  <2> QED
    BY <1>5, <2>1, <2>2, ZenonT(60) DEF SwitchToPllA, Writes, WaitOr, Steps
<1>6. CASE Converter \/ DacInterrupt
  BY <1>6, <1>i, <1>t, SMTT(60) DEF BootInv, Converter, Programs, DacInterrupt, Steps
<1>7. CASE LockA \/ Clocks
  <2>1. /\ UNCHANGED <<pc, late, pmc.css, pmc.pres>>
        /\ pmc.plla = "locked" => pmc'.plla = "locked"
        /\ pmc.pllb = "locked" => pmc'.pllb = "locked"
        /\ \/ UNCHANGED <<pmc.mck, pmc.mckrdy>>
           \/ pmc'.mck = pmc.css /\ pmc'.mckrdy
    BY <1>7, <1>i, ZenonT(60) DEF LockA, Clocks, Becomes, Fields
  <2> QED
    BY <1>i, <1>t, <2>1 DEF BootInv
<1>8. CASE UNCHANGED bootVars
  BY <1>8, <1>i, ZenonT(60) DEF BootInv, bootVars
<1> QED
  BY <1>1, <1>2, <1>3, <1>4, <1>5, <1>6, <1>7, <1>8, Zenon DEF BootNext, Program

\* The invariant holds from reset on.
LEMMA BootHolds == BootSpec => []BootInv
<1>1. BootInit => BootInv
  BY DEF BootInit, BootInv, BootTypes, PCs, ToCssA, ToPllA, ToCssB, ToPllB, Fields, SourceInv, SwitchInv, ConfiguredInv
<1> QED
  BY <1>1, BootStep, PTL DEF BootSpec

\* MCK is only moved to a locked PLL and its PLL is not stopped under it, unless
\* main()'s wait for PLLB gave up, whatever the clocks do.
THEOREM SourceIsLocked == BootSpec => []SourceLocked
<1>1. BootInv => SourceLocked
  BY Zenon DEF BootInv, BootTypes, Fields, SourceInv, SourceLocked, ToPllA, ToCssB, ToPllB
<1> QED
  BY <1>1, BootHolds, PTL

\* When dac_configure() has returned, MCK is a third of PLLA unless one of its own
\* waits gave up.
THEOREM ClockIsConfigured == BootSpec => []ConfiguredClock
<1>1. BootInv => ConfiguredClock
  BY Zenon DEF BootInv, SwitchInv, ConfiguredInv, ConfiguredClock, ToCssA, ToPllA, ToCssB, ToPllB
<1> QED
  BY <1>1, BootHolds, PTL

\* main() and pmc_switch_mck_to_pllack() change PMC_MCKR only when MCKRDY is set
\* or a wait for it gave up.
THEOREM NeverRash == BootSpec => NoRashSwitch
<1> DEFINE Rash == pmc'.css # pmc.css \/ pmc'.pres # pmc.pres
           Late == late \intersect {"mckrdy1", "mckrdy2", "mckrdy3", "mckrdy4"} # {}
<1>1. BootInv /\ [BootNext]_bootVars => [Rash => pmc.mckrdy \/ Late]_bootVars
  <2> SUFFICES ASSUME BootInv, BootNext, Rash
               PROVE  pmc.mckrdy \/ Late
    BY Zenon DEF bootVars
  <2> USE DEF BootInv, BootTypes, Fields, SourceInv, SwitchInv, ToPllA, ToCssB, ToPllB
  <2>1. CASE Program
    BY <2>1, ZenonT(60) DEF Program, Oscillator, MainClock, PllB, PllA, SwitchToPllA, Converter, Writes, WaitOr, Steps, Mckr, Programs
  <2> QED
    BY <2>1, ZenonT(60) DEF BootNext, DacInterrupt, LockA, Clocks, Becomes
<1> QED
  BY <1>1, BootHolds, PTL DEF BootSpec, NoRashSwitch
============================================================================
