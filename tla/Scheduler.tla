------------------------------ MODULE Scheduler ------------------------------
(***************************************************************************)
(* The Osmium scheduler (os/arch/armv7/scheduler.c), its context switch    *)
(* (os/arch/armv7/pendsv.S) and the loader's os_load_application           *)
(* (os/src/loader.c), on one processor.                                    *)
(*                                                                         *)
(* A thread of control runs one statement at a time.  SysTick, which has   *)
(* the highest priority, may come before any statement; PendSV, which has  *)
(* the lowest, comes before the next statement of a thread once it is      *)
(* pending, and SysTick may still preempt it before it disables            *)
(* interrupts.  Tasks are named by their records; the                      *)
(* system task is record 0.  The variables ring, off and harm record what  *)
(* was linked and paused and which of the mishaps happened that nothing in *)
(* the code prevents; they are read by no action.                          *)
(***************************************************************************)
EXTENDS Integers, Sequences, FiniteSets

CONSTANTS MaxTasks,    \* bound: task records that fit into the heap
          MaxPid,      \* bound: the pids that are given out
          Callers,     \* the tasks that call the scheduler; any application may finish
          Operations   \* what they call: subset of {"load", "pause", "resume", "stop", "finish"}

ASSUME SchedulerAssumption ==
    /\ MaxTasks \in 1..255 /\ MaxPid \in Nat
    /\ Callers \subseteq 0..MaxTasks - 1
    /\ Operations \subseteq {"load", "pause", "resume", "stop", "finish"}

Tasks == 0..MaxTasks - 1
Kernel == 0          \* schedule.head
NULL == -1
Status == {"unallocated", "idle", "active", "paused"}

VARIABLES
    task,      \* the records: next, status and pid of each task
    made,      \* the records that have been allocated
    freed,     \* the records that have been released with free()
    stacks,    \* the tasks whose stacks are allocated
    count,     \* schedule.count, a uint8_t
    next_pid,  \* schedule.next_pid
    current,   \* os_current_task
    next,      \* os_next_task
    pending,   \* PendSV is pending
    switching, \* PendSV has been entered and interrupts are not yet disabled
    running,   \* the task whose context is in the processor
    sp,        \* the task whose latest context each record's sp points to
    th,        \* where each thread stands in its call
    ring,      \* the tasks that were linked and not released, in their order
    off,       \* the tasks that were paused and not resumed
    harm       \* what spoils the ring: see Unlink and Add

memory == <<task, made, freed, stacks>>
globals == <<count, next_pid, current, next, pending>>
context == <<switching, running, sp>>
history == <<ring, off, harm>>
vars == <<memory, globals, context, th, history>>

Linked == {ring[i] : i \in DOMAIN ring}
NoRecord == [next |-> NULL, status |-> "unallocated", pid |-> 0]
Idle == [at |-> "run", op |-> "none", pid |-> 0, task |-> NULL, ptr |-> NULL, n |-> 0]

\* os_scheduler_init, up to the call of the system task's handler.
Init ==
    /\ task = [t \in Tasks |-> IF t = Kernel THEN [next |-> Kernel, status |-> "idle", pid |-> 0]
                                             ELSE NoRecord]
    /\ made = {Kernel} /\ freed = {} /\ stacks = {Kernel}
    /\ count = 1 /\ next_pid = 1
    /\ current = Kernel /\ next = NULL /\ pending = FALSE
    /\ switching = FALSE /\ running = Kernel
    /\ sp = [t \in Tasks |-> NULL]
    /\ th = [t \in Tasks |-> Idle]
    /\ ring = <<Kernel>> /\ off = {} /\ harm = {}
-----------------------------------------------------------------------------
(***************************************************************************)
(* Exceptions.                                                             *)
(***************************************************************************)

\* Mutant: a paused task is not skipped.
Skip_Nothing(r, t) == {t}

\* os_task_next walks from t along the records r to the first that is not paused.
Follow(r, t) == LET hop[k \in 0..MaxTasks] == IF k = 0 THEN t ELSE r[hop[k - 1]].next IN hop
Skip(r, t) == {x \in Tasks : \E k \in 0..MaxTasks :
                  /\ x = Follow(r, t)[k] /\ r[x].status # "paused"
                  /\ \A j \in 0..k - 1 : r[Follow(r, t)[j]].status = "paused"}

\* Mutant: the next task is that of the head.
os_task_next_FromHead ==
    \E to \in Skip([task EXCEPT ![current].status = "idle"], task[Kernel].next) :
        /\ next' = to
        /\ task' = [task EXCEPT ![current].status = "idle", ![to].status = "active"]
        /\ pending' = TRUE

\* os_task_next, called by the SysTick exception, which nothing interrupts.
os_task_next ==
    LET marked == IF current = NULL THEN task ELSE [task EXCEPT ![current].status = "idle"]
    IN \E to \in Skip(marked, IF current = NULL THEN next ELSE task[current].next) :
          /\ next' = to
          /\ task' = [marked EXCEPT ![to].status = "active"]
          /\ pending' = TRUE

SysTick ==
    /\ os_task_next
    /\ UNCHANGED <<made, freed, stacks, count, next_pid, current, context, th, history>>

\* PendSV is entered.  It is no longer pending, unless SysTick comes before cpsid.
PendSV ==
    /\ pending /\ ~switching
    /\ switching' = TRUE /\ pending' = FALSE
    /\ UNCHANGED <<memory, count, next_pid, current, next, running, sp, th, history>>

\* Mutant: the stack pointer of the current task is not saved.
Switch_NoSave ==
    /\ switching
    /\ running' = sp[next] /\ sp' = [sp EXCEPT ![next] = NULL]
    /\ current' = next /\ switching' = FALSE
    /\ UNCHANGED <<memory, count, next_pid, next, pending, th, history>>

\* With interrupts off, PendSV stores the stack pointer through os_current_task
\* (a store through NULL goes to the flash and changes nothing), loads that of
\* os_next_task and cycles the pointers.  Once loaded, the value in the record
\* is out of date.
Switch ==
    /\ switching
    /\ LET kept == IF current = NULL THEN sp ELSE [sp EXCEPT ![current] = running]
       IN running' = kept[next] /\ sp' = [kept EXCEPT ![next] = NULL]
    /\ current' = next /\ switching' = FALSE
    /\ UNCHANGED <<memory, count, next_pid, next, pending, th, history>>
-----------------------------------------------------------------------------
(***************************************************************************)
(* The statements of the threads.                                          *)
(***************************************************************************)
At(t, at) == running = t /\ ~pending /\ ~switching /\ th[t].at = at
Goes(t, at) == th' = [th EXCEPT ![t].at = at]
Returns(t) == th' = [th EXCEPT ![t] = Idle]

\* A task calls the scheduler, which refuses the system task's pid, or an
\* application returns to os_task_finished.
Calls(t) ==
    /\ At(t, "run")
    /\ \/ /\ "load" \in Operations /\ t \in Callers
          /\ th' = [th EXCEPT ![t] = [Idle EXCEPT !.at = "create", !.op = "load"]]
       \/ \E op \in Operations \cap {"pause", "resume", "stop"}, pid \in 1..MaxPid :
             t \in Callers /\ th' = [th EXCEPT ![t] = [Idle EXCEPT !.at = "find", !.op = op, !.pid = pid,
                                                  !.ptr = Kernel]]
       \/ /\ "finish" \in Operations /\ t # Kernel
          /\ th' = [th EXCEPT ![t] = [Idle EXCEPT !.at = "release", !.op = "finish",
                                                  !.task = current]]
    /\ UNCHANGED <<memory, globals, context, history>>

\* os_task_create: malloc fails, or the record and the stack are allocated,
\* perhaps where a released task had its own, and next_pid is read; then it is
\* written and the record is filled.
Create(t) ==
    /\ At(t, "create")
    /\ \/ Returns(t) /\ UNCHANGED <<made, freed, stacks>>
       \/ \E x \in (Tasks \ made) \cup freed :
             /\ next_pid <= MaxPid
             /\ \A y \in (Tasks \ made) \cup freed : x <= y
             /\ made' = made \cup {x} /\ freed' = freed \ {x} /\ stacks' = stacks \cup {x}
             /\ th' = [th EXCEPT ![x] = Idle,
                                 ![t].at = "fill", ![t].task = x, ![t].n = next_pid]
    /\ UNCHANGED <<task, globals, context, history>>

\* Mutant: the new task points to itself.
Fill_Self(t) ==
    /\ At(t, "fill")
    /\ next_pid' = th[t].n + 1
    /\ task' = [task EXCEPT ![th[t].task] = [next |-> th[t].task, status |-> "idle", pid |-> th[t].n]]
    /\ sp' = [sp EXCEPT ![th[t].task] = th[t].task]
    /\ Goes(t, "add")
    /\ UNCHANGED <<made, freed, stacks, count, current, next, pending, switching, running, history>>

Fill(t) ==
    /\ At(t, "fill")
    /\ next_pid' = th[t].n + 1
    /\ task' = [task EXCEPT ![th[t].task] = [next |-> Kernel, status |-> "idle", pid |-> th[t].n]]
    /\ sp' = [sp EXCEPT ![th[t].task] = th[t].task]
    /\ Goes(t, "add")
    /\ UNCHANGED <<made, freed, stacks, count, current, next, pending, switching, running, history>>

\* os_task_add walks to the tail, links the task and increments the count.  It
\* misses the tail if the count is not that of the ring.
Add(t) ==
    /\ At(t, "add")
    /\ th' = [th EXCEPT ![t].at = IF count = 0 THEN "count" ELSE "walk",
                        ![t].ptr = Kernel, ![t].n = count]
    /\ harm' = harm \cup (IF count = Len(ring) THEN {} ELSE {"miscounted"})
    /\ UNCHANGED <<memory, globals, context, ring, off>>

\* Mutant: while (count--)
Walk_TooFar(t) ==
    /\ At(t, "walk")
    /\ th' = IF th[t].n = 0 THEN [th EXCEPT ![t].at = "link"]
             ELSE [th EXCEPT ![t].n = @ - 1, ![t].ptr = task[@].next]
    /\ UNCHANGED <<memory, globals, context, history>>

Walk(t) ==
    /\ At(t, "walk")
    /\ th' = IF th[t].n = 1 THEN [th EXCEPT ![t].at = "link"]
             ELSE [th EXCEPT ![t].n = @ - 1, ![t].ptr = task[@].next]
    /\ UNCHANGED <<memory, globals, context, history>>

Link(t) ==
    /\ At(t, "link")
    /\ task' = [task EXCEPT ![th[t].ptr].next = th[t].task]
    /\ ring' = Append(ring, th[t].task)
    /\ Goes(t, "count")
    /\ UNCHANGED <<made, freed, stacks, globals, context, off, harm>>

\* schedule.count++ and schedule.count-- read the count and write it.
ReadCount(t) ==
    /\ At(t, "count")
    /\ th' = [th EXCEPT ![t].at = "counted", ![t].n = count]
    /\ UNCHANGED <<memory, globals, context, history>>

\* Mutant: a release leaves the count alone, and so does an addition.
WriteCount_Not(t) ==
    /\ At(t, "counted")
    /\ IF th[t].op = "load" THEN Goes(t, "next") ELSE Returns(t)
    /\ UNCHANGED <<memory, globals, context, history>>

WriteCount(t) ==
    /\ At(t, "counted")
    /\ IF th[t].op = "load"
       THEN count' = (th[t].n + 1) % 256 /\ Goes(t, "next")
       ELSE count' = (th[t].n - 1) % 256
            /\ IF th[t].op = "finish" THEN Goes(t, "hang") ELSE Returns(t)
    /\ UNCHANGED <<memory, next_pid, current, next, pending, context, history>>
-----------------------------------------------------------------------------
\* os_task_next in a thread: SysTick may come before each of its statements.
\* os_next_task is not volatile, so that the value read back may be the one the
\* thread last wrote (kept in ptr) or the one that SysTick left.
NextIdle(t) ==
    /\ At(t, "next")
    /\ IF current = NULL
       THEN /\ th' = [th EXCEPT ![t].at = "check", ![t].ptr = next]
            /\ UNCHANGED task
       ELSE task' = [task EXCEPT ![current].status = "idle"] /\ Goes(t, "advance")
    /\ UNCHANGED <<made, freed, stacks, globals, context, history>>

NextAdvance(t) ==
    /\ At(t, "advance")
    /\ next' = task[current].next
    /\ th' = [th EXCEPT ![t].at = "check", ![t].ptr = task[current].next]
    /\ UNCHANGED <<memory, count, next_pid, current, pending, context, history>>

NextCheck(t) ==
    /\ At(t, "check")
    /\ \E x \in {next, th[t].ptr} :
          IF task[x].status = "paused"
          THEN next' = task[x].next /\ th' = [th EXCEPT ![t].ptr = task[x].next]
          ELSE th' = [th EXCEPT ![t].at = "activate", ![t].ptr = x] /\ UNCHANGED next
    /\ UNCHANGED <<memory, count, next_pid, current, pending, context, history>>

NextActivate(t) ==
    /\ At(t, "activate")
    /\ \E x \in {next, th[t].ptr} : task' = [task EXCEPT ![x].status = "active"]
    /\ Goes(t, "pend")
    /\ UNCHANGED <<made, freed, stacks, globals, context, history>>

\* PendSV is queued; what follows depends on the caller.
NextPend(t) ==
    /\ At(t, "pend")
    /\ pending' = TRUE
    /\ CASE th[t].op = "pause" -> Goes(t, "mark")
         [] th[t].op \in {"stop", "finish"} -> Goes(t, "free")
         [] OTHER -> Returns(t)
    /\ UNCHANGED <<memory, count, next_pid, current, next, context, history>>
-----------------------------------------------------------------------------
\* os_task_from_pid: one turn of the loop, or NULL at its end.
Find(t) ==
    /\ At(t, "find")
    /\ IF th[t].n >= count
       THEN Returns(t)
       ELSE IF task[th[t].ptr].pid = th[t].pid
       THEN th' = [th EXCEPT ![t].task = th[t].ptr, ![t].ptr = NULL,
                             ![t].at = CASE th[t].op = "pause" -> "found"
                                         [] th[t].op = "resume" -> "wake"
                                         [] OTHER -> "release"]
       ELSE th' = [th EXCEPT ![t].ptr = task[@].next, ![t].n = @ + 1]
    /\ UNCHANGED <<memory, globals, context, history>>

\* os_task_pause
PauseFound(t) ==
    /\ At(t, "found")
    /\ Goes(t, IF current = th[t].task THEN "next" ELSE "mark")
    /\ UNCHANGED <<memory, globals, context, history>>

PauseMark(t) ==
    /\ At(t, "mark")
    /\ task' = [task EXCEPT ![th[t].task].status = "paused"]
    /\ off' = off \cup {th[t].task}
    /\ Returns(t)
    /\ UNCHANGED <<made, freed, stacks, globals, context, ring, harm>>

\* os_task_resume: four statements before os_task_next.
ResumeWake(t) ==
    /\ At(t, "wake")
    /\ task' = [task EXCEPT ![th[t].task].status = "idle"]
    /\ off' = off \ {th[t].task}
    /\ Goes(t, "wake2")
    /\ UNCHANGED <<made, freed, stacks, globals, context, ring, harm>>

ResumeIdle(t) ==
    /\ At(t, "wake2")
    /\ task' = [task EXCEPT ![current].status = "idle"]
    /\ Goes(t, "clear")
    /\ UNCHANGED <<made, freed, stacks, globals, context, history>>

\* os_task_resume and os_task_release: the current task is forgotten, then the
\* next one is set.
Clear(t) ==
    /\ At(t, "clear")
    /\ current' = NULL
    /\ Goes(t, "choose")
    /\ UNCHANGED <<memory, count, next_pid, next, pending, context, history>>

Choose(t) ==
    /\ At(t, "choose")
    /\ next' = IF th[t].op = "resume" THEN th[t].task ELSE task[th[t].task].next
    /\ Goes(t, "next")
    /\ UNCHANGED <<memory, count, next_pid, current, pending, context, history>>

\* os_task_release: the head is refused; the stack is freed with interrupts off.
Release(t) ==
    /\ At(t, "release")
    /\ IF th[t].task = Kernel THEN Returns(t) /\ UNCHANGED stacks
       ELSE stacks' = stacks \ {th[t].task} /\ Goes(t, "unlink")
    /\ UNCHANGED <<task, made, freed, globals, context, history>>

\* Mutant: the parent keeps its pointer.
Unlink_Not(t) ==
    /\ At(t, "unlink")
    /\ ring' = SelectSeq(ring, LAMBDA x : x # th[t].task)
    /\ Goes(t, IF current = th[t].task THEN "clear" ELSE "free")
    /\ UNCHANGED <<memory, globals, context, off, harm>>

\* The loop over the parents looks at the head only, so that another parent
\* keeps its pointer.  Nothing keeps a walk of os_task_add out.
Unlink(t) ==
    /\ At(t, "unlink")
    /\ task' = IF count > 0 /\ task[Kernel].next = th[t].task
               THEN [task EXCEPT ![Kernel].next = task[th[t].task].next] ELSE task
    /\ ring' = SelectSeq(ring, LAMBDA x : x # th[t].task)
    /\ harm' = harm \cup (IF th[t].task \in Linked /\ task[Kernel].next # th[t].task
                          THEN {"kept"} ELSE {})
                    \cup (IF \E u \in Tasks : th[u].at \in {"walk", "link"}
                          THEN {"walked"} ELSE {})
    /\ Goes(t, IF current = th[t].task THEN "clear" ELSE "free")
    /\ UNCHANGED <<made, freed, stacks, globals, context, off>>

Free(t) ==
    /\ At(t, "free")
    /\ freed' = freed \cup {th[t].task}
    /\ Goes(t, "count")
    /\ UNCHANGED <<task, made, stacks, globals, context, history>>

Thread(t) ==
    \/ Create(t) \/ Fill(t) \/ Add(t) \/ Walk(t) \/ Link(t) \/ ReadCount(t) \/ WriteCount(t)
    \/ NextIdle(t) \/ NextAdvance(t) \/ NextCheck(t) \/ NextActivate(t) \/ NextPend(t)
    \/ Find(t) \/ PauseFound(t) \/ PauseMark(t) \/ ResumeWake(t) \/ ResumeIdle(t)
    \/ Clear(t) \/ Choose(t) \/ Release(t) \/ Unlink(t) \/ Free(t)

\* A record that was freed can be reached: what follows is undefined, and the
\* model ends.  The pointers are those of the globals, of the ring and of the
\* threads that get the processor.
Dangling == \E x \in freed :
                \/ x \in {current, next}
                \/ \E t \in (made \ freed) \cap (Linked \cup {current, next, running}) :
                      task[t].next = x \/ th[t].ptr = x

Next == ~Dangling /\ (SysTick \/ PendSV \/ Switch \/ \E t \in Tasks : Calls(t) \/ Thread(t))

Spec == Init /\ [][Next]_vars

\* SysTick fires every millisecond and PendSV is taken when it is pending.
FairSpec == Spec /\ WF_vars(SysTick) /\ WF_vars(PendSV) /\ WF_vars(Switch)
-----------------------------------------------------------------------------
\* The tasks that os_task_add linked and os_task_release did not unlink form
\* one ring that starts and ends at the system task, wherever SysTick comes:
\* there is no moment at which a walk along the records misses one.
RingComplete ==
    /\ ring # <<>> /\ ring[1] = Kernel
    /\ \A i, j \in DOMAIN ring : ring[i] = ring[j] => i = j
    /\ \A i \in DOMAIN ring :
          task[ring[i]].next = IF i = Len(ring) THEN Kernel ELSE ring[i + 1]

\* Every linked task that does not have the processor can be switched to: its
\* record's sp is that of its own last context (pendsv.S).
ContextSaved == \A t \in Linked \ {running} : sp[t] = t

\* The same under every operation, until a mishap spoils the ring.
RingSurvives == harm = {} => RingComplete

\* schedule.count is the number of tasks in the ring and of those that released
\* themselves and were switched away for ever before the count was decremented,
\* whenever no other task is inside a call of the scheduler.
SwitchedAway == {t \in made \ freed : th[t].task = t /\ t \notin Linked \cup {running}}
CountIsRing ==
    (\A t \in made \ freed : th[t].at = "run" \/ t \in SwitchedAway) =>
        count = Len(ring) + Cardinality(SwitchedAway)

\* The processor is never given to a task that os_task_pause has paused.
PausedStaysOff == [][running' # running => running' \notin off']_vars

\* A task never runs on a stack that os_task_release has freed.
RunsOnOwnStack == running \in stacks

\* A record that os_task_release has freed is in no walk that a task or SysTick
\* can make: the ring, the globals and the callers have let go of it.
FreedIsUnreachable == harm = {} => ~Dangling

\* Every task in the ring gets the processor, unless it is paused.
EveryTaskRuns ==
    \A t \in Tasks : (t \in Linked /\ t \notin off) ~> (running = t \/ t \in off)
==============================================================================
