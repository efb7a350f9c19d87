---------------------------- MODULE MCScheduler ----------------------------
(***************************************************************************)
(* Instances of the scheduler for TLC.                                     *)
(***************************************************************************)
EXTENDS Scheduler

\* Once a mishap has spoilt the ring there is nothing more to find out.
Unspoilt == harm = {}

\* What does not hold because a task that releases itself leaves the count as it
\* is: the next task is linked behind the last one.
RingDespiteCount == harm \subseteq {"miscounted"} => RingComplete
============================================================================
