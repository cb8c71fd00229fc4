---------------------------- MODULE MCScheduler ----------------------------
(* Instance of Scheduler for TLC. *)
EXTENDS Scheduler

\* Ids are compared by cancelAll, so they are numbers.  A random 64-bit draw is 0
\* once in 2^64, so the instances leave 0 out.
TwoTasks == 1..2

UntilStopped == {"running", "stopping"}
=============================================================================
