---------------------------- MODULE MCScheduler ----------------------------
(* Small instances of Scheduler. *)
EXTENDS Scheduler, TLC

CONSTANTS j1, j2, r1, r2, c1, c2, t1, t2, t3, t4, daily, hourly, garbled

SchedulerSymmetry == Permutations(Run) \cup Permutations(Caller) \cup Permutations(TaskId)
=============================================================================
