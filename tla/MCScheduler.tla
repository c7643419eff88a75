---------------------------- MODULE MCScheduler ----------------------------
(* Scheduler on a small instance: 3 slots, and machines of 8 and of 9      *)
(* pages.  A user process needs 4 pages and a kernel process 2, so between *)
(* the two machines a creation fails at each of its allocations; slots are *)
(* reused after an exit, and pids run out.                                 *)
EXTENDS Scheduler

MCPages == 3 .. 11
MCMachines == {3 .. 10, 3 .. 11}
============================================================================
