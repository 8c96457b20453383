---------------------------- MODULE MCScheduler ----------------------------
(***************************************************************************)
(* Scheduler for TLC.  MCScheduler.cfg gives the constants: a systime that *)
(* wraps after six ticks, three slots, tasks that return and tasks that    *)
(* hang, and more tasks than slots are offered to sched_add_task.          *)
(***************************************************************************)
EXTENDS Scheduler

=============================================================================
