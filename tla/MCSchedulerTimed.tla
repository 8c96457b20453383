-------------------------- MODULE MCSchedulerTimed --------------------------
(***************************************************************************)
(* SchedulerTimed for TLC: the instance satisfies TimesFit.                *)
(***************************************************************************)
EXTENDS SchedulerTimed

ASSUME MCTimesFit == TimesFit

=============================================================================
