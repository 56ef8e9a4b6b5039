-------------------------- MODULE MCSchedulerElection --------------------------
(* Finite instances of SchedulerElection for TLC.                          *)
EXTENDS SchedulerElection, TLC

================================================================================
