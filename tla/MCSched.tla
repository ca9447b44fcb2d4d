------------------------------ MODULE MCSched ------------------------------
(* Sched for TLC; the configurations give MAX_TASKS and the limits.        *)
EXTENDS Sched
=============================================================================
