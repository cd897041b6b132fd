----------------------------- MODULE MCScheduler -----------------------------
(* A table of three, more ids than it has room for, among them the          *)
(* bootstrap task's and the invalid 0, and a quantum of three ticks.        *)
EXTENDS Scheduler

MCTaskIds == 0 .. 4

=============================================================================
