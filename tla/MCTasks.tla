------------------------------- MODULE MCTasks --------------------------------
(* Small instances of Tasks for TLC. *)
EXTENDS Tasks

CONSTANTS t1, t2, t3

Tasks == {t1, t2, t3}
==============================================================================
