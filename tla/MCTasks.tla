-------------------------------- MODULE MCTasks -------------------------------
(* Four tasks for a list of three, added by kernelMain and by the tasks. *)
EXTENDS Tasks

CONSTANTS t1, t2, t3, t4, main

MCTasks == {t1, t2, t3, t4}
MCCallers == {main, t1, t2}
================================================================================
