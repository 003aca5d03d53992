----------------------------- MODULE MCPickTasks -----------------------------
(* PickTasks on small instances; task workers are interchangeable.          *)
EXTENDS PickTasks, TLC

MCSymmetry == Permutations(TaskWorker)
==============================================================================
