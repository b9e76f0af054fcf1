-------------------------- MODULE MCTaskScheduler --------------------------
(* Instances of TaskScheduler for TLC *)
EXTENDS TaskScheduler, TLC

Symmetry == Permutations(Tasks)
=============================================================================
