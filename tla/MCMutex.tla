-------------------------------- MODULE MCMutex --------------------------------
(* Mutex for TLC: tasks are interchangeable.  A run of Safety alone can use this with
   more tasks; the runs kept here check liveness too and do not. *)
EXTENDS Mutex, TLC

TaskSymmetry == Permutations(Task)
===============================================================================
