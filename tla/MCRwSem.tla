-------------------------------- MODULE MCRwSem --------------------------------
(* RwSem for TLC: tasks are interchangeable.  A run of Safety alone can use this with
   more tasks; the runs kept here check liveness too and do not. *)
EXTENDS RwSem, TLC

TaskSymmetry == Permutations(Task)
===============================================================================
