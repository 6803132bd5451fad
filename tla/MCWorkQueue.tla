------------------------------ MODULE MCWorkQueue ------------------------------
(* WorkQueue for TLC: CPUs, works and tasks are interchangeable. *)
EXTENDS WorkQueue, TLC

Symmetry == Permutations(Cpu) \cup Permutations(Work) \cup Permutations(Task)
===============================================================================
