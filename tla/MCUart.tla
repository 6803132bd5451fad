---------------------------------- MODULE MCUart ----------------------------------
(* Uart for TLC: the users are interchangeable. *)
EXTENDS Uart, TLC

TaskSymmetry == Permutations(Task)
===============================================================================
