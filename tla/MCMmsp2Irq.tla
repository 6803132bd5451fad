------------------------------ MODULE MCMmsp2Irq ------------------------------
(* Instances of the MMSP2 interrupt controller for TLC. *)
EXTENDS Mmsp2Irq
===============================================================================
