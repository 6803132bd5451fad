------------------------------- MODULE MCIrqFlow -------------------------------
(* IrqFlow for TLC: drivers are interchangeable, and so are hardware entries. *)
EXTENDS IrqFlow

Symmetry == Permutations(Dev) \cup Permutations(Hw)
===============================================================================
