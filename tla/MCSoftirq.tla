------------------------------- MODULE MCSoftirq -------------------------------
(* Softirq for TLC. *)
EXTENDS Softirq
===============================================================================
