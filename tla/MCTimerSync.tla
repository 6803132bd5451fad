------------------------------ MODULE MCTimerSync ------------------------------
(* TimerSync for TLC. *)
EXTENDS TimerSync
===============================================================================
