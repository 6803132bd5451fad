------------------------------ MODULE MCTimerWheel ------------------------------
(* TimerWheel for TLC: distances on both sides of every vector's reach, and   *)
(* pairs of which one is hashed into a vector and the other into the next.    *)
EXTENDS TimerWheel

MCSetAt == {6, 255, 1023}
MCOffsets == {-1, 0, 2, 3, 14, 15, 67, 330}
================================================================================
