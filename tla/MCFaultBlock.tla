---------------------------- MODULE MCFaultBlock ----------------------------
(* Bounds: the error glitch check, the one with the most conditions, with  *)
(* a counter of two bits and the shortest tick period for the tick's delay.*)
EXTENDS FaultBlock

MCCntMod == [i \in Checks |-> 4]
=============================================================================
