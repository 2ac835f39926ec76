---------------------------- MODULE MCInterlock -----------------------------
(* Bounds: the ON check alone, a pulse period of four ticks (100 in the    *)
(* gateware) whose high half holds two or three of them, and a limit of    *)
(* one: the second tick trips.                                             *)
EXTENDS Interlock

MCCntMod == [i \in Checks |-> 4]
=============================================================================
